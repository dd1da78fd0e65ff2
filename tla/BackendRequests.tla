-------------------------- MODULE BackendRequests --------------------------
(***************************************************************************)
(* Requests to the compositor: handleConnection of pkg/server with the     *)
(* clients of pkg/ipc/hyprland, pkg/ipc/niri and pkg/ipc/mango.            *)
(*                                                                         *)
(* A request is a sequence of round trips, each atomic under the client's  *)
(* mutex: the server asks for the active window when no window is named,   *)
(* the client may ask for the state it should set, for the active window   *)
(* and for the version, then it sends its commands.  Other connections and *)
(* the user act in between.                                                *)
(*                                                                         *)
(* Of a window the model keeps the states requests set or toggle and which *)
(* geometry commands it has had; of the desktop the layout, the options    *)
(* that were set and whether a key is bound.  Workspaces and outputs stay  *)
(* as they are: a window is on a workspace of an output, which it covers   *)
(* when it is fullscreen.                                                  *)
(***************************************************************************)
EXTENDS Naturals, Sequences, FiniteSets

CONSTANTS
    Clients,     \* connections
    Win,         \* windows
    Requests,    \* connection -> the requests it makes
    None,        \* no window
    MaxCalls,    \* bound: requests
    MaxEvents    \* bound: requests, changes by the user and round trips that fail

VARIABLES
    kind,     \* "legacy" (Hyprland before 0.55), "lua", "niri" or "mango"
    comp,     \* the compositor
    dialect,  \* Hyprland client: "unknown" until a version has been read
    job,      \* connection -> the request it handles
    calls,    \* requests so far
    events    \* requests, changes and failures so far

vars == <<kind, comp, dialect, job, calls, events>>

States   == {"full", "max", "fake", "pin", "float", "group"}
Layouts  == 1..3
Options  == {"gaps_h", "gaps_v", "border", "other"}
Hyprland == {"legacy", "lua"}
Window   == [is : SUBSET States, had : SUBSET {"move", "resize", "width", "height"}]

\* The requests that go to the compositor.
StateOf   == [SetFullscreen |-> "full", SetMaximized |-> "max", SetFakeFullscreen |-> "fake",
              PinWindow |-> "pin"]
StateOps  == DOMAIN StateOf
Moves     == {"MoveWindow", "MoveToWorkspace", "MoveToWorkspaceSilent", "MoveToMonitor",
              "MoveWindowPixel"}
WindowOps == Moves \union {"FocusWindow", "CloseWindow", "ToggleFloating", "ResizeWindow"}

\* Those about the desktop: they may change the focus, or it only matters how
\* many commands they are, or they set a layout, options or a key.
Wandering == {"FocusDir", "SwitchWorkspace", "FocusMonitor", "ToggleSpecialWorkspace",
              "ToggleOverview", "GroupNav"}
Plain     == {"SetDpms", "Execute", "Exit", "RawBatch", "SwitchKeyboardLayout", "ReloadConfig"}
LayoutOps == {"SetLayout", "NextLayout", "PrevLayout"}
OptionOps == {"SetConfig", "SetOtherOption", "BatchConfig"}
KeyOps    == {"BindKey", "UnbindKey", "BatchKeybinds"}

Operations == StateOps \union WindowOps \union Wandering \union Plain \union LayoutOps \union OptionOps
              \union KeyOps \union {"ToggleGroup", "SetKeyboardLayouts", "SetLayoutProperty"}

RequestsAssumption ==
    /\ Win # {} /\ None \notin Win \union Clients
    /\ \A c \in Clients : Requests[c] \subseteq
         [op : Operations, w : Win \union {None}, on : BOOLEAN, goal : {0} \union Layouts]
    /\ \A c \in Clients : \A r \in Requests[c] : r.op = "SetLayout" => r.goal \in Layouts
    /\ MaxCalls \in Nat /\ MaxEvents \in Nat

\* w is the window's id as far as it is known, seen the windows the client
\* found in the state it is to set, current the layout it found, goal the
\* layout to set, guessed whether the client took a query's failure for an
\* answer.
Idle == [phase |-> "idle", op |-> "", w |-> None, on |-> FALSE, seen |-> {}, current |-> 0, goal |-> 0,
         cmds |-> << >>, result |-> "", guessed |-> FALSE, touched |-> {}, disturbed |-> FALSE]

TypeOK ==
    /\ kind \in Hyprland \union {"niri", "mango"}
    /\ DOMAIN comp.wins \subseteq Win /\ comp.wins \in [DOMAIN comp.wins -> Window]
    /\ comp.layout \in Layouts /\ comp.opts \subseteq Options /\ comp.bound \in BOOLEAN
    /\ comp.focus \in DOMAIN comp.wins \union {None}
    /\ dialect \in {"unknown", kind}
    /\ \A c \in Clients :
         /\ job[c].phase \in {"idle", "resolve", "active", "look", "spaces", "outputs", "version", "send", "done"}
         /\ job[c].op \in Operations \union {""} /\ job[c].w \in Win \union {None}
         /\ job[c].seen \subseteq Win /\ job[c].current \in 0..3 /\ job[c].touched \subseteq Win
         /\ (job[c].phase = "send") = (job[c].cmds # << >>)
         /\ (job[c].phase = "done") = (job[c].result \in {"ok", "error", "panic"})

Init ==
    /\ kind \in Hyprland \union {"niri", "mango"}
    /\ comp \in [wins : {[w \in Win |-> [is |-> {}, had |-> {}]]}, focus : {CHOOSE w \in Win : TRUE}, layout : {1},
                 opts : {{}}, bound : {FALSE}]
    /\ dialect = "unknown"
    /\ job = [c \in Clients |-> Idle]
    /\ calls = 0 /\ events = 0

----------------------------------------------------------------------------
(* What the clients send.  A command names its window, or None for the     *)
(* focused one, and the dialect of Hyprland it is written in.              *)

Cmd(verb, w, arg)   == [verb |-> verb, w |-> w, arg |-> arg, in |-> "any"]
Toggle(state, w)    == Cmd("toggle", w, state)
Place(how, w)       == Cmd("place", w, how)
Desk(verb, arg)     == Cmd(verb, None, arg)

\* Mutant: a window is closed without naming it.
WindowCommandUntargeted(j) ==
    CASE j.op = "FocusWindow"    -> Cmd("focus", j.w, "")
      [] j.op = "CloseWindow"    -> Cmd("close", None, "")
      [] j.op = "ToggleFloating" -> Toggle("float", j.w)
      [] j.op = "ResizeWindow"   -> Place("resize", j.w)
      [] j.op \in Moves          -> Place("move", j.w)

\* What all clients send alike about one window.
WindowCommand(j) ==
    CASE j.op = "FocusWindow"    -> Cmd("focus", j.w, "")
      [] j.op = "CloseWindow"    -> Cmd("close", j.w, "")
      [] j.op = "ToggleFloating" -> Toggle("float", j.w)
      [] j.op = "ResizeWindow"   -> Place("resize", j.w)
      [] j.op \in Moves          -> Place("move", j.w)

DesktopCommands(j) ==
    CASE j.op \in Wandering            -> <<Desk("wander", "")>>
      [] j.op = "SetKeyboardLayouts"   -> <<Desk("other", ""), Desk("other", "")>>
      [] j.op \in LayoutOps            -> <<Desk("layout", j.goal)>>
      [] j.op \in Plain                -> <<Desk("other", "")>>

\* Mutant: what the client saw is not used.
DiffersAlways(j) == j.on

\* Whether the window was in another state when the client looked; a window
\* it did not find was in none.
Differs(j) == (j.w \in j.seen) # j.on

HyprlandCommands(j, lua) ==
    CASE j.op = "SetFullscreen" -> IF Differs(j) THEN <<Toggle("full", None)>> ELSE << >>
      [] j.op = "SetMaximized" /\ lua  -> <<Cmd(IF j.on THEN "set" ELSE "unset", None, "max")>>
      [] j.op = "SetMaximized" /\ ~lua -> <<Toggle(IF j.on THEN "max" ELSE "full", None)>>
      [] j.op \in {"SetFakeFullscreen", "PinWindow"} -> <<Toggle(StateOf[j.op], j.w)>>
      [] j.op = "ToggleGroup"     -> <<Toggle("group", None)>>
      [] j.op \in WindowOps       -> <<WindowCommand(j)>>
      [] j.op = "SetConfig"       -> <<Desk("option", {"border"})>>
      [] j.op = "SetOtherOption"  -> <<Desk("option", {"other"})>>
      [] j.op = "BatchConfig"     -> <<Desk("option", Options \ {"other"})>>
      [] j.op \in {"BindKey", "UnbindKey"} -> <<Desk("bind", j.op = "BindKey")>>
      [] j.op = "BatchKeybinds"   -> \* one message: the unbinds, then the binds
           <<Desk("bind", j.on)>>
      [] OTHER                    -> DesktopCommands(j)

NiriCommands(j) ==
    CASE j.op = "SetFullscreen" -> IF Differs(j) THEN <<Toggle("full", j.w)>> ELSE << >>
      [] j.op \in {"SetMaximized", "SetFakeFullscreen"} -> <<Toggle(StateOf[j.op], j.w)>>
      [] j.op = "MoveWindow"    ->
           IF j.w = None THEN <<Place("move", None)>> ELSE <<Cmd("focus", j.w, ""), Place("move", None)>>
      [] j.op = "ResizeWindow"  -> <<Place("width", j.w), Place("height", j.w)>>
      [] j.op \in WindowOps \ {"MoveWindow", "ResizeWindow"} -> <<WindowCommand(j)>>
      [] OTHER                  -> DesktopCommands(j)

\* BatchConfig sets one key after the other, in the order of a Go map.
MangoCommands(j) ==
    LET option(o) == Desk("option", {o}) IN
    CASE j.op \in {"SetFullscreen", "SetMaximized", "PinWindow"} ->
           IF Differs(j) THEN <<Toggle(StateOf[j.op], j.w)>> ELSE << >>
      [] j.op = "SetFakeFullscreen" -> <<Toggle("fake", j.w)>>
      [] j.op \in WindowOps         -> <<WindowCommand(j)>>
      [] j.op = "SetConfig"         -> <<option("border")>>
      [] j.op = "BatchConfig"       ->
           IF j.on THEN <<option("gaps_h"), option("gaps_v"), option("border")>>
           ELSE <<option("border"), option("gaps_h"), option("gaps_v")>>
      [] OTHER                      -> DesktopCommands(j)

\* ErrNotSupported, and the windows that must be named.
Refused(j) ==
    \/ j.op = "SetLayoutProperty"
    \/ kind # "niri" /\ j.op = "ToggleOverview"
    \/ kind \in {"niri", "mango"} /\
         j.op \in {"ToggleGroup", "GroupNav", "RawBatch", "BatchKeybinds", "BindKey", "UnbindKey",
                   "SetOtherOption"}
    \/ kind = "niri" /\ j.op \in {"PinWindow", "ToggleSpecialWorkspace", "SetConfig",
                                  "BatchConfig", "SetLayout", "SetKeyboardLayouts"}
    \/ kind = "niri" /\ j.op = "FocusWindow" /\ j.w = None
    \/ kind = "mango" /\ j.op \in WindowOps \union StateOps /\ j.w = None

----------------------------------------------------------------------------
(* The compositor (external): the states a command may lead to, and the    *)
(* windows that differ.                                                    *)

Flip(S, x) == IF x \in S THEN S \ {x} ELSE S \union {x}

Closed(t) ==
    [comp EXCEPT !.wins = [x \in DOMAIN @ \ {t} |-> @[x]],
                 !.focus = IF @ # t THEN @
                           ELSE CHOOSE x \in (DOMAIN comp.wins \ {t}) \union {None} :
                                  x = None => DOMAIN comp.wins = {t}]

OnWindow(cmd, t) ==
    CASE cmd.verb = "toggle" -> [comp EXCEPT !.wins[t].is = Flip(@, cmd.arg)]
      [] cmd.verb = "set"    -> [comp EXCEPT !.wins[t].is = @ \union {cmd.arg}]
      [] cmd.verb = "unset"  -> [comp EXCEPT !.wins[t].is = @ \ {cmd.arg}]
      [] cmd.verb = "place"  -> [comp EXCEPT !.wins[t].had = @ \union {cmd.arg}]
      [] cmd.verb = "focus"  -> [comp EXCEPT !.focus = t]
      [] cmd.verb = "close"  -> Closed(t)

Effects(cmd) ==
    LET t == IF cmd.w = None THEN comp.focus ELSE cmd.w IN
    CASE cmd.verb = "wander" -> {[comp EXCEPT !.focus = f] : f \in DOMAIN comp.wins}
                                \union {comp}
      [] cmd.verb = "layout" -> {[comp EXCEPT !.layout = cmd.arg]}
      [] cmd.verb = "option" -> {[comp EXCEPT !.opts = @ \union cmd.arg]}
      [] cmd.verb = "bind"   -> {[comp EXCEPT !.bound = cmd.arg]}
      [] cmd.verb = "other"  -> {comp}
      [] OTHER -> IF t = None THEN {comp} ELSE {OnWindow(cmd, t)}

Touched(C) == {w \in DOMAIN comp.wins : w \notin DOMAIN C.wins \/ C.wins[w] # comp.wins[w]}

----------------------------------------------------------------------------
(* The stages of a request.  Each operator gives the job as the round trip *)
(* it names leaves it: at its next one, or done.                           *)

Done(j, result) == [j EXCEPT !.phase = "done", !.result = result, !.cmds = << >>]
At(j, phase)    == [j EXCEPT !.phase = phase]

\* Requests that go through dispatchVersioned of the Hyprland client.  Its
\* SetLayout is written in Lua whatever the version.
Versioned == (WindowOps \union StateOps \union Wandering \union
              {"ToggleGroup", "SetDpms", "Execute", "Exit"})

Drafts(j, d) ==
    CASE kind \in Hyprland -> HyprlandCommands(j, d = "lua")
      [] kind = "niri"      -> NiriCommands(j)
      [] kind = "mango"     -> MangoCommands(j)

WrittenIn(j, d) ==
    IF kind \notin Hyprland THEN "any" ELSE
    IF j.op \in LayoutOps THEN "lua" ELSE IF j.op \in Versioned THEN d ELSE "any"

Sending(j, d) ==
    LET cmds == Drafts(j, d) IN
    IF kind \in Hyprland /\ j.op = "SetFakeFullscreen" /\ d = "legacy" THEN Done(j, "error")
    ELSE IF cmds = << >> THEN Done(j, "ok")
    ELSE [At(j, "send") EXCEPT !.cmds = [i \in DOMAIN cmds |-> [cmds[i] EXCEPT !.in = WrittenIn(j, d)]]]

\* SetFullscreen of the Hyprland client asks for the version only to toggle.
Prepared(j) ==
    IF /\ kind \in Hyprland /\ dialect = "unknown" /\ j.op \in Versioned
       /\ j.op = "SetFullscreen" => Differs(j)
    THEN At(j, "version") ELSE Sending(j, dialect)

Looks(j) == \/ j.op \in LayoutOps
            \/ j.op = "SetFullscreen"
            \/ j.op \in {"SetMaximized", "PinWindow"} /\ kind = "mango"

Started(j) ==
    IF Refused(j) THEN Done(j, "error")
    ELSE IF kind = "niri" /\ j.op \in StateOps /\ j.w = None THEN At(j, "active")
    ELSE IF Looks(j) THEN At(j, "look") ELSE Prepared(j)

\* The answer of ActiveWindow to a client that was given no id.
Activated(j, w) ==
    IF kind \in Hyprland THEN Prepared([j EXCEPT !.w = w])
    ELSE IF w = None THEN Done(j, "ok")
    ELSE LET k == [j EXCEPT !.w = w] IN IF Looks(k) THEN At(k, "look") ELSE Prepared(k)

\* cycleLayout: the next layout by position, current is 0 if none is marked.
Cycled(current, up, wrap) ==
    LET next == IF up THEN current + 1 ELSE current - 1 IN
    IF next < 1 THEN IF wrap THEN 3 ELSE current
    ELSE IF next > 3 THEN IF wrap THEN 1 ELSE current
    ELSE next

\* With no layout marked, backwards and without wrapping, the index is -1.
LayoutsListed(j, current) ==
    LET next == IF j.op = "SetLayout" THEN j.goal
                ELSE Cycled(current, j.op = "NextLayout", j.on)
        k    == [j EXCEPT !.goal = next, !.current = current]
    IN  IF next = 0 THEN Done(k, "panic")
        ELSE IF j.op # "SetLayout" /\ next = current THEN Done(k, "ok")
        ELSE IF kind = "niri" THEN Done(k, "error")
        ELSE Prepared(k)

\* A window that is maximized or was resized may be as large as its output.
Covers(C, w) ==
    w \in DOMAIN C.wins /\ ("max" \in C.wins[w].is \/ {"width", "height"} \subseteq C.wins[w].had)

\* What a query of the windows may show.  Niri does not tell whether a window
\* is fullscreen: the client infers it from the size.
Readings(j) ==
    LET found == {w \in DOMAIN comp.wins : StateOf[j.op] \in comp.wins[w].is} IN
    {found} \union IF kind = "niri" /\ Covers(comp, j.w) THEN {found \union {j.w}} ELSE {}

\* The state is known.
Settled(j) == IF Differs(j) THEN Prepared(j) ELSE Done(j, "ok")

\* The answer to a query of the windows, or of one window.
WindowsListed(j, seen) ==
    LET k == [j EXCEPT !.seen = seen]
    IN  IF kind \in Hyprland THEN IF j.w = None THEN At(k, "active") ELSE Prepared(k)
        ELSE IF j.w \notin DOMAIN comp.wins THEN Done(k, "error")
        ELSE IF kind = "niri" THEN At(k, "spaces") ELSE Settled(k)

\* Without its workspace or the output's size a window is not fullscreen.
Missed(j) == [j EXCEPT !.seen = {}, !.guessed = TRUE]

----------------------------------------------------------------------------
(* Steps. *)

\* Everyone else's request is disturbed by a change of the windows.
Steps(c, j, C) ==
    /\ comp' = C
    /\ job' = [d \in Clients |->
                IF d = c THEN j ELSE [job[d] EXCEPT !.disturbed = @ \/ (C # comp /\ job[d].phase # "idle")]]

Counted == events < MaxEvents /\ events' = events + 1

Call(c) ==
    /\ job[c].phase \in {"idle", "done"}
    /\ calls < MaxCalls /\ calls' = calls + 1 /\ Counted
    /\ \E r \in Requests[c] :
         LET j == [Idle EXCEPT !.op = r.op, !.w = r.w, !.on = r.on, !.goal = r.goal] IN
         Steps(c, IF /\ r.w = None
                     /\ \/ r.op \in (WindowOps \ {"FocusWindow"}) \union StateOps
                        \/ r.op \in {"ToggleGroup", "SetLayoutProperty"}
                  THEN At(j, "resolve") ELSE Started(j), comp)
    /\ UNCHANGED <<kind, dialect>>

\* resolveID of the server, whose error is ignored.
Resolve(c) ==
    /\ job[c].phase = "resolve"
    /\ \/ Steps(c, Started([job[c] EXCEPT !.w = comp.focus]), comp) /\ UNCHANGED events
       \/ Counted /\ Steps(c, Started(job[c]), comp)
    /\ UNCHANGED <<kind, dialect, calls>>

\* ActiveWindow of the client; SetFullscreen of Hyprland ignores its error.
Ask(c) ==
    /\ job[c].phase = "active"
    /\ \/ Steps(c, Activated(job[c], comp.focus), comp) /\ UNCHANGED events
       \/ /\ Counted
          /\ Steps(c, IF kind \in Hyprland THEN Activated(job[c], None)
                      ELSE Done(job[c], "error"), comp)
    /\ UNCHANGED <<kind, dialect, calls>>

\* When the query of the current layout fails the list has no current one.
Look(c) ==
    /\ job[c].phase = "look"
    /\ \/ /\ job[c].op \in LayoutOps
          /\ Steps(c, LayoutsListed(job[c], comp.layout), comp) /\ UNCHANGED events
       \/ /\ job[c].op \notin LayoutOps
          /\ \E seen \in Readings(job[c]) : Steps(c, WindowsListed(job[c], seen), comp)
          /\ UNCHANGED events
       \/ /\ Counted
          /\ Steps(c, IF job[c].op \in LayoutOps THEN LayoutsListed(job[c], 0)
                      ELSE Done(job[c], "error"), comp)
    /\ UNCHANGED <<kind, dialect, calls>>

\* The niri client asks for the workspaces and their outputs, and then for the
\* sizes of the outputs; a failure of either is not reported.
Spaces(c) ==
    /\ job[c].phase = "spaces"
    /\ \/ Steps(c, At(job[c], "outputs"), comp) /\ UNCHANGED events
       \/ Counted /\ Steps(c, At(Missed(job[c]), "outputs"), comp)
    /\ UNCHANGED <<kind, dialect, calls>>

Outputs(c) ==
    /\ job[c].phase = "outputs"
    /\ \/ Steps(c, Settled(job[c]), comp) /\ UNCHANGED events
       \/ Counted /\ Steps(c, Settled(Missed(job[c])), comp)
    /\ UNCHANGED <<kind, dialect, calls>>

\* Mutant: the failure is remembered as an old version.
Remembered == dialect' = "legacy"

NotRemembered == UNCHANGED dialect

\* supportsLuaDispatchers: only an answer is remembered.
Version(c) ==
    /\ job[c].phase = "version"
    /\ \/ dialect' = kind /\ Steps(c, Sending(job[c], kind), comp) /\ UNCHANGED events
       \/ /\ Counted /\ NotRemembered
          /\ Steps(c, Sending([job[c] EXCEPT !.guessed = TRUE], "legacy"), comp)
    /\ UNCHANGED <<kind, calls>>

\* A reply that reads "unknown request" is an error; one that a dispatcher is
\* unknown, or the window, may pass for success.
Replied(j, result) ==
    IF result = "error" THEN {Done(j, "error")}
    ELSE IF Len(j.cmds) = 1 THEN {Done(j, "ok")} ELSE {[j EXCEPT !.cmds = Tail(@)]}

Send(c) ==
    LET j == job[c]
        cmd == Head(j.cmds)
        known == cmd.in \in {"any", kind}
        found == cmd.w = None \/ cmd.w \in DOMAIN comp.wins
    IN
    /\ j.phase = "send"
    /\ \/ /\ known /\ found /\ UNCHANGED events
          /\ \E C \in Effects(cmd), k \in Replied(j, "ok") :
               Steps(c, [k EXCEPT !.touched = @ \union Touched(C)], C)
       \/ /\ ~(known /\ found) /\ UNCHANGED events
          /\ \E result \in IF cmd.verb = "layout" THEN {"error"} ELSE {"ok", "error"} :
               \E k \in Replied(j, result) : Steps(c, k, comp)
       \/ Counted /\ \E k \in Replied(j, "error") : Steps(c, k, comp)
    /\ UNCHANGED <<kind, dialect, calls>>

\* The user focuses, closes or changes a window.
User ==
    /\ Counted
    /\ \E w \in DOMAIN comp.wins :
         \E cmd \in {Cmd("focus", w, ""), Cmd("close", w, ""), Toggle("full", w),
                     Toggle("max", w), Toggle("pin", w)} :
           \E C \in Effects(cmd) : C # comp /\ Steps(None, job, C)
    /\ UNCHANGED <<kind, dialect, calls>>

Handler ==
    \E c \in Clients :
      Resolve(c) \/ Ask(c) \/ Look(c) \/ Spaces(c) \/ Outputs(c) \/ Version(c) \/ Send(c)
Next == Handler \/ User \/ \E c \in Clients : Call(c)

Spec == Init /\ [][Next]_vars

----------------------------------------------------------------------------
(* Properties. *)

\* A request that names a window, or was resolved to one, acts on that window
\* and no other, whatever others do meanwhile.  On Hyprland the fullscreen, the
\* maximize and the group request act on the window that has the focus when the
\* command arrives, although they were given one, and on niri a window is focused
\* and then moved in two commands: another window moves if the focus changes in
\* between, or if the first one is gone.
ActsOnNamedWindow ==
    \A c \in Clients :
      LET j == job[c] IN
      \/ j.touched \subseteq {j.w}
      \/ j.w = None
      \/ kind \in Hyprland /\ j.op \in {"SetFullscreen", "SetMaximized", "ToggleGroup"}
      \/ kind = "niri" /\ j.op = "MoveWindow" /\ (j.disturbed \/ j.w \notin DOMAIN comp.wins)

\* The states of which the client knows or sets the value.  The others are
\* toggled blindly.
Settable ==
    {op \in StateOps : \/ op = "SetFullscreen"
                       \/ op = "SetMaximized" /\ kind \in {"lua", "mango"}
                       \/ op = "PinWindow" /\ kind = "mango"}

\* An acknowledged request has had its effect, unless somebody changed the
\* compositor while it was handled: reading a state and toggling it come to
\* setting it, several options are all set, a layout is followed by its
\* neighbour.  Nothing is said of a request whose client took the failure of a
\* query for an answer (an old version, on niri a window that is not
\* fullscreen).  On Hyprland the window has to have the focus; on niri it must
\* not be as large as its output for another reason than being fullscreen.
SetTakesEffect ==
    \A c \in Clients :
      LET j == job[c] IN
      j.phase = "done" /\ j.result = "ok" /\ ~j.disturbed /\ ~j.guessed =>
        /\ j.op \in Settable /\ j.w # None /\ (kind \in Hyprland => j.w = comp.focus)
             /\ (kind = "niri" => ~Covers(comp, j.w)) =>
             (StateOf[j.op] \in comp.wins[j.w].is) = j.on
        /\ j.op = "BatchConfig" => {"gaps_h", "gaps_v", "border"} \subseteq comp.opts
        /\ j.op \in {"BindKey", "UnbindKey", "BatchKeybinds"} =>
             comp.bound = (j.op = "BindKey" \/ (j.op = "BatchKeybinds" /\ j.on))
        /\ j.op \in {"NextLayout", "PrevLayout"} /\ j.current # 0 /\ j.on =>
             comp.layout % 3 = (j.current + IF j.op = "NextLayout" THEN 1 ELSE 2) % 3

\* A command reaches a Hyprland that understands it, unless the version could
\* not be read for that very request, or it sets the layout.
DialectMatches ==
    \A c \in Clients :
      job[c].phase = "send" =>
        \/ Head(job[c].cmds).in \in {"any", kind}
        \/ job[c].guessed
        \/ job[c].op \in LayoutOps
=============================================================================
