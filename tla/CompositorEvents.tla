-------------------------- MODULE CompositorEvents --------------------------
(***************************************************************************)
(* What a compositor says on its event stream when its state changes, and  *)
(* how the three clients (pkg/ipc/hyprland, pkg/ipc/niri, pkg/ipc/mango)   *)
(* turn what they read into ipc.Event values and window lists.             *)
(*                                                                         *)
(* The compositors are external: what they send is taken from what the     *)
(* decoders expect.  A title, a workspace and an output are small numbers. *)
(* A window of niri is fullscreen when its size is the size of an output,  *)
(* so its size is abstracted to that Boolean.                              *)
(***************************************************************************)
EXTENDS Naturals, Sequences, FiniteSets

CONSTANTS
    Win,        \* windows the users may open
    Workspaces, \* workspaces, a set of numbers
    Mons,       \* monitors, a set of numbers
    None        \* no window, no value: Go's nil, "" or a missing key

Kinds == {"hyprland", "niri", "mango"}

(* The state of a compositor: the open windows with their attributes, the  *)
(* focused window, the active workspace and the connected monitors.        *)
Attrs == [title : 0..1, ws : Workspaces, floating : BOOLEAN, full : BOOLEAN]
Compositor == [wins : UNION {[S -> Attrs] : S \in SUBSET Win},
               focus : Win \union {None}, active : Workspaces,
               mons : SUBSET Mons]

(* ipc.Window, with the fields the cache is asked for. *)
WindowOf(comp, w, focused) ==
    [id |-> w, title |-> comp.wins[w].title, ws |-> comp.wins[w].ws,
     floating |-> comp.wins[w].floating, full |-> comp.wins[w].full,
     focused |-> focused]

(* ListWindows: only niri reports the focus with the windows, the others   *)
(* leave IsFocused false for MarkWindowFocused to set.                     *)
ListedFocus(kind, comp, w) == kind = "niri" /\ comp.focus = w

(***************************************************************************)
(* What the user does to the compositor.                                   *)
(***************************************************************************)
Open(comp, w) ==
    [comp EXCEPT !.wins = [x \in DOMAIN comp.wins \union {w} |->
                             IF x = w THEN [title |-> 0, ws |-> comp.active,
                                            floating |-> FALSE, full |-> FALSE]
                                      ELSE comp.wins[x]],
                 !.focus = w]

OnActive(comp) == {w \in DOMAIN comp.wins : comp.wins[w].ws = comp.active}

Close(comp, w, next) ==
    [comp EXCEPT !.wins = [x \in DOMAIN comp.wins \ {w} |-> comp.wins[x]],
                 !.focus = next]

(* Who has the focus once w is closed, and once workspace s is active.     *)
FocusAfter(comp, w) ==
    IF comp.focus # w THEN {comp.focus}
    ELSE IF OnActive(comp) \subseteq {w} THEN {None} ELSE OnActive(comp) \ {w}

FocusOn(comp, s) ==
    LET there == {w \in DOMAIN comp.wins : comp.wins[w].ws = s}
    IN  IF there = {} THEN {None} ELSE there

(* The states one change leads to, each with the name of the change and    *)
(* the window it is about.  The focus may leave a window that stays open:  *)
(* it goes to no window ("blur": a layer surface, the overview), or to     *)
(* whoever is next when the focused window is sent to another workspace    *)
(* and the user stays ("away").                                            *)
Changes(comp) ==
    LET c(what, w, to) == [what |-> what, w |-> w, to |-> to]
        open == DOMAIN comp.wins
    IN
    {c("open", w, Open(comp, w)) : w \in Win \ open}
    \union (UNION {{c("close", w, Close(comp, w, n)) : n \in FocusAfter(comp, w)} : w \in open})
    \union {c("focus", w, [comp EXCEPT !.focus = w]) : w \in OnActive(comp) \ {comp.focus}}
    \union {c("blur", None, [comp EXCEPT !.focus = None]) : x \in {comp.focus} \ {None}}
    \union {c("title", w, [comp EXCEPT !.wins[w].title = 1 - @]) : w \in open}
    \union {c("float", w, [comp EXCEPT !.wins[w].floating = ~@]) : w \in open}
    \union {c("full", w, [comp EXCEPT !.wins[w].full = ~@]) : w \in open}
    \union (UNION {{c("move", w, [comp EXCEPT !.wins[w].ws = s]) :
                      s \in Workspaces \ {comp.wins[w].ws}} : w \in open \ {comp.focus}})
    \union (UNION {{c("away", comp.focus, [comp EXCEPT !.wins[comp.focus].ws = s, !.focus = n]) :
                      n \in FocusAfter(comp, comp.focus)} :
                    s \in {y \in Workspaces : comp.focus \in open /\ y # comp.wins[comp.focus].ws}})
    \union (UNION {{c("switch", None, [comp EXCEPT !.active = s, !.focus = n]) :
                      n \in FocusOn(comp, s)} : s \in Workspaces \ {comp.active}})
    \union {c("plug", None, [comp EXCEPT !.mons = (@ \union {m}) \ (@ \intersect {m})]) :
              m \in {x \in Mons : comp.mons # {x}}}

(***************************************************************************)
(* The lines of the event stream: a name, a window and the compositor's    *)
(* state as the line was written, of which a decoder reads what that line  *)
(* carries.                                                                *)
(***************************************************************************)
Line(name, w, comp) == [ev |-> name, w |-> w, comp |-> comp]

HyprlandLines(what, w, comp) ==
    LET l(name, x) == Line(name, x, comp)
        focusLines == <<l("activewindow", comp.focus), l("activewindowv2", comp.focus)>>
    IN  CASE what = "open"   -> <<l("openwindow", w)>> \o focusLines
          [] what = "close"  -> <<l("closewindow", w)>> \o focusLines
          [] what \in {"focus", "blur"} -> focusLines
          [] what = "title"  -> <<l("windowtitle", w)>>
          [] what = "float"  -> <<l("changefloatingmode", w)>>
          [] what = "full"   -> <<l("fullscreen", w)>>
          [] what = "move"   -> <<l("movewindow", w)>>
          [] what = "away"   -> <<l("movewindow", w)>> \o focusLines
          [] what = "switch" -> <<l("workspace", None)>> \o focusLines
          [] what = "plug"   -> <<l("monitoradded", None)>>

NiriLines(what, w, comp) ==
    LET l(name, x) == Line(name, x, comp) IN
    CASE what \in {"open", "away"} ->
           <<l("WindowOpenedOrChanged", w), l("WindowFocusChanged", comp.focus)>>
      [] what = "close"  -> <<l("WindowClosed", w), l("WindowFocusChanged", comp.focus)>>
      [] what \in {"focus", "blur"} -> <<l("WindowFocusChanged", w)>>
      [] what \in {"title", "float", "move"} -> <<l("WindowOpenedOrChanged", w)>>
      [] what = "full"   -> <<l("WindowLayoutsChanged", w)>>
      [] what = "switch" -> <<l("WorkspaceActivated", None), l("WindowFocusChanged", comp.focus)>>
      [] what = "plug"   -> <<l("WorkspacesChanged", None)>>

MangoLines(what, w, comp) ==
    LET l(name, x) == Line(name, x, comp)
        focusing == IF comp.focus = None THEN << >> ELSE <<l("focusing-client", comp.focus)>>
    IN
    CASE what = "open"   -> focusing \o <<l("all-clients", w)>>
      [] what \in {"close", "away"} -> <<l("all-clients", w)>> \o focusing
      [] what \in {"focus", "blur"} -> focusing
      [] what \in {"title", "float", "full", "move"} -> <<l("all-clients", w)>>
      [] what = "switch" -> <<l("all-tags", None)>> \o focusing
      [] what = "plug"   -> <<l("all-monitors", None)>>

Lines(kind, what, w, comp) ==
    CASE kind = "hyprland" -> HyprlandLines(what, w, comp)
      [] kind = "niri"     -> NiriLines(what, w, comp)
      [] kind = "mango"    -> MangoLines(what, w, comp)

(* What a new subscriber is told first: niri replays its state, a watch of *)
(* MangoWC starts with the current lists, Hyprland sends nothing.          *)
Greeting(kind, comp) ==
    CASE kind = "hyprland" -> << >>
      [] kind = "niri"  -> <<Line("WorkspacesChanged", None, comp),
                             Line("WindowsChanged", None, comp)>>
      [] kind = "mango" -> <<Line("all-clients", None, comp)>>

(***************************************************************************)
(* The decoders.  An ipc.Event with the payload fields watchEvents reads:  *)
(* address, id, title and floating, and the window it carries.             *)
(***************************************************************************)
Event(type) ==
    [type |-> type, address |-> None, id |-> None, title |-> None,
     floating |-> None, win |-> None]

(* Subscribe of the Hyprland client.  An empty type with a payload is sent *)
(* too: it is the floating change.  openwindow carries a window without    *)
(* the ids of the dump, which watchEvents does not use.                    *)
HyprlandEvent(line) ==
    CASE line.ev = "openwindow"  -> Event("WindowCreated")
      [] line.ev = "closewindow" -> [Event("WindowClosed") EXCEPT !.address = line.w]
      [] line.ev = "activewindow" ->
           IF line.w = None THEN [Event("WindowFocused") EXCEPT !.title = None]
           ELSE [Event("WindowFocused") EXCEPT !.title = line.comp.wins[line.w].title]
      [] line.ev = "activewindowv2" -> [Event("WindowFocused") EXCEPT !.address = line.w]
      [] line.ev = "windowtitle" -> [Event("WindowTitleChanged") EXCEPT !.address = line.w]
      [] line.ev = "changefloatingmode" ->
           [Event("") EXCEPT !.address = line.w, !.floating = line.comp.wins[line.w].floating]
      [] line.ev = "fullscreen" -> Event("FullscreenChanged")
      [] line.ev = "movewindow" -> [Event("WindowMoved") EXCEPT !.address = line.w]
      [] line.ev = "workspace"  -> Event("WorkspaceChanged")
      [] line.ev = "monitoradded" -> Event("MonitorChanged")

(* handleEvent of the niri client.  The caches it consults come with it:   *)
(* sizes, whether each window's last known size is an output's, and known, *)
(* whether the outputs' sizes have been fetched.                           *)
NiriTransition(line, sizes, known) ==
    /\ known
    /\ sizes[line.w] # None
    /\ sizes[line.w] # line.comp.wins[line.w].full

NiriEvent(line, sizes, known) ==
    CASE line.ev \in {"WorkspacesChanged", "WorkspaceActivated", "WindowsChanged"} ->
           Event("WorkspaceChanged")
      [] line.ev = "WindowOpenedOrChanged" ->
           LET focused == line.comp.focus = line.w
               win == [WindowOf(line.comp, line.w, focused) EXCEPT !.full = @ /\ known]
               e   == [Event(IF focused THEN "WindowFocused" ELSE "WindowTitleChanged")
                         EXCEPT !.id = line.w, !.title = win.title, !.win = win]
           IN  IF focused THEN [e EXCEPT !.address = line.w] ELSE e
      [] line.ev = "WindowClosed" -> [Event("WindowClosed") EXCEPT !.id = line.w]
      [] line.ev = "WindowFocusChanged" ->
           [Event("WindowFocused") EXCEPT !.address = line.w, !.id = line.w]
      [] line.ev = "WindowLayoutsChanged" ->
           IF NiriTransition(line, sizes, known)
           THEN [Event("FullscreenChanged") EXCEPT !.id = line.w]
           ELSE Event("")

(* rememberWindowSizes, forgetWindowSize, detectFullscreenTransition. *)
NiriSizes(line, sizes) ==
    CASE line.ev \in {"WindowOpenedOrChanged", "WindowLayoutsChanged"} ->
           [sizes EXCEPT ![line.w] = line.comp.wins[line.w].full]
      [] line.ev = "WindowClosed" -> [sizes EXCEPT ![line.w] = None]
      [] line.ev = "WindowsChanged" ->
           [w \in Win |-> IF w \in DOMAIN line.comp.wins THEN line.comp.wins[w].full
                          ELSE sizes[w]]
      [] OTHER -> sizes

(* mapLine of the MangoWC client.  The focused client has an id and no     *)
(* address; its window says it is focused.  An empty list is not           *)
(* recognised and is taken for a reload of the configuration.              *)
MangoEvent(line) ==
    CASE line.ev = "all-clients" ->
           Event(IF DOMAIN line.comp.wins = {} THEN "ConfigReloaded" ELSE "WindowCreated")
      [] line.ev = "focusing-client" ->
           [Event("WindowFocused") EXCEPT !.id = line.w,
                !.title = line.comp.wins[line.w].title,
                !.win = [WindowOf(line.comp, line.w, TRUE) EXCEPT !.ws = None]]
      [] line.ev = "all-tags"     -> Event("WorkspaceChanged")
      [] line.ev = "all-monitors" -> Event("MonitorChanged")

(* An event nobody sends: no type, and on Hyprland no payload either. *)
Silent(kind, e) == e.type = "" /\ (kind = "hyprland" => e.address = None)
=============================================================================
