-------------------------- MODULE StateCacheProofs --------------------------
(***************************************************************************)
(* What holds of the cache for any windows, workspaces and monitors, any   *)
(* capacity of the channel and any number of changes: its types, that no   *)
(* window is in it twice, that a reply encoded from a slice of it shows    *)
(* the windows of one list, and that it converges to the compositor.       *)
(*                                                                         *)
(* The invariant has three parts.  StateOK types what the queries and the  *)
(* compositor leave.  StreamOK follows every line from the compositor to   *)
(* the event watchEvents handles: an event may carry a window, so nothing  *)
(* can be said of the cache without it.  HandedOut relates the cache to    *)
(* the slice a handler holds: while both use one array, the array begins   *)
(* with the windows of the list that was handed out.                       *)
(*                                                                         *)
(* Convergence adds what is still to come of the stream: reduced to what   *)
(* they do to the cache, the events and lines that are not handled leave   *)
(* nothing spoilt, and where the cache is wrong they put it right.         *)
(***************************************************************************)
EXTENDS StateCache, FiniteSetTheorems, SequenceTheorems, TLAPS

----------------------------------------------------------------------------
(* What the compositor does, and what it says about it. *)

\* The states of a compositor that users can bring about.
Compositors == {c \in Compositor : c.focus \in DOMAIN c.wins \union {None}}

\* What is said of a window that is there, and the changes of one.
OfWindow == {"changefloatingmode", "WindowOpenedOrChanged", "WindowLayoutsChanged", "focusing-client"}
Changing == {"open", "focus", "title", "float", "full", "move", "away"}

Names(k) ==
    CASE k = "hyprland" -> {"openwindow", "closewindow", "activewindow", "activewindowv2", "windowtitle",
                            "changefloatingmode", "fullscreen", "movewindow", "workspace", "monitoradded"}
      [] k = "niri"     -> {"WorkspacesChanged", "WorkspaceActivated", "WindowsChanged", "WindowOpenedOrChanged",
                            "WindowClosed", "WindowFocusChanged", "WindowLayoutsChanged"}
      [] k = "mango"    -> {"all-clients", "focusing-client", "all-tags", "all-monitors"}

\* The lines of a compositor, and the end of its stream.
Said(k) ==
    {l \in [ev : Names(k), w : Win \union {None}, comp : Compositors] :
       /\ l.ev \in OfWindow => l.w \in DOMAIN l.comp.wins
       /\ l.ev = "activewindow" => l.w \in DOMAIN l.comp.wins \union {None}}
Ends == [ev : {"eof"}, w : {None}, comp : Compositors]

\* Decoded events, and those that channels and watchEvents have besides.
Values(type) == [type : type, address : Win \union {None}, id : Win \union {None},
                 title : (0..1) \union {None}, floating : BOOLEAN \union {None}, win : Window \union {None}]
Told    == Refreshing \union {"", "WindowClosed", "WindowFocused", "WindowTitleChanged"}
Decoded == Values(Told)

\* The states of a compositor that is about to change.
\* The fields of a state of the compositor.
LEMMA CompositorIs ==
    ASSUME NEW c \in Compositors
    PROVE  /\ DOMAIN c.wins \subseteq Win /\ c.wins \in [DOMAIN c.wins -> Attrs]
           /\ \A w \in DOMAIN c.wins : c.wins[w] \in Attrs
           /\ c.focus \in DOMAIN c.wins \union {None} /\ c.focus \in Win \union {None}
           /\ c.active \in Workspaces /\ c.mons \subseteq Mons
           /\ c = [wins |-> c.wins, focus |-> c.focus, active |-> c.active, mons |-> c.mons]
BY DEF Compositors, Compositor

\* A state of the compositor, made of its fields.
LEMMA CompositorMade ==
    ASSUME NEW wins, NEW focus, NEW active \in Workspaces, NEW mons \in SUBSET Mons,
           DOMAIN wins \subseteq Win, wins \in [DOMAIN wins -> Attrs],
           focus \in DOMAIN wins \union {None}
    PROVE  [wins |-> wins, focus |-> focus, active |-> active, mons |-> mons] \in Compositors
BY DEF Compositors, Compositor

\* Opening a window leads to a state that has it.
LEMMA OpenIs ==
    ASSUME 1 \in Workspaces, NEW c \in Compositors, NEW w \in Win
    PROVE  Open(c, w) \in Compositors /\ w \in DOMAIN Open(c, w).wins
<1> DEFINE wins == [x \in DOMAIN c.wins \union {w} |->
                     IF x = w THEN [title |-> 0, ws |-> c.active, floating |-> FALSE, full |-> FALSE]
                     ELSE c.wins[x]]
<1> USE CompositorIs
<1>1. [title |-> 0, ws |-> c.active, floating |-> FALSE, full |-> FALSE] \in Attrs
  BY DEF Attrs
<1>2. wins \in [DOMAIN c.wins \union {w} -> Attrs]
  BY <1>1
<1>3. wins \in UNION {[S -> Attrs] : S \in SUBSET Win} /\ w \in DOMAIN wins
  <2>1. DOMAIN c.wins \union {w} \in SUBSET Win
    OBVIOUS
  <2> QED
    BY <1>2, <2>1
<1>4. Open(c, w) \in Compositor /\ Open(c, w).wins = wins /\ Open(c, w).focus = w
  <2> HIDE DEF wins
  <2>1. Open(c, w) = [c EXCEPT !.wins = wins, !.focus = w]
    BY DEF Open, wins
  <2>2. c \in Compositor
    BY DEF Compositors
  <2> QED
    BY <1>3, <2>1, <2>2 DEF Compositor
<1> QED
  BY <1>3, <1>4 DEF Compositors

\* Closing a window leads to a state, whoever gets the focus.
LEMMA CloseIs ==
    ASSUME NEW c \in Compositors, NEW w \in DOMAIN c.wins, NEW n \in (DOMAIN c.wins \ {w}) \union {None}
    PROVE  Close(c, w, n) \in Compositors
<1> DEFINE wins == [x \in DOMAIN c.wins \ {w} |-> c.wins[x]]
<1> USE CompositorIs
<1>2. wins \in [DOMAIN c.wins \ {w} -> Attrs]
  OBVIOUS
<1>3. wins \in UNION {[S -> Attrs] : S \in SUBSET Win} /\ n \in DOMAIN wins \union {None}
  <2>1. DOMAIN c.wins \ {w} \in SUBSET Win
    OBVIOUS
  <2> QED
    BY <1>2, <2>1
<1>4. Close(c, w, n) \in Compositor /\ Close(c, w, n).wins = wins /\ Close(c, w, n).focus = n
  <2> HIDE DEF wins
  <2>1. Close(c, w, n) = [c EXCEPT !.wins = wins, !.focus = n]
    BY DEF Close, wins
  <2>2. c \in Compositor /\ n \in Win \union {None}
    BY DEF Compositors
  <2> QED
    BY <1>3, <2>1, <2>2 DEF Compositor
<1> QED
  BY <1>3, <1>4 DEF Compositors

\* So does changing one window, which stays.
LEMMA AttrIs ==
    ASSUME NEW c \in Compositors, NEW w \in DOMAIN c.wins, NEW a \in Attrs
    PROVE  /\ [c EXCEPT !.wins[w] = a] \in Compositors
           /\ DOMAIN [c EXCEPT !.wins[w] = a].wins = DOMAIN c.wins
<1> DEFINE wins == [c.wins EXCEPT ![w] = a]
<1> USE CompositorIs
<1>2. wins \in [DOMAIN c.wins -> Attrs]
  OBVIOUS
<1>3. [wins |-> wins, focus |-> c.focus, active |-> c.active, mons |-> c.mons] \in Compositors
  <2> HIDE DEF wins
  <2> QED BY <1>2, CompositorMade
<1>4. [c EXCEPT !.wins[w] = a] = [wins |-> wins, focus |-> c.focus, active |-> c.active, mons |-> c.mons]
  OBVIOUS
<1> QED
  BY <1>2, <1>3, <1>4

\* The changes, one kind after the other.
LEMMA ChangesAre ==
    ASSUME NEW c, NEW x \in Changes(c)
    PROVE  \/ \E w \in Win \ DOMAIN c.wins : x = [what |-> "open", w |-> w, to |-> Open(c, w)]
           \/ \E w \in DOMAIN c.wins : \E n \in FocusAfter(c, w) :
                x = [what |-> "close", w |-> w, to |-> Close(c, w, n)]
           \/ \E w \in OnActive(c) \ {c.focus} : x = [what |-> "focus", w |-> w, to |-> [c EXCEPT !.focus = w]]
           \/ \E w \in DOMAIN c.wins : x = [what |-> "title", w |-> w, to |-> [c EXCEPT !.wins[w].title = 1 - @]]
           \/ \E w \in DOMAIN c.wins : x = [what |-> "float", w |-> w, to |-> [c EXCEPT !.wins[w].floating = ~@]]
           \/ \E w \in DOMAIN c.wins : x = [what |-> "full", w |-> w, to |-> [c EXCEPT !.wins[w].full = ~@]]
           \/ \E w \in DOMAIN c.wins, s \in Workspaces :
                x = [what |-> "move", w |-> w, to |-> [c EXCEPT !.wins[w].ws = s]]
           \/ x = [what |-> "blur", w |-> None, to |-> [c EXCEPT !.focus = None]]
           \/ \E s \in Workspaces : \E n \in FocusAfter(c, c.focus) :
                /\ c.focus \in DOMAIN c.wins
                /\ x = [what |-> "away", w |-> c.focus, to |-> [c EXCEPT !.wins[c.focus].ws = s, !.focus = n]]
           \/ \E s \in Workspaces : \E n \in FocusOn(c, s) :
                x = [what |-> "switch", w |-> None, to |-> [c EXCEPT !.active = s, !.focus = n]]
           \/ \E m \in Mons :
                x = [what |-> "plug", w |-> None, to |-> [c EXCEPT !.mons = (@ \union {m}) \ (@ \intersect {m})]]
<1> DEFINE
        A(what, w, to) == [what |-> what, w |-> w, to |-> to]
        Opens  == {A("open", w, Open(c, w)) : w \in Win \ DOMAIN c.wins}
        Closes == UNION {{A("close", w, Close(c, w, n)) : n \in FocusAfter(c, w)} : w \in DOMAIN c.wins}
        Focus  == {A("focus", w, [c EXCEPT !.focus = w]) : w \in OnActive(c) \ {c.focus}}
        Title  == {A("title", w, [c EXCEPT !.wins[w].title = 1 - @]) : w \in DOMAIN c.wins}
        Float  == {A("float", w, [c EXCEPT !.wins[w].floating = ~@]) : w \in DOMAIN c.wins}
        Full   == {A("full", w, [c EXCEPT !.wins[w].full = ~@]) : w \in DOMAIN c.wins}
        Moves  == UNION {{A("move", w, [c EXCEPT !.wins[w].ws = s]) :
                            s \in Workspaces \ {c.wins[w].ws}} : w \in DOMAIN c.wins \ {c.focus}}
        Blurs  == {A("blur", None, [c EXCEPT !.focus = None]) : y \in {c.focus} \ {None}}
        Aways  == UNION {{A("away", c.focus, [c EXCEPT !.wins[c.focus].ws = s, !.focus = n]) :
                            n \in FocusAfter(c, c.focus)} :
                          s \in {y \in Workspaces : c.focus \in DOMAIN c.wins /\ y # c.wins[c.focus].ws}}
        Switch == UNION {{A("switch", None, [c EXCEPT !.active = s, !.focus = n]) :
                            n \in FocusOn(c, s)} : s \in Workspaces \ {c.active}}
        Plugs  == {A("plug", None, [c EXCEPT !.mons = (@ \union {m}) \ (@ \intersect {m})]) :
                     m \in {y \in Mons : c.mons # {y}}}
<1>1. x \in Opens \union Closes \union Focus \union Blurs \union Title \union Float \union Full \union Moves
                 \union Aways \union Switch \union Plugs
  BY ONLY x \in Changes(c), Zenon DEF Changes
<1>2. x \in Closes => \E w \in DOMAIN c.wins : \E n \in FocusAfter(c, w) :
              x = [what |-> "close", w |-> w, to |-> Close(c, w, n)]
  BY ONLY TRUE
<1>3. x \in Moves => \E w \in DOMAIN c.wins, s \in Workspaces :
              x = [what |-> "move", w |-> w, to |-> [c EXCEPT !.wins[w].ws = s]]
  BY ONLY TRUE
<1>4. x \in Switch => \E s \in Workspaces : \E n \in FocusOn(c, s) :
              x = [what |-> "switch", w |-> None, to |-> [c EXCEPT !.active = s, !.focus = n]]
  BY ONLY TRUE
<1>6. x \in Aways => \E s \in Workspaces : \E n \in FocusAfter(c, c.focus) :
              /\ c.focus \in DOMAIN c.wins
              /\ x = [what |-> "away", w |-> c.focus, to |-> [c EXCEPT !.wins[c.focus].ws = s, !.focus = n]]
  BY ONLY TRUE
<1> HIDE DEF Opens, Closes, Focus, Blurs, Title, Float, Full, Moves, Aways, Switch, Plugs
<1>5. /\ x \in Opens => \E w \in Win \ DOMAIN c.wins : x = [what |-> "open", w |-> w, to |-> Open(c, w)]
      /\ x \in Focus => \E w \in OnActive(c) \ {c.focus} :
                          x = [what |-> "focus", w |-> w, to |-> [c EXCEPT !.focus = w]]
      /\ x \in Blurs => x = [what |-> "blur", w |-> None, to |-> [c EXCEPT !.focus = None]]
      /\ x \in Title => \E w \in DOMAIN c.wins :
                          x = [what |-> "title", w |-> w, to |-> [c EXCEPT !.wins[w].title = 1 - @]]
      /\ x \in Float => \E w \in DOMAIN c.wins :
                          x = [what |-> "float", w |-> w, to |-> [c EXCEPT !.wins[w].floating = ~@]]
      /\ x \in Full => \E w \in DOMAIN c.wins :
                          x = [what |-> "full", w |-> w, to |-> [c EXCEPT !.wins[w].full = ~@]]
      /\ x \in Plugs => \E m \in Mons :
           x = [what |-> "plug", w |-> None, to |-> [c EXCEPT !.mons = (@ \union {m}) \ (@ \intersect {m})]]
  BY Zenon DEF Opens, Focus, Blurs, Title, Float, Full, Plugs
<1> QED
  BY <1>1, <1>2, <1>3, <1>4, <1>5, <1>6

\* A change leads to a state of the compositor and is about a window that is
\* there afterwards, unless it was closed.
LEMMA ChangesLead ==
    ASSUME 1 \in Workspaces, None \notin Win, NEW c \in Compositors, NEW x \in Changes(c)
    PROVE  /\ x.to \in Compositors
           /\ x.what \in Changing \union {"close", "switch", "plug", "blur"}
           /\ x.what \in Changing => x.w \in DOMAIN x.to.wins
           /\ x.w \in Win \union {None}
<1> USE CompositorIs
<1>1. CASE \E w \in Win \ DOMAIN c.wins : x = [what |-> "open", w |-> w, to |-> Open(c, w)]
  BY <1>1, OpenIs DEF Changing
<1>2. CASE \E w \in DOMAIN c.wins : \E n \in FocusAfter(c, w) :
             x = [what |-> "close", w |-> w, to |-> Close(c, w, n)]
  <2>0. PICK w \in DOMAIN c.wins : \E n \in FocusAfter(c, w) :
             x = [what |-> "close", w |-> w, to |-> Close(c, w, n)]
    BY <1>2
  <2>1. PICK n \in FocusAfter(c, w) : x = [what |-> "close", w |-> w, to |-> Close(c, w, n)]
    BY <2>0
  <2>2. n \in (DOMAIN c.wins \ {w}) \union {None}
    BY <2>1 DEF OnActive, FocusAfter
  <2> QED
    BY <2>1, <2>2, CloseIs DEF Changing
<1>3. CASE \E w \in OnActive(c) : x = [what |-> "focus", w |-> w, to |-> [c EXCEPT !.focus = w]]
  <2>1. PICK w \in OnActive(c) : x = [what |-> "focus", w |-> w, to |-> [c EXCEPT !.focus = w]]
    BY <1>3
  <2>2. w \in DOMAIN c.wins
    BY DEF OnActive
  <2>3. [wins |-> c.wins, focus |-> w, active |-> c.active, mons |-> c.mons] \in Compositors
    BY <2>2, CompositorMade
  <2>4. [c EXCEPT !.focus = w] = [wins |-> c.wins, focus |-> w, active |-> c.active, mons |-> c.mons]
    OBVIOUS
  <2> QED
    BY <2>1, <2>2, <2>3, <2>4 DEF Changing
<1>4. CASE \E w \in DOMAIN c.wins : \E what \in Changing : \E a \in Attrs :
             x = [what |-> what, w |-> w, to |-> [c EXCEPT !.wins[w] = a]]
  BY <1>4, AttrIs
<1>5. CASE \E s \in Workspaces, n \in DOMAIN c.wins \union {None} :
             x = [what |-> "switch", w |-> None, to |-> [c EXCEPT !.active = s, !.focus = n]]
  <2>1. PICK s \in Workspaces, n \in DOMAIN c.wins \union {None} :
             x = [what |-> "switch", w |-> None, to |-> [c EXCEPT !.active = s, !.focus = n]]
    BY <1>5
  <2>2. c \in Compositor /\ n \in Win \union {None}
    BY DEF Compositors
  <2>3. LET d == [c EXCEPT !.active = s, !.focus = n] IN d \in Compositor /\ d.wins = c.wins /\ d.focus = n
    BY <2>2 DEF Compositor
  <2> QED
    BY <2>1, <2>3 DEF Changing, Compositors
<1>6. CASE \E m \in SUBSET Mons : x = [what |-> "plug", w |-> None, to |-> [c EXCEPT !.mons = m]]
  <2>1. PICK m \in SUBSET Mons : x = [what |-> "plug", w |-> None, to |-> [c EXCEPT !.mons = m]]
    BY <1>6
  <2>3. [wins |-> c.wins, focus |-> c.focus, active |-> c.active, mons |-> m] \in Compositors
    BY CompositorMade
  <2>4. [c EXCEPT !.mons = m] = [wins |-> c.wins, focus |-> c.focus, active |-> c.active, mons |-> m]
    OBVIOUS
  <2> QED
    BY <2>1, <2>3, <2>4 DEF Changing
<1>7. \A w \in DOMAIN c.wins :
        /\ [c.wins[w] EXCEPT !.title = 1 - @] \in Attrs /\ [c.wins[w] EXCEPT !.floating = ~@] \in Attrs
        /\ [c.wins[w] EXCEPT !.full = ~@] \in Attrs /\ \A s \in Workspaces : [c.wins[w] EXCEPT !.ws = s] \in Attrs
  <2> TAKE w \in DOMAIN c.wins
  <2>1. c.wins[w] \in Attrs
    OBVIOUS
  <2>2. ASSUME NEW a \in Attrs
        PROVE  /\ [a EXCEPT !.title = 1 - @] \in Attrs /\ [a EXCEPT !.floating = ~@] \in Attrs
               /\ [a EXCEPT !.full = ~@] \in Attrs /\ \A s \in Workspaces : [a EXCEPT !.ws = s] \in Attrs
    <3>1. [a EXCEPT !.title = 1 - @] \in Attrs
      BY <2>2 DEF Attrs
    <3>2. [a EXCEPT !.floating = ~@] \in Attrs
      BY <2>2 DEF Attrs
    <3>3. [a EXCEPT !.full = ~@] \in Attrs
      BY <2>2 DEF Attrs
    <3>4. \A s \in Workspaces : [a EXCEPT !.ws = s] \in Attrs
      BY <2>2 DEF Attrs
    <3> QED
      BY <3>1, <3>2, <3>3, <3>4
  <2> QED
    BY <2>1, <2>2
<1>8. \A w \in DOMAIN c.wins :
        /\ [c EXCEPT !.wins[w].title = 1 - @] = [c EXCEPT !.wins[w] = [c.wins[w] EXCEPT !.title = 1 - @]]
        /\ [c EXCEPT !.wins[w].floating = ~@] = [c EXCEPT !.wins[w] = [c.wins[w] EXCEPT !.floating = ~@]]
        /\ [c EXCEPT !.wins[w].full = ~@] = [c EXCEPT !.wins[w] = [c.wins[w] EXCEPT !.full = ~@]]
        /\ \A s \in Workspaces : [c EXCEPT !.wins[w].ws = s] = [c EXCEPT !.wins[w] = [c.wins[w] EXCEPT !.ws = s]]
  OBVIOUS
<1>9. CASE \E w \in DOMAIN c.wins : x = [what |-> "title", w |-> w, to |-> [c EXCEPT !.wins[w].title = 1 - @]]
  BY <1>4, <1>7, <1>8, <1>9 DEF Changing
<1>10. CASE \E w \in DOMAIN c.wins : x = [what |-> "float", w |-> w, to |-> [c EXCEPT !.wins[w].floating = ~@]]
  BY <1>4, <1>7, <1>8, <1>10 DEF Changing
<1>11. CASE \E w \in DOMAIN c.wins : x = [what |-> "full", w |-> w, to |-> [c EXCEPT !.wins[w].full = ~@]]
  BY <1>4, <1>7, <1>8, <1>11 DEF Changing
<1>12. CASE \E w \in DOMAIN c.wins, s \in Workspaces :
              x = [what |-> "move", w |-> w, to |-> [c EXCEPT !.wins[w].ws = s]]
  BY <1>4, <1>7, <1>8, <1>12 DEF Changing
<1>13. CASE \E m \in Mons : x = [what |-> "plug", w |-> None, to |-> [c EXCEPT !.mons = (@ \union {m}) \ (@ \intersect {m})]]
  <2>1. PICK m \in Mons : x = [what |-> "plug", w |-> None, to |-> [c EXCEPT !.mons = (@ \union {m}) \ (@ \intersect {m})]]
    BY <1>13
  <2> DEFINE M == (c.mons \union {m}) \ (c.mons \intersect {m})
  <2>2. M \in SUBSET Mons
    OBVIOUS
  <2>3. x = [what |-> "plug", w |-> None, to |-> [c EXCEPT !.mons = M]]
    BY <2>1
  <2> QED
    BY <1>6, <2>2, <2>3
<1>14. CASE \E s \in Workspaces : \E n \in FocusOn(c, s) :
              x = [what |-> "switch", w |-> None, to |-> [c EXCEPT !.active = s, !.focus = n]]
  BY <1>5, <1>14 DEF FocusOn
<1>15. CASE \E w \in OnActive(c) \ {c.focus} : x = [what |-> "focus", w |-> w, to |-> [c EXCEPT !.focus = w]]
  BY <1>3, <1>15
<1>16. CASE x = [what |-> "blur", w |-> None, to |-> [c EXCEPT !.focus = None]]
  <2>1. [wins |-> c.wins, focus |-> None, active |-> c.active, mons |-> c.mons] \in Compositors
    BY CompositorMade
  <2>2. [c EXCEPT !.focus = None] = [wins |-> c.wins, focus |-> None, active |-> c.active, mons |-> c.mons]
    OBVIOUS
  <2> QED
    BY <1>16, <2>1, <2>2 DEF Changing
<1>17. CASE \E s \in Workspaces : \E n \in FocusAfter(c, c.focus) :
              /\ c.focus \in DOMAIN c.wins
              /\ x = [what |-> "away", w |-> c.focus, to |-> [c EXCEPT !.wins[c.focus].ws = s, !.focus = n]]
  <2> DEFINE w == c.focus
  <2>1. PICK s \in Workspaces : \E n \in FocusAfter(c, w) :
              w \in DOMAIN c.wins /\ x = [what |-> "away", w |-> w, to |-> [c EXCEPT !.wins[w].ws = s, !.focus = n]]
    BY <1>17
  <2>2. PICK n \in FocusAfter(c, w) :
              w \in DOMAIN c.wins /\ x = [what |-> "away", w |-> w, to |-> [c EXCEPT !.wins[w].ws = s, !.focus = n]]
    BY <2>1
  <2> HIDE DEF w
  <2> DEFINE a == [c.wins[w] EXCEPT !.ws = s]
             W == [c.wins EXCEPT ![w] = a]
  <2>3. n \in DOMAIN c.wins \union {None}
    BY <2>2 DEF OnActive, FocusAfter
  <2>4. a \in Attrs
    BY <1>7, <2>2
  <2>8. [c EXCEPT !.wins[w].ws = s, !.focus = n] = [c EXCEPT !.wins = W, !.focus = n]
    OBVIOUS
  <2> HIDE DEF a
  <2>6. DOMAIN W = DOMAIN c.wins /\ W \in [DOMAIN W -> Attrs]
    BY <2>4
  <2> HIDE DEF W
  <2>9. W \in UNION {[S -> Attrs] : S \in SUBSET Win}
    <3>1. DOMAIN c.wins \in SUBSET Win
      OBVIOUS
    <3> QED
      BY <2>6, <3>1
  <2>7. LET e == [c EXCEPT !.wins = W, !.focus = n]
        IN  e \in Compositor /\ e.wins = W /\ e.focus = n
    <3>1. c \in Compositor /\ n \in Win \union {None}
      BY <2>3 DEF Compositors
    <3> QED
      BY <2>9, <3>1 DEF Compositor
  <2>5. x.what = "away" /\ x.w = w /\ x.to = [c EXCEPT !.wins = W, !.focus = n]
    BY <2>2, <2>8
  <2> QED
    BY <2>2, <2>3, <2>5, <2>6, <2>7 DEF Changing, Compositors
<1> QED
  BY ONLY ChangesAre, x \in Changes(c), <1>1, <1>2, <1>9, <1>10, <1>11, <1>12, <1>13, <1>14, <1>15, <1>16, <1>17, Zenon

\* A line of the compositor.
LEMMA LineIs ==
    ASSUME NEW k, NEW name \in Names(k), NEW w \in Win \union {None}, NEW c \in Compositors,
           name \in OfWindow => w \in DOMAIN c.wins,
           name = "activewindow" => w \in DOMAIN c.wins \union {None}
    PROVE  Line(name, w, c) \in Said(k)
BY DEF Said, Line

\* The lines about a change are lines of that compositor.
LEMMA LinesSaid ==
    ASSUME NEW k \in Kinds, NEW c \in Compositors, NEW what \in Changing \union {"close", "switch", "plug", "blur"},
           NEW w \in Win \union {None}, what \in Changing => w \in DOMAIN c.wins
    PROVE  Lines(k, what, w, c) \in Seq(Said(k))
<1> USE CompositorIs
<1>1. CASE k = "hyprland"
  <2> DEFINE F == <<Line("activewindow", c.focus, c), Line("activewindowv2", c.focus, c)>>
  <2>1. \A name \in Names(k) : name # "activewindow" /\ (name \in OfWindow => w \in DOMAIN c.wins) =>
          \A x \in {w, None} : (name \in OfWindow => x = w) => Line(name, x, c) \in Said(k)
    BY LineIs
  <2>2. F \in Seq(Said(k))
    <3>1. "activewindow" \in Names(k) \ OfWindow /\ "activewindowv2" \in Names(k) \ OfWindow
      BY <1>1 DEF Names, OfWindow
    <3>2. Line("activewindow", c.focus, c) \in Said(k) /\ Line("activewindowv2", c.focus, c) \in Said(k)
      BY <3>1, LineIs
    <3> QED
      BY <3>2
  <2>3. /\ what = "open" => Line("openwindow", w, c) \in Said(k)
        /\ what = "close" => Line("closewindow", w, c) \in Said(k)
        /\ what = "title" => Line("windowtitle", w, c) \in Said(k)
        /\ what = "float" => Line("changefloatingmode", w, c) \in Said(k)
        /\ what = "full" => Line("fullscreen", w, c) \in Said(k)
        /\ what \in {"move", "away"} => Line("movewindow", w, c) \in Said(k)
        /\ Line("workspace", None, c) \in Said(k) /\ Line("monitoradded", None, c) \in Said(k)
    BY <1>1, <2>1 DEF Names, OfWindow, Changing
  <2>4. HyprlandLines(what, w, c) \in Seq(Said(k))
    <3> HIDE DEF F
    <3>1. \A l \in Said(k) : <<l>> \o F \in Seq(Said(k)) /\ <<l>> \in Seq(Said(k))
      BY <2>2
    <3>2. HyprlandLines(what, w, c) =
            CASE what = "open"   -> <<Line("openwindow", w, c)>> \o F
              [] what = "close"  -> <<Line("closewindow", w, c)>> \o F
              [] what \in {"focus", "blur"} -> F
              [] what = "title"  -> <<Line("windowtitle", w, c)>>
              [] what = "float"  -> <<Line("changefloatingmode", w, c)>>
              [] what = "full"   -> <<Line("fullscreen", w, c)>>
              [] what = "move"   -> <<Line("movewindow", w, c)>>
              [] what = "away"   -> <<Line("movewindow", w, c)>> \o F
              [] what = "switch" -> <<Line("workspace", None, c)>> \o F
              [] what = "plug"   -> <<Line("monitoradded", None, c)>>
      BY DEF HyprlandLines, F
    <3> QED
      BY <2>2, <2>3, <3>1, <3>2 DEF Changing
  <2> QED
    BY <1>1, <2>4 DEF Lines
<1>2. CASE k = "niri"
  <2>1. /\ Line("WindowFocusChanged", c.focus, c) \in Said(k) /\ Line("WorkspaceActivated", None, c) \in Said(k)
        /\ Line("WorkspacesChanged", None, c) \in Said(k) /\ Line("WindowClosed", w, c) \in Said(k)
        /\ Line("WindowFocusChanged", w, c) \in Said(k)
    <3>1. {"WindowFocusChanged", "WorkspaceActivated", "WorkspacesChanged", "WindowClosed"}
            \subseteq Names(k) \ (OfWindow \union {"activewindow"})
      BY <1>2 DEF Names, OfWindow
    <3> QED
      BY <3>1, LineIs
  <2>2. what \in Changing => /\ Line("WindowOpenedOrChanged", w, c) \in Said(k)
                            /\ Line("WindowLayoutsChanged", w, c) \in Said(k)
    <3>1. {"WindowOpenedOrChanged", "WindowLayoutsChanged"} \subseteq Names(k) \ {"activewindow"}
      BY <1>2 DEF Names
    <3> QED
      BY <3>1, LineIs
  <2>3. \A l, m \in Said(k) : <<l>> \in Seq(Said(k)) /\ <<l, m>> \in Seq(Said(k))
    OBVIOUS
  <2> QED
    BY <1>2, <2>1, <2>2, <2>3 DEF Lines, NiriLines, Changing
<1>3. CASE k = "mango"
  <2> DEFINE F == IF c.focus = None THEN << >> ELSE <<Line("focusing-client", c.focus, c)>>
  <2>1. F \in Seq(Said(k))
    <3>1. "focusing-client" \in Names(k) \ {"activewindow"}
      BY <1>3 DEF Names
    <3>2. c.focus # None => Line("focusing-client", c.focus, c) \in Said(k)
      BY <3>1, LineIs
    <3> QED
      BY <3>2
  <2>2. /\ Line("all-clients", w, c) \in Said(k) /\ Line("all-tags", None, c) \in Said(k)
        /\ Line("all-monitors", None, c) \in Said(k)
    <3>1. {"all-clients", "all-tags", "all-monitors"} \subseteq Names(k) \ (OfWindow \union {"activewindow"})
      BY <1>3 DEF Names, OfWindow
    <3> QED
      BY <3>1, LineIs
  <2>3. MangoLines(what, w, c) \in Seq(Said(k))
    <3> HIDE DEF F
    <3>1. \A l \in Said(k) : <<l>> \o F \in Seq(Said(k)) /\ F \o <<l>> \in Seq(Said(k)) /\ <<l>> \in Seq(Said(k))
      BY <2>1
    <3>2. MangoLines(what, w, c) =
            CASE what = "open"   -> F \o <<Line("all-clients", w, c)>>
              [] what \in {"close", "away"} -> <<Line("all-clients", w, c)>> \o F
              [] what \in {"focus", "blur"} -> F
              [] what \in {"title", "float", "full", "move"} -> <<Line("all-clients", w, c)>>
              [] what = "switch" -> <<Line("all-tags", None, c)>> \o F
              [] what = "plug"   -> <<Line("all-monitors", None, c)>>
      BY DEF MangoLines, F
    <3> QED
      BY <2>1, <2>2, <3>1, <3>2 DEF Changing
  <2> QED
    BY <1>3, <2>3 DEF Lines
<1> QED
  BY <1>1, <1>2, <1>3 DEF Kinds

\* So are those that greet a new subscriber.
LEMMA GreetingSaid ==
    ASSUME NEW k \in Kinds, NEW c \in Compositors PROVE Greeting(k, c) \in Seq(Said(k))
<1>1. CASE k = "niri"
  <2>1. {"WorkspacesChanged", "WindowsChanged"} \subseteq Names(k) \ (OfWindow \union {"activewindow"})
    BY <1>1 DEF Names, OfWindow
  <2>2. Line("WorkspacesChanged", None, c) \in Said(k) /\ Line("WindowsChanged", None, c) \in Said(k)
    BY <2>1, LineIs
  <2> QED
    BY <1>1, <2>2 DEF Greeting
<1>2. CASE k = "mango"
  <2>1. "all-clients" \in Names(k) \ (OfWindow \union {"activewindow"})
    BY <1>2 DEF Names, OfWindow
  <2>2. Line("all-clients", None, c) \in Said(k)
    BY <2>1, LineIs
  <2> QED
    BY <1>2, <2>2 DEF Greeting
<1> QED
  BY <1>1, <1>2 DEF Kinds, Greeting

----------------------------------------------------------------------------
(* What the clients make of it. *)

\* Events of the types clients use, with one or more fields set.
LEMMA EventIs ==
    ASSUME NEW type \in Told,
           NEW address \in Win \union {None}, NEW id \in Win \union {None},
           NEW title \in (0..1) \union {None}, NEW win \in Window \union {None}
    PROVE  /\ Event(type) \in Decoded
           /\ [Event(type) EXCEPT !.address = address] \in Decoded
           /\ [Event(type) EXCEPT !.id = id] \in Decoded
           /\ [Event(type) EXCEPT !.title = title] \in Decoded
           /\ [Event(type) EXCEPT !.address = address, !.id = id] \in Decoded
           /\ \A f \in BOOLEAN : [Event(type) EXCEPT !.address = address, !.floating = f] \in Decoded
           /\ [Event(type) EXCEPT !.id = id, !.title = title, !.win = win] \in Decoded
BY DEF Event, Decoded, Values, Told

\* A window as the clients describe it.
LEMMA WindowIs ==
    ASSUME NEW c \in Compositors, NEW w \in DOMAIN c.wins, NEW f \in BOOLEAN
    PROVE  /\ WindowOf(c, w, f) \in Window /\ WindowOf(c, w, f).id = w
           /\ [WindowOf(c, w, f) EXCEPT !.ws = None] \in Window
           /\ \A b \in BOOLEAN : [WindowOf(c, w, f) EXCEPT !.full = @ /\ b] \in Window
           /\ c.wins[w].title \in 0..1
<1>1. c.wins[w] \in Attrs /\ w \in Win
  BY CompositorIs
<1>2. /\ c.wins[w].title \in 0..1 /\ c.wins[w].ws \in Workspaces
      /\ c.wins[w].floating \in BOOLEAN /\ c.wins[w].full \in BOOLEAN
  BY <1>1 DEF Attrs
<1>3. WindowOf(c, w, f) \in Window
  BY <1>1, <1>2 DEF WindowOf, Window
<1>4. [WindowOf(c, w, f) EXCEPT !.ws = None] \in Window
  BY <1>3 DEF Window
<1>5. \A b \in BOOLEAN : [WindowOf(c, w, f) EXCEPT !.full = @ /\ b] \in Window
  BY <1>3 DEF Window
<1> QED
  BY <1>2, <1>3, <1>4, <1>5 DEF WindowOf

\* The Hyprland client decodes every line to an event.
LEMMA HyprlandDecoded ==
    ASSUME NEW l \in Said("hyprland") PROVE HyprlandEvent(l) \in Decoded
<1>1. l.w \in Win \union {None} /\ l.comp \in Compositors /\ l.ev \in Names("hyprland")
  BY DEF Said
<1>2. {"", "WindowCreated", "WindowClosed", "WindowFocused", "WindowTitleChanged", "FullscreenChanged", "WindowMoved",
       "WorkspaceChanged", "MonitorChanged"} \subseteq Told
  BY DEF Told, Refreshing
<1>3. None \in (0..1) \union {None}
  OBVIOUS
<1>4. CASE l.ev = "activewindow"
  <2>1. l.w # None => l.comp.wins[l.w].title \in 0..1
    <3>1. l.w # None => l.w \in DOMAIN l.comp.wins
      BY <1>4 DEF Said
    <3> QED
      BY <1>1, <3>1, WindowIs
  <2>2. \A t \in (0..1) \union {None} : [Event("WindowFocused") EXCEPT !.title = t] \in Decoded
    BY <1>1, <1>2, EventIs
  <2> QED
    BY <1>4, <2>1, <2>2 DEF HyprlandEvent
<1>5. CASE l.ev = "changefloatingmode"
  <2>1. l.comp.wins[l.w].floating \in BOOLEAN
    <3>1. l.w \in DOMAIN l.comp.wins
      BY <1>5 DEF Said, OfWindow
    <3>2. l.comp.wins[l.w] \in Attrs
      BY <1>1, <3>1, CompositorIs
    <3> QED
      BY <3>2 DEF Attrs
  <2>2. \A f \in BOOLEAN : [Event("") EXCEPT !.address = l.w, !.floating = f] \in Decoded
    BY <1>1, <1>2, EventIs
  <2> QED
    BY <1>5, <2>1, <2>2 DEF HyprlandEvent
<1>6. CASE l.ev \in Names("hyprland") \ {"activewindow", "changefloatingmode"}
  <2>1. \A type \in Told : Event(type) \in Decoded /\ [Event(type) EXCEPT !.address = l.w] \in Decoded
    BY <1>1, EventIs
  <2> QED
    BY <1>2, <1>6, <2>1 DEF HyprlandEvent, Names
<1> QED
  BY <1>1, <1>4, <1>5, <1>6

\* So does the niri client, which also notes the window's size.
LEMMA NiriDecoded ==
    ASSUME NEW l \in Said("niri"), NEW s \in [Win -> BOOLEAN \union {None}], NEW k \in BOOLEAN
    PROVE  /\ NiriEvent(l, s, k) \in Decoded
           /\ NiriSizes(l, s) \in [Win -> BOOLEAN \union {None}]
<1>1. l.w \in Win \union {None} /\ l.comp \in Compositors /\ l.ev \in Names("niri")
  BY DEF Said
<1>2. {"", "WindowClosed", "WindowFocused", "WindowTitleChanged", "FullscreenChanged", "WorkspaceChanged"}
        \subseteq Told
  BY DEF Told, Refreshing
<1>3. l.ev \in {"WindowOpenedOrChanged", "WindowLayoutsChanged"} =>
        l.w \in DOMAIN l.comp.wins /\ l.w \in Win /\ l.comp.wins[l.w].full \in BOOLEAN
  <2>1. l.ev \in {"WindowOpenedOrChanged", "WindowLayoutsChanged"} => l.w \in DOMAIN l.comp.wins
    BY DEF Said, OfWindow
  <2>2. l.w \in DOMAIN l.comp.wins => l.comp.wins[l.w] \in Attrs /\ l.w \in Win
    BY <1>1, CompositorIs
  <2> QED
    BY <2>1, <2>2 DEF Attrs
<1>4. NiriEvent(l, s, k) \in Decoded
  <2>1. CASE l.ev = "WindowOpenedOrChanged"
    <3> DEFINE focused == l.comp.focus = l.w
               win == [WindowOf(l.comp, l.w, focused) EXCEPT !.full = @ /\ k]
               e == [Event(IF focused THEN "WindowFocused" ELSE "WindowTitleChanged")
                         EXCEPT !.id = l.w, !.title = win.title, !.win = win]
    <3>1. win \in Window
      BY <1>1, <1>3, <2>1, WindowIs
    <3>2. win.title \in 0..1
      BY <3>1 DEF Window
    <3>3. e \in Decoded
      <4> HIDE DEF win, focused
      <4>1. (IF focused THEN "WindowFocused" ELSE "WindowTitleChanged") \in Told
        BY <1>2
      <4> QED
        BY <1>1, <3>1, <3>2, <4>1, EventIs
    <3>4. [e EXCEPT !.address = l.w] \in Decoded
      <4> HIDE DEF e
      <4> QED BY <1>1, <3>3 DEF Decoded, Values
    <3>5. NiriEvent(l, s, k) = IF focused THEN [e EXCEPT !.address = l.w] ELSE e
      BY <2>1 DEF NiriEvent
    <3> HIDE DEF e, focused
    <3> QED
      BY <3>3, <3>4, <3>5
  <2>2. CASE l.ev \in Names("niri") \ {"WindowOpenedOrChanged"}
    <3>1. \A type \in Told : /\ Event(type) \in Decoded /\ [Event(type) EXCEPT !.id = l.w] \in Decoded
                            /\ [Event(type) EXCEPT !.address = l.w, !.id = l.w] \in Decoded
      BY <1>1, EventIs
    <3> QED
      BY <1>2, <2>2, <3>1 DEF NiriEvent, Names
  <2> QED
    BY <1>1, <2>1, <2>2
<1>5. NiriSizes(l, s) \in [Win -> BOOLEAN \union {None}]
  <2>1. CASE l.ev \in {"WindowOpenedOrChanged", "WindowLayoutsChanged"}
    BY <1>3, <2>1 DEF NiriSizes
  <2>2. CASE l.ev = "WindowClosed"
    BY <2>2 DEF NiriSizes
  <2>3. CASE l.ev = "WindowsChanged"
    <3>1. \A w \in DOMAIN l.comp.wins : l.comp.wins[w].full \in BOOLEAN
      BY <1>1, CompositorIs DEF Attrs
    <3> QED
      BY <2>3, <3>1 DEF NiriSizes
  <2>4. CASE l.ev \notin {"WindowOpenedOrChanged", "WindowLayoutsChanged", "WindowClosed", "WindowsChanged"}
    BY <2>4 DEF NiriSizes
  <2> QED
    BY <2>1, <2>2, <2>3, <2>4
<1> QED
  BY <1>4, <1>5

\* So does the MangoWC client.
LEMMA MangoDecoded ==
    ASSUME NEW l \in Said("mango") PROVE MangoEvent(l) \in Decoded
<1>1. l.w \in Win \union {None} /\ l.comp \in Compositors /\ l.ev \in Names("mango")
  BY DEF Said
<1>2. {"WindowCreated", "WindowFocused", "ConfigReloaded", "WorkspaceChanged", "MonitorChanged"} \subseteq Told
  BY DEF Told, Refreshing
<1>3. CASE l.ev = "focusing-client"
  <2> DEFINE win == [WindowOf(l.comp, l.w, TRUE) EXCEPT !.ws = None]
             title == l.comp.wins[l.w].title
  <2>1. win \in Window /\ title \in 0..1
    <3>1. l.w \in DOMAIN l.comp.wins
      BY <1>3 DEF Said, OfWindow
    <3> QED
      BY <1>1, <3>1, WindowIs
  <2>2. MangoEvent(l) = [Event("WindowFocused") EXCEPT !.id = l.w, !.title = title, !.win = win]
    BY <1>3 DEF MangoEvent
  <2>3. "WindowFocused" \in Told /\ title \in (0..1) \union {None} /\ win \in Window \union {None}
    BY <1>2, <2>1
  <2> HIDE DEF win, title
  <2>4. [Event("WindowFocused") EXCEPT !.id = l.w, !.title = title, !.win = win] \in Decoded
    BY <1>1, <2>3, EventIs
  <2> QED
    BY <2>2, <2>4
<1>4. CASE l.ev \in Names("mango") \ {"focusing-client"}
  <2>1. \A type \in Told : Event(type) \in Decoded
    BY <1>1, EventIs
  <2> QED
    BY <1>2, <1>4, <2>1 DEF MangoEvent, Names
<1> QED
  BY <1>1, <1>3, <1>4
----------------------------------------------------------------------------
(* Lists of windows. *)

\* No window is in the list twice.
NoTwo(ws) == \A i, j \in 1..Len(ws) : ws[i].id = ws[j].id => i = j

\* A list of the same windows, in the same order.
SameWindows(ws, as) ==
    /\ ws \in Seq(Window) /\ Len(ws) = Len(as)
    /\ \A i \in 1..Len(as) : ws[i].id = as[i].id

\* NoTwo is what NoDuplicateWindows asks of the cache.
LEMMA NoTwoIs ==
    ASSUME NEW ws \in Seq(Window) PROVE NoTwo(ws) <=> IsInjective(Ids(ws))
<1>1. DOMAIN ws = 1..Len(ws) /\ DOMAIN Ids(ws) = 1..Len(ws)
  BY DEF Ids
<1>2. \A i \in 1..Len(ws) : Ids(ws)[i] = ws[i].id
  BY <1>1 DEF Ids
<1> QED
  BY <1>1, <1>2 DEF NoTwo, IsInjective

\* As many elements of a set as it has, all different, are all it has.
LEMMA Covers ==
    ASSUME NEW S, IsFiniteSet(S), NEW f \in [1..Cardinality(S) -> S],
           \A i, j \in 1..Cardinality(S) : f[i] = f[j] => i = j
    PROVE  \A s \in S : \E i \in 1..Cardinality(S) : f[i] = s
<1> DEFINE n == Cardinality(S)
<1>1. n \in Nat
  BY FS_CardinalityType
<1>2. IsFiniteSet(1..n) /\ Cardinality(1..n) = n
  BY <1>1, FS_Interval
<1>3. f \in Injection(1..n, S)
  BY DEF Injection, IsInjective
<1>4. f \in Surjection(1..n, S)
  BY <1>2, <1>3, FS_Injection
<1> QED
  BY <1>4 DEF Surjection

\* What a client lists is a sequence of the windows, each once.
LEMMA ListedIs ==
    ASSUME IsFiniteSet(Win), comp \in Compositors
    PROVE  /\ Listed \in Seq(Window) /\ NoTwo(Listed)
           /\ \A i \in 1..Len(Listed) : \E w \in DOMAIN comp.wins :
                Listed[i] = WindowOf(comp, w, ListedFocus(kind, comp, w))
           /\ \A w \in DOMAIN comp.wins : \E i \in 1..Len(Listed) :
                Listed[i] = WindowOf(comp, w, ListedFocus(kind, comp, w))
<1> DEFINE D == DOMAIN comp.wins
           W(w) == WindowOf(comp, w, ListedFocus(kind, comp, w))
           S == {W(w) : w \in D}
           n == Cardinality(S)
<1>1. \A w \in D : W(w) \in Window /\ W(w).id = w
  BY WindowIs DEF ListedFocus
<1>2. IsFiniteSet(S)
  <2>1. IsFiniteSet(D)
    BY CompositorIs, FS_Subset
  <2>2. [w \in D |-> W(w)] \in Surjection(D, S)
    <3> DEFINE g == [w \in D |-> W(w)]
    <3>1. g \in [D -> S]
      OBVIOUS
    <3>2. \A t \in S : \E s \in D : g[s] = t
      OBVIOUS
    <3> QED
      BY <3>1, <3>2 DEF Surjection
  <2> QED
    BY <2>1, <2>2, FS_Surjection
<1>3. n \in Nat /\ \E f \in [1..n -> S] : IsInjective(f)
  BY <1>2, FS_CardinalityType DEF ExistsBijection, Bijection, Injection
<1>4. Listed \in [1..n -> S] /\ IsInjective(Listed)
  <2>1. Listed = CHOOSE f \in [1..n -> S] : IsInjective(f)
    BY DEF Listed, SetToSeq
  <2> QED
    BY <1>3, <2>1
<1>5. S \subseteq Window /\ \A x, y \in S : x.id = y.id => x = y
  BY <1>1
<1>6. \A f \in [1..n -> S] : f \in Seq(Window) /\ Len(f) = n
  <2> HIDE DEF S, n
  <2> TAKE f \in [1..n -> S]
  <2>1. f \in [1..n -> Window]
    BY <1>5
  <2> QED
    BY <1>3, <2>1
<1> HIDE DEF S
<1>7. \A s \in S : \E i \in 1..n : Listed[i] = s
  <2>1. \A i, j \in 1..n : Listed[i] = Listed[j] => i = j
    <3> HIDE DEF n
    <3> QED BY <1>4 DEF IsInjective
  <2> QED
    BY <1>2, <1>4, <2>1, Covers
<1> HIDE DEF n
<1>8. DOMAIN Listed = 1..n /\ \A i \in 1..n : Listed[i] \in S
  BY <1>4
<1>9. Listed \in Seq(Window) /\ NoTwo(Listed) /\ Len(Listed) = n
  BY <1>4, <1>5, <1>6, <1>8 DEF NoTwo, IsInjective
<1>10. \A i \in 1..n : \E w \in D : Listed[i] = W(w)
  BY <1>8 DEF S
<1>11. \A w \in D : \E i \in 1..n : Listed[i] = W(w)
  BY <1>7 DEF S
<1> QED
  BY <1>9, <1>10, <1>11

\* Taking a window out leaves the others, each once.
LEMMA WithoutIs ==
    ASSUME windows \in Seq(Window), NoTwo(windows), NEW w
    PROVE  /\ Without(w) \in Seq(Window) /\ NoTwo(Without(w))
           /\ \A i \in 1..Len(Without(w)) : \E j \in 1..Len(windows) :
                windows[j].id # w /\ Without(w)[i] = windows[j]
           /\ \A j \in 1..Len(windows) : windows[j].id # w => \E i \in 1..Len(Without(w)) : Without(w)[i] = windows[j]
<1> DEFINE n == Len(windows)
           others == {i \in DOMAIN windows : windows[i].id # w}
           m == Cardinality(others)
           Rising(f) == \A i, j \in DOMAIN f : i < j => f[i] < f[j]
           at == CHOOSE f \in [1..m -> others] : Rising(f)
<1>1. n \in Nat /\ DOMAIN windows = 1..n /\ others \subseteq 1..n
  OBVIOUS
<1>2. IsFiniteSet(1..n) /\ Cardinality(1..n) = n
  BY <1>1, FS_Interval
<1>3. \E f \in [1..m -> others] : Rising(f)
  <2>1. CASE others = 1..n
    <3> DEFINE f == [i \in 1..n |-> i]
    <3>1. f \in [1..m -> others] /\ Rising(f)
      BY <1>1, <1>2, <2>1
    <3> QED
      BY <3>1
  <2>2. CASE others # 1..n
    <3>1. PICK k \in 1..n : windows[k].id = w
      BY <1>1, <2>2
    <3>2. others = (1..n) \ {k}
      BY <1>1, <3>1 DEF NoTwo
    <3>3. m = n - 1
      BY <1>2, <3>1, <3>2, FS_RemoveElement
    <3> DEFINE f == [i \in 1..n - 1 |-> IF i < k THEN i ELSE i + 1]
    <3> HIDE DEF others, m
    <3>4. \A i \in 1..n - 1 : (IF i < k THEN i ELSE i + 1) \in (1..n) \ {k}
      BY <1>1, <3>1
    <3>5. f \in [1..n - 1 -> (1..n) \ {k}]
      BY <3>4
    <3>6. \A i, j \in 1..n - 1 : i < j => f[i] < f[j]
      BY <1>1, <3>1
    <3>7. f \in [1..m -> others] /\ Rising(f)
      BY <3>2, <3>3, <3>5, <3>6
    <3> QED
      BY <3>7
  <2> QED
    BY <2>1, <2>2
<1>4. at \in [1..m -> others] /\ Rising(at)
  <2> HIDE DEF Rising, m, others
  <2> QED BY <1>3
<1>5. m \in Nat
  BY <1>1, <1>2, FS_Subset, FS_CardinalityType
<1>6. Without(w) = [i \in 1..m |-> windows[at[i]]]
  <2>1. Without(w) = [i \in DOMAIN at |-> windows[at[i]]]
    BY DEF Without
  <2> HIDE DEF at
  <2> QED
    BY <1>4, <2>1
<1> HIDE DEF at
<1>7. \A i \in 1..m : at[i] \in 1..n /\ windows[at[i]].id # w
  BY <1>1, <1>4
<1>13. IsFiniteSet(others) /\ \A j \in 1..n : windows[j].id # w => j \in others
  BY <1>1, <1>2, FS_Subset
<1> HIDE DEF others
<1>8. \A i, j \in 1..m : at[i] = at[j] => i = j
  <2> HIDE DEF m
  <2> QED BY <1>4, <1>5, <1>7
<1>14. \A j \in others : \E i \in 1..m : at[i] = j
  BY <1>4, <1>8, <1>13, Covers
<1> HIDE DEF m
<1>9. \A i \in 1..m : windows[at[i]] \in Window
  BY <1>1, <1>7
<1>10. Without(w) \in Seq(Window) /\ Len(Without(w)) = m
  BY <1>5, <1>6, <1>9
<1>11. \A i \in 1..m : Without(w)[i].id = windows[at[i]].id
  BY <1>6
<1>12. \A i, j \in 1..m : windows[at[i]].id = windows[at[j]].id => at[i] = at[j]
  BY <1>7 DEF NoTwo
<1>15. NoTwo(Without(w))
  BY <1>8, <1>10, <1>11, <1>12 DEF NoTwo
<1>16. \A i \in 1..m : \E j \in 1..n : windows[j].id # w /\ Without(w)[i] = windows[j]
  BY <1>6, <1>7
<1>17. \A j \in 1..n : windows[j].id # w => \E i \in 1..m : Without(w)[i] = windows[j]
  BY <1>6, <1>13, <1>14
<1> QED
  BY <1>10, <1>15, <1>16, <1>17

\* Changing elements keeps the windows.
LEMMA ChangedIs ==
    ASSUME windows \in Seq(Window), NEW w
    PROVE  /\ SameWindows(windows, windows)
           /\ SameWindows(Marked(w), windows)
           /\ \A t \in 0..1 : SameWindows(Titled(w, t), windows)
           /\ \A f \in BOOLEAN :
                SameWindows([i \in DOMAIN windows |->
                    IF i \in First(w) THEN [windows[i] EXCEPT !.floating = f] ELSE windows[i]], windows)
<1> DEFINE n == Len(windows)
<1>1. n \in Nat /\ DOMAIN windows = 1..n /\ \A i \in 1..n : windows[i] \in Window
  OBVIOUS
<1>2. \A x \in Window :
        /\ \A b \in BOOLEAN : /\ [x EXCEPT !.focused = b] \in Window /\ [x EXCEPT !.focused = b].id = x.id
                              /\ [x EXCEPT !.floating = b] \in Window /\ [x EXCEPT !.floating = b].id = x.id
        /\ \A t \in 0..1 : [x EXCEPT !.title = t] \in Window /\ [x EXCEPT !.title = t].id = x.id
  BY DEF Window
<1>3. ASSUME NEW f, DOMAIN f = 1..n, f = [i \in 1..n |-> f[i]],
             \A i \in 1..n : f[i] \in Window /\ f[i].id = windows[i].id
      PROVE  SameWindows(f, windows)
  <2>1. f \in [1..n -> Window]
    BY <1>3
  <2>2. f \in Seq(Window) /\ Len(f) = n
    BY <1>1, <2>1
  <2> QED
    BY <1>3, <2>2 DEF SameWindows
<1>4. SameWindows(windows, windows)
  BY DEF SameWindows
<1>5. SameWindows(Marked(w), windows)
  <2>1. Marked(w) = [i \in 1..n |-> [windows[i] EXCEPT !.focused = windows[i].id = w]]
    BY <1>1 DEF Marked
  <2>2. \A i \in 1..n : Marked(w)[i] \in Window /\ Marked(w)[i].id = windows[i].id
    BY <1>1, <1>2, <2>1
  <2> QED
    BY <1>3, <2>1, <2>2
<1>6. \A t \in 0..1 : SameWindows(Titled(w, t), windows)
  <2> TAKE t \in 0..1
  <2>1. Titled(w, t) = [i \in 1..n |-> IF i \in First(w) THEN [windows[i] EXCEPT !.title = t] ELSE windows[i]]
    BY <1>1 DEF Titled
  <2>2. ASSUME NEW i \in 1..n
        PROVE  Titled(w, t)[i] \in Window /\ Titled(w, t)[i].id = windows[i].id
    <3>1. Titled(w, t)[i] = IF i \in First(w) THEN [windows[i] EXCEPT !.title = t] ELSE windows[i]
      BY <2>1
    <3>2. [windows[i] EXCEPT !.title = t] \in Window /\ [windows[i] EXCEPT !.title = t].id = windows[i].id
      BY <1>1, <1>2
    <3> QED
      BY <1>1, <3>1, <3>2
  <2> QED
    BY <1>3, <2>1, <2>2
<1>7. \A f \in BOOLEAN :
        SameWindows([i \in DOMAIN windows |->
            IF i \in First(w) THEN [windows[i] EXCEPT !.floating = f] ELSE windows[i]], windows)
  <2> TAKE f \in BOOLEAN
  <2> DEFINE new == [i \in 1..n |-> IF i \in First(w) THEN [windows[i] EXCEPT !.floating = f] ELSE windows[i]]
  <2>1. \A i \in 1..n : new[i] \in Window /\ new[i].id = windows[i].id
    BY <1>1, <1>2
  <2>2. SameWindows(new, windows)
    BY <1>3, <2>1
  <2> QED
    BY <1>1, <2>2
<1> QED
  BY <1>4, <1>5, <1>6, <1>7

----------------------------------------------------------------------------
(* The cache and the handler that encodes a slice of it. *)

Handed == [slice : Seq(Window), shared : BOOLEAN, out : Seq(Window), ids : Seq(Win)]

\* A handler has encoded windows of the list it was given, in that list's
\* order; while the cache still uses its array, the array begins with it.
HandedOut ==
    /\ windows \in Seq(Window) /\ NoTwo(windows)
    /\ reply \in Handed
    /\ Len(reply.ids) = Len(reply.slice) /\ Len(reply.out) <= Len(reply.slice)
    /\ \A i \in 1..Len(reply.slice) : reply.slice[i].id = reply.ids[i]
    /\ \A i \in 1..Len(reply.out) : reply.out[i].id = reply.ids[i]
    /\ reply.shared => /\ Len(reply.slice) <= Len(windows)
                       /\ \A i \in 1..Len(reply.slice) : windows[i].id = reply.ids[i]

\* A new array leaves the handler the one it holds.
LEMMA ReplaceKeeps ==
    ASSUME HandedOut, NEW new \in Seq(Window), NoTwo(new), Replace(new) PROVE HandedOut'
<1>1. reply' = [reply EXCEPT !.shared = FALSE] /\ windows' = new /\ reply \in Handed
  BY DEF Replace, HandedOut
<1>2. reply' \in Handed /\ ~reply'.shared
  BY <1>1 DEF Handed
<1>3. reply'.slice = reply.slice /\ reply'.out = reply.out /\ reply'.ids = reply.ids
  BY <1>1 DEF Handed
<1> QED
  BY <1>1, <1>2, <1>3 DEF HandedOut, NoTwo

\* What a handler holds after the elements of the cache's array changed.
Reread(ws, b) == [reply EXCEPT !.slice = [i \in DOMAIN @ |-> ws[i]], !.shared = b]

\* It shows the same windows in the same order.
LEMMA SliceIs ==
    ASSUME HandedOut, reply.shared, NEW ws, SameWindows(ws, windows), NEW b \in BOOLEAN
    PROVE  LET r == Reread(ws, b)
           IN  /\ r \in Handed /\ r.out = reply.out /\ r.ids = reply.ids /\ r.shared = b
               /\ Len(r.slice) = Len(reply.slice)
               /\ \A i \in 1..Len(r.slice) : r.slice[i].id = r.ids[i]
<1> DEFINE r == Reread(ws, b)
<1> DEFINE s == [i \in DOMAIN reply.slice |-> ws[i]]
<1>1. reply \in Handed /\ reply.slice \in Seq(Window) /\ DOMAIN reply.slice = 1..Len(reply.slice)
  BY DEF HandedOut, Handed
<1>2. Len(reply.slice) \in Nat /\ Len(reply.slice) <= Len(windows) /\ Len(windows) \in Nat
  BY <1>1 DEF HandedOut
<1>3. \A i \in 1..Len(reply.slice) : ws[i] \in Window /\ ws[i].id = reply.ids[i]
  BY <1>2 DEF HandedOut, SameWindows
<1>4. s \in Seq(Window) /\ Len(s) = Len(reply.slice)
  <2>1. s \in [1..Len(reply.slice) -> Window]
    BY <1>1, <1>3
  <2> QED
    BY <1>2, <2>1
<1>5. r = [reply EXCEPT !.slice = s, !.shared = b]
  BY DEF Reread
<1>6. \A i \in 1..Len(s) : s[i].id = reply.ids[i]
  BY <1>1, <1>3, <1>4
<1> HIDE DEF s, r
<1>7. r \in Handed /\ r.slice = s /\ r.shared = b /\ r.out = reply.out /\ r.ids = reply.ids
  BY <1>1, <1>4, <1>5 DEF Handed
<1> QED
  BY <1>4, <1>6, <1>7 DEF r

\* Changing elements in place keeps the handler's list.
LEMMA InPlaceKeeps ==
    ASSUME HandedOut, NEW new, SameWindows(new, windows), InPlace(new) PROVE HandedOut'
<1>1. windows' = new /\ new \in Seq(Window) /\ NoTwo(new)
  BY DEF InPlace, HandedOut, SameWindows, NoTwo
<1>2. CASE reply.shared
  <2>1. reply' = [reply EXCEPT !.slice = [i \in DOMAIN @ |-> new[i]]]
    BY <1>2 DEF InPlace
  <2>2. reply' = Reread(new, TRUE)
    <3>1. reply \in Handed
      BY DEF HandedOut
    <3> QED
      BY <1>2, <2>1, <3>1 DEF Handed, Reread
  <2>3. /\ reply' \in Handed /\ reply'.out = reply.out /\ reply'.ids = reply.ids
        /\ Len(reply'.slice) = Len(reply.slice)
        /\ \A i \in 1..Len(reply'.slice) : reply'.slice[i].id = reply'.ids[i]
    BY <1>2, <2>2, SliceIs
  <2> QED
    BY <1>1, <1>2, <2>3 DEF HandedOut, SameWindows, NoTwo
<1>3. CASE ~reply.shared
  <2>1. reply' = reply
    BY <1>3 DEF InPlace
  <2> QED
    BY <1>1, <1>3, <2>1 DEF HandedOut, NoTwo
<1> QED
  BY <1>2, <1>3

\* So does adding a window that is not tracked, whether the array grows or
\* moves; no window is then in the cache twice.
LEMMA AddKeeps ==
    ASSUME HandedOut, NEW win \in Window \union {None}, NEW ws, SameWindows(ws, windows),
           AddUnlessTracked(win, ws)
    PROVE  HandedOut'
<1>1. ws \in Seq(Window) /\ Len(ws) = Len(windows) /\ NoTwo(ws)
  BY DEF HandedOut, SameWindows, NoTwo
<1>2. /\ windows' \in Seq(Window) /\ NoTwo(windows)' /\ Len(ws) <= Len(windows')
      /\ \A i \in 1..Len(ws) : windows'[i] = ws[i]
  <2>1. CASE Tracked(win, ws)
    BY <1>1, <2>1 DEF AddUnlessTracked, NoTwo
  <2>2. CASE ~Tracked(win, ws)
    <3>1. win \in Window /\ \A i \in 1..Len(ws) : ws[i].id # win.id
      BY <1>1, <2>2 DEF Tracked
    <3>2. windows' = Append(ws, win)
      BY <2>2 DEF AddUnlessTracked
    <3>3. /\ windows' \in Seq(Window) /\ Len(windows') = Len(ws) + 1 /\ Len(ws) \in Nat
          /\ windows'[Len(ws) + 1] = win /\ \A i \in 1..Len(ws) : windows'[i] = ws[i]
      BY <1>1, <3>1, <3>2
    <3>4. NoTwo(windows)'
      <4> SUFFICES ASSUME NEW i \in 1..Len(ws) + 1, NEW j \in 1..Len(ws) + 1, windows'[i].id = windows'[j].id
                   PROVE  i = j
        BY <3>3 DEF NoTwo
      <4>1. CASE i \in 1..Len(ws) /\ j \in 1..Len(ws)
        BY <1>1, <3>3, <4>1 DEF NoTwo
      <4>2. CASE i = Len(ws) + 1 \/ j = Len(ws) + 1
        BY <3>1, <3>3, <4>2
      <4> QED
        BY <3>3, <4>1, <4>2
    <3> QED
      BY <3>3, <3>4
  <2> QED
    BY <2>1, <2>2
<1>3. CASE reply.shared
  <2>1. PICK b \in BOOLEAN : reply' = Reread(ws, b)
    BY <1>3 DEF AddUnlessTracked, Reread
  <2>2. /\ reply' \in Handed /\ reply'.out = reply.out /\ reply'.ids = reply.ids
        /\ Len(reply'.slice) = Len(reply.slice)
        /\ \A i \in 1..Len(reply'.slice) : reply'.slice[i].id = reply'.ids[i]
    BY <1>3, <2>1, SliceIs
  <2>3. /\ Len(reply'.slice) <= Len(windows')
        /\ \A i \in 1..Len(reply'.slice) : windows'[i].id = reply'.ids[i]
    <3>1. /\ Len(reply.slice) <= Len(windows) /\ Len(reply.slice) \in Nat /\ Len(windows) \in Nat
          /\ \A i \in 1..Len(reply.slice) : windows[i].id = reply.ids[i]
      BY <1>3 DEF HandedOut, Handed
    <3>2. \A i \in 1..Len(reply.slice) : i \in 1..Len(ws) /\ ws[i].id = windows[i].id
      BY <1>1, <3>1 DEF SameWindows
    <3>3. Len(windows') \in Nat
      BY <1>2
    <3> QED
      BY <1>1, <1>2, <2>2, <3>1, <3>2, <3>3
  <2> QED
    BY <1>2, <2>2, <2>3 DEF HandedOut
<1>4. CASE ~reply.shared
  <2>1. reply' = reply
    BY <1>4 DEF AddUnlessTracked
  <2> QED
    BY <1>2, <1>4, <2>1 DEF HandedOut
<1> QED
  BY <1>3, <1>4

----------------------------------------------------------------------------
(* The event stream. *)

\* Nothing follows the end of the stream, on the wire or in the channel; the
\* channel holds more than its capacity only to say that it is closed; and
\* nothing is read before the subscription.
StreamOK ==
    /\ wire \in Seq(Said(kind) \union Ends)
    /\ \A i \in 1..Len(wire) : wire[i].ev = "eof" => i = Len(wire)
    /\ channel \in Seq(Decoded \union Values({"closed"}))
    /\ \A i \in 1..Len(channel) : channel[i].type = "closed" => i = Len(channel) /\ wire = << >>
    /\ Len(channel) <= Cap + 1
    /\ Len(channel) = Cap + 1 => channel[Cap + 1].type = "closed"
    /\ event \in Values(Told \union {"start", "closed"})
    /\ pc \in {"start", "subscribe"} \/ event.type = "start" => wire = << >> /\ channel = << >>
    /\ pc = "closed" => wire = << >> /\ channel = << >>
    /\ pc \in {"subscribe", "receive", "handle"} => event.type \in Told

\* The rest of the state.
StateOK ==
    /\ kind \in Kinds /\ comp \in Compositors
    /\ spaces \in Workspaces \union {None} /\ monitors \subseteq Mons
    /\ pc \in {"start", "subscribe", "receive", "handle", "active", "workspaces", "monitors", "closed"}
    /\ sizes \in [Win -> BOOLEAN \union {None}]
    /\ known \in BOOLEAN /\ fetching \in BOOLEAN

CacheInv == StateOK /\ StreamOK /\ HandedOut

\* No line of a compositor is the end of its stream.
LEMMA NoEnd ==
    ASSUME NEW k \in Kinds
    PROVE  \A l \in Said(k) : l.ev # "eof"
BY DEF Kinds, Said, Names

\* What only the last element of a sequence is, is so of the rest.
LEMMA LastOfTail ==
    ASSUME NEW S, NEW E, NEW s \in Seq(S), s # << >>, \A i \in 1..Len(s) : s[i] \in E => i = Len(s)
    PROVE  /\ \A i \in 1..Len(Tail(s)) : Tail(s)[i] \in E => i = Len(Tail(s))
           /\ Head(s) \in E => Tail(s) = << >>
<1> DEFINE n == Len(s)
           t == Tail(s)
<1>1. n \in Nat \ {0} /\ t \in Seq(S) /\ Len(t) = n - 1 /\ Head(s) = s[1]
  BY EmptySeq, HeadTailProperties
<1>2. \A i \in 1..Len(t) : t[i] = s[i + 1]
  BY HeadTailProperties
<1>3. \A i \in 1..n : s[i] \in E => i = n
  OBVIOUS
<1>4. Len(t) = 0 => t = << >>
  BY <1>1, EmptySeq
<1> HIDE DEF n, t
<1>5. \A i \in 1..Len(t) : t[i] \in E => i = Len(t)
  <2> TAKE i \in 1..Len(t)
  <2>1. i + 1 \in 1..n
    BY <1>1
  <2>2. t[i] = s[i + 1]
    BY <1>2
  <2>3. s[i + 1] \in E => i + 1 = n
    BY <1>3, <2>1
  <2>4. i + 1 = n => i = Len(t)
    BY <1>1, <2>1
  <2> QED
    BY <2>2, <2>3, <2>4
<1>6. Head(s) \in E => t = << >>
  BY <1>1, <1>3, <1>4
<1> QED
  BY <1>5, <1>6 DEF t

\* What is left of the stream when its first line has been read.
LEMMA LineRead ==
    ASSUME StateOK, StreamOK, wire # << >>
    PROVE  /\ Tail(wire) \in Seq(Said(kind) \union Ends)
           /\ \A i \in 1..Len(Tail(wire)) : Tail(wire)[i].ev = "eof" => i = Len(Tail(wire))
           /\ Head(wire).ev = "eof" => Tail(wire) = << >>
           /\ Head(wire).ev # "eof" => Head(wire) \in Said(kind)
           /\ \A i \in 1..Len(channel) : channel[i].type # "closed"
           /\ pc \notin {"start", "subscribe", "closed"} /\ event.type # "start"
<1> DEFINE S == Said(kind) \union Ends
           E == {l \in S : l.ev = "eof"}
<1>1. wire \in Seq(S) /\ Len(wire) \in Nat \ {0}
  BY EmptySeq DEF StreamOK
<1>2. Head(wire) \in S /\ Tail(wire) \in Seq(S) /\ Len(Tail(wire)) = Len(wire) - 1
  BY <1>1
<1>3. wire \in Seq(S) /\ \A i \in 1..Len(wire) : wire[i] \in E => i = Len(wire)
  BY <1>1 DEF StreamOK
<1>4. \A i \in 1..Len(Tail(wire)) : Tail(wire)[i].ev = "eof" => i = Len(Tail(wire))
  <2>1. \A i \in 1..Len(Tail(wire)) : Tail(wire)[i] \in S
    BY <1>2
  <2>2. \A i \in 1..Len(Tail(wire)) : Tail(wire)[i] \in E => i = Len(Tail(wire))
    <3> HIDE DEF E, S
    <3> QED BY <1>3, LastOfTail
  <2> QED
    BY <2>1, <2>2
<1>5. Head(wire).ev = "eof" => Tail(wire) = << >>
  <2>1. Head(wire) \in E => Tail(wire) = << >>
    <3> HIDE DEF E, S
    <3> QED BY <1>3, LastOfTail
  <2> QED
    BY <1>2, <2>1
<1>6. Head(wire).ev # "eof" => Head(wire) \in Said(kind)
  BY <1>2 DEF Ends
<1> QED
  BY <1>2, <1>4, <1>5, <1>6 DEF StreamOK

\* An event of the decoder takes a place of the channel that is free.
LEMMA Offered ==
    ASSUME Cap \in Nat, StateOK, StreamOK, wire # << >>, wire' = Tail(wire), Head(wire).ev # "eof",
           NEW e \in Decoded, Offer(e), UNCHANGED kind
    PROVE  StreamOK'
<1> DEFINE C == Decoded \union Values({"closed"})
<1>1. /\ channel \in Seq(C) /\ Len(channel) \in Nat /\ Len(channel) <= Cap
      /\ \A i \in 1..Len(channel) : channel[i].type # "closed"
  <2>1. channel \in Seq(C) /\ Len(channel) \in Nat /\ \A i \in 1..Len(channel) : channel[i].type # "closed"
    BY LineRead DEF StreamOK
  <2> QED
    BY <2>1 DEF StreamOK
<1>2. e.type # "closed"
  BY DEF Decoded, Values, Told, Refreshing
<1>3. /\ channel' \in Seq(C) /\ Len(channel') <= Cap
      /\ \A i \in 1..Len(channel') : channel'[i].type # "closed"
  <2>1. CASE channel' = channel
    BY <1>1, <2>1
  <2>2. CASE channel' = Append(channel, e) /\ Len(channel) < Cap
    <3>1. /\ channel' \in Seq(C) /\ Len(channel') = Len(channel) + 1 /\ channel'[Len(channel) + 1] = e
          /\ \A i \in 1..Len(channel) : channel'[i] = channel[i]
      BY <1>1, <2>2
    <3> QED
      BY <1>1, <1>2, <2>2, <3>1
  <2> QED
    BY <2>1, <2>2 DEF Offer
<1>4. Len(channel') \in Nat /\ ~(Len(channel') = Cap + 1)
  BY <1>3
<1>5. UNCHANGED <<pc, event, kind>>
  BY DEF Offer
<1> QED
  BY <1>3, <1>4, <1>5, LineRead DEF StreamOK

----------------------------------------------------------------------------
(* The invariant. *)

\* The invariant holds at the start.
LEMMA CacheStart ==
    ASSUME CacheAssumption, Init PROVE CacheInv
<1> DEFINE S0 == {CHOOSE w \in Win : TRUE}
           C(S) == [wins |-> [w \in S |-> [title |-> 0, ws |-> 1, floating |-> FALSE, full |-> FALSE]],
                    focus |-> IF S = {} THEN None ELSE CHOOSE w \in S : TRUE, active |-> 1, mons |-> {1}]
<1>1. comp \in Compositors
  <2>1. S0 \subseteq Win
    BY DEF CacheAssumption
  <2>2. PICK S \in {{}, S0} : comp = C(S)
    BY DEF Init
  <2>3. S \subseteq Win /\ (S # {} => (CHOOSE w \in S : TRUE) \in S)
    BY <2>1
  <2>4. [title |-> 0, ws |-> 1, floating |-> FALSE, full |-> FALSE] \in Attrs
    BY DEF Attrs, CacheAssumption
  <2> DEFINE wins == [w \in S |-> [title |-> 0, ws |-> 1, floating |-> FALSE, full |-> FALSE]]
             focus == IF S = {} THEN None ELSE CHOOSE w \in S : TRUE
  <2>5. DOMAIN wins = S /\ wins \in [S -> Attrs] /\ focus \in S \union {None}
    BY <2>3, <2>4
  <2>6. 1 \in Workspaces /\ {1} \in SUBSET Mons
    BY DEF CacheAssumption
  <2>7. comp = [wins |-> wins, focus |-> focus, active |-> 1, mons |-> {1}]
    BY <2>2
  <2> HIDE DEF wins, focus
  <2> QED
    BY <2>3, <2>5, <2>6, <2>7, CompositorMade
<1>2. StateOK
  BY <1>1 DEF Init, StateOK
<1>3. StreamOK
  <2>1. Event("") \in Values(Told \union {"start", "closed"}) /\ Event("").type = ""
    BY DEF Event, Values, Told
  <2>2. wire = << >> /\ channel = << >> /\ Cap \in Nat /\ pc = "start"
    BY DEF Init, CacheAssumption
  <2>3. /\ wire \in Seq(Said(kind) \union Ends) /\ Len(wire) = 0
        /\ channel \in Seq(Decoded \union Values({"closed"})) /\ Len(channel) = 0
    BY <2>2
  <2>4. event \in Values(Told \union {"start", "closed"})
    BY <2>1 DEF Init
  <2> QED
    BY <2>2, <2>3, <2>4 DEF StreamOK
<1>4. HandedOut
  <2>1. NoReply \in Handed /\ NoReply.slice = << >> /\ NoReply.out = << >> /\ NoReply.ids = << >>
        /\ NoReply.shared = FALSE
    BY DEF NoReply, Handed
  <2>2. windows = << >> /\ reply = NoReply
    BY DEF Init
  <2> QED
    BY <2>1, <2>2 DEF HandedOut, NoTwo
<1> QED
  BY <1>2, <1>3, <1>4 DEF CacheInv

\* The windows' query gives the cache a list with each window once.
LEMMA QueriedWindows ==
    ASSUME CacheAssumption, StateOK, HandedOut, QueryWindows
    PROVE  HandedOut' /\ sizes' \in [Win -> BOOLEAN \union {None}]
<1>1. CASE SetWindows(Listed) /\ NiriListed
  <2>1. HandedOut'
    BY <1>1, ListedIs, ReplaceKeeps DEF SetWindows, CacheAssumption, StateOK
  <2>2. sizes' \in [Win -> BOOLEAN \union {None}]
    <3>1. \A w \in DOMAIN comp.wins : comp.wins[w].full \in BOOLEAN
      BY CompositorIs DEF StateOK, Attrs
    <3>2. \A w \in Win : (IF w \in DOMAIN comp.wins THEN comp.wins[w].full ELSE sizes[w]) \in BOOLEAN \union {None}
      BY <3>1 DEF StateOK
    <3> QED
      BY <1>1, <3>2 DEF NiriListed, StateOK
  <2> QED
    BY <2>1, <2>2
<1>2. CASE UNCHANGED <<windows, reply, sizes>>
  BY <1>2 DEF HandedOut, NoTwo, StateOK
<1> QED
  BY <1>1, <1>2 DEF QueryWindows

\* A decoded event neither starts nor ends the subscription.
LEMMA DecodedIs ==
    /\ Event("") \in Decoded
    /\ \A e \in Decoded : /\ e.type \in Told /\ e.type \notin {"start", "closed"}
                          /\ e \in Values(Told \union {"start", "closed"})
<1>1. Event("") \in Decoded
  BY DEF Event, Decoded, Values, Told
<1>2. \A t \in Told : t \notin {"start", "closed"}
  BY Zenon DEF Told, Refreshing
<1>3. \A e \in Decoded : e.type \in Told /\ e \in Values(Told \union {"start", "closed"})
  BY DEF Decoded, Values
<1> QED
  BY <1>1, <1>2, <1>3

\* What a step does to everything but the cache and the handler.
LEMMA StateStep ==
    ASSUME CacheAssumption, CacheInv, Next PROVE StateOK'
<1>1. StateOK /\ StreamOK /\ HandedOut
  BY DEF CacheInv
<1>2. CASE Start
  BY <1>1, <1>2, QueriedWindows DEF Start, StateOK
<1>3. CASE Subscribe
  BY <1>1, <1>3 DEF Subscribe, StateOK, cacheVars
<1>4. CASE Receive
  BY <1>1, <1>4 DEF Receive, StateOK, cacheVars
<1>5. CASE HandleRefresh
  BY <1>1, <1>5, QueriedWindows DEF HandleRefresh, StateOK
<1>6. CASE HandleUpdate
  <2>1. pc' = "receive" /\ UNCHANGED <<kind, comp, spaces, monitors, sizes, known, fetching>>
    BY <1>6, Zenon DEF HandleUpdate, streamVars
  <2> QED
    BY <1>1, <2>1 DEF StateOK
<1>7. CASE QueryActiveWindow
  BY <1>1, <1>7 DEF QueryActiveWindow, StateOK, streamVars
<1>8. CASE QueryWorkspaces
  <2>1. spaces' \in {spaces, comp.active} /\ comp.active \in Workspaces
    BY <1>1, <1>8, CompositorIs DEF QueryWorkspaces, StateOK
  <2> QED
    BY <1>1, <1>8, <2>1 DEF QueryWorkspaces, StateOK, streamVars
<1>9. CASE QueryMonitors
  <2>1. /\ pc' = (IF event.type = "start" THEN "subscribe" ELSE "receive")
        /\ monitors' = monitors \/ monitors' = comp.mons
        /\ UNCHANGED <<kind, comp, spaces, sizes, known, fetching>>
    BY <1>9, Zenon DEF QueryMonitors, streamVars
  <2>2. comp.mons \subseteq Mons
    BY <1>1, CompositorIs DEF StateOK
  <2> QED
    BY <1>1, <2>1, <2>2 DEF StateOK
<1>10. CASE Decode
  <2>1. wire # << >> /\ UNCHANGED <<kind, comp, spaces, monitors, known>>
    BY <1>10 DEF Decode, cacheVars
  <2>2. Head(wire).ev # "eof" => Head(wire) \in Said(kind)
    BY <1>1, <2>1, LineRead
  <2>3. CASE Head(wire).ev = "eof"
    <3>1. DecodeEnd
      BY <1>10, <2>3 DEF Decode
    <3> QED
      BY <1>1, <2>1, <3>1 DEF DecodeEnd, StateOK
  <2>4. CASE Head(wire).ev # "eof" /\ kind = "hyprland"
    <3>1. DecodeHyprland
      BY <1>10, <2>4 DEF Decode
    <3> QED
      BY <1>1, <2>1, <3>1 DEF DecodeHyprland, StateOK
  <2>5. CASE Head(wire).ev # "eof" /\ kind = "niri"
    <3>1. DecodeNiri
      BY <1>10, <2>5 DEF Decode
    <3>2. sizes' \in [Win -> BOOLEAN \union {None}]
      BY <1>1, <2>2, <2>5, <3>1, NiriDecoded DEF DecodeNiri, StateOK
    <3>3. fetching' \in BOOLEAN
      <4>1. fetching' = (fetching \/ (~known /\ Head(wire).ev \in {"WindowOpenedOrChanged", "WindowLayoutsChanged"}))
        BY <3>1, Zenon DEF DecodeNiri
      <4> QED
        BY <4>1
    <3>4. pc' = pc
      BY <3>1 DEF DecodeNiri, Offer
    <3> QED
      BY <1>1, <2>1, <3>2, <3>3, <3>4 DEF StateOK
  <2>6. CASE Head(wire).ev # "eof" /\ kind = "mango"
    <3>1. Offer(MangoEvent(Head(wire))) /\ UNCHANGED <<sizes, fetching>>
      BY <1>10, <2>6 DEF Decode
    <3>2. pc' = pc
      BY <3>1 DEF Offer
    <3> QED
      BY <1>1, <2>1, <3>1, <3>2 DEF StateOK
  <2> QED
    BY <1>1, <2>3, <2>4, <2>5, <2>6 DEF StateOK, Kinds
<1>11. CASE FetchOutputs
  <2>1. known' \in BOOLEAN /\ fetching' \in BOOLEAN
    BY <1>1, <1>11 DEF FetchOutputs, StateOK
  <2> QED
    BY <1>1, <1>11, <2>1 DEF FetchOutputs, StateOK, cacheVars
<1>12. CASE Change
  <2>1. \E c \in Changes(comp) : comp' = c.to
    BY <1>12 DEF Change
  <2>2. comp' \in Compositors
    BY <1>1, <2>1, ChangesLead DEF StateOK, CacheAssumption
  <2> QED
    BY <1>1, <1>12, <2>2 DEF Change, StateOK, cacheVars
<1>13. CASE StreamEnds
  BY <1>1, <1>13 DEF StreamEnds, StateOK, cacheVars
<1>14. CASE GetWindows
  BY <1>1, <1>14 DEF GetWindows, StateOK, cacheVars, streamVars
<1>15. CASE Encode
  BY <1>1, <1>15 DEF Encode, StateOK, cacheVars, streamVars
<1> QED
  BY <1>2, <1>3, <1>4, <1>5, <1>6, <1>7, <1>8, <1>9, <1>10, <1>11, <1>12, <1>13, <1>14, <1>15
  DEF Next, Daemon, Watcher

\* While the stream is open, its end is nowhere.
LEMMA StreamingIs ==
    ASSUME StreamOK, Streaming
    PROVE  /\ \A i \in 1..Len(channel) : channel[i].type # "closed"
           /\ \A i \in 1..Len(wire) : wire[i].ev # "eof"
           /\ pc \notin {"start", "subscribe", "closed"} /\ event.type # "start"
<1>1. DOMAIN wire = 1..Len(wire) /\ DOMAIN channel = 1..Len(channel)
  BY DEF StreamOK
<1>2. /\ \A i \in DOMAIN wire : wire[i] \in Range(wire)
      /\ \A i \in DOMAIN channel : channel[i] \in Range(channel)
  BY DEF Range
<1>3. /\ \A l \in Range(wire) : l.ev # "eof"
      /\ \A e \in Range(channel) : e.type # "closed"
      /\ pc \notin {"start", "subscribe", "closed"} /\ event.type # "start"
  BY DEF Streaming
<1>4. \A i \in 1..Len(wire) : wire[i].ev # "eof"
  BY <1>1, <1>2, <1>3
<1>5. \A i \in 1..Len(channel) : channel[i].type # "closed"
  BY <1>1, <1>2, <1>3
<1> QED
  BY <1>3, <1>4, <1>5

\* What a step does to the stream.
LEMMA StreamStep ==
    ASSUME CacheAssumption, CacheInv, Next PROVE StreamOK'
<1> DEFINE S == Said(kind) \union Ends
           C == Decoded \union Values({"closed"})
<1>1. StateOK /\ StreamOK /\ Cap \in Nat \ {0}
  BY DEF CacheInv, CacheAssumption
<1>2. CASE Start
  <2>1. Event("start") \in Values(Told \union {"start", "closed"}) /\ Event("start").type = "start"
    BY DEF Event, Values
  <2>2. UNCHANGED <<kind, wire, channel>> /\ wire = << >> /\ channel = << >> /\ pc' = "active" /\ event' = Event("start")
    BY <1>1, <1>2 DEF Start, StreamOK
  <2> QED
    BY <1>1, <2>1, <2>2 DEF StreamOK
<1>3. CASE Subscribe
  <2>1. Greeting(kind, comp) \in Seq(Said(kind))
    BY <1>1, GreetingSaid DEF StateOK
  <2>2. wire' \in Seq(S) /\ \A i \in 1..Len(wire') : wire'[i].ev # "eof"
    <3>1. wire' \in Seq(Said(kind))
      BY <1>3, <2>1 DEF Subscribe
    <3>2. \A i \in 1..Len(wire') : wire'[i] \in Said(kind)
      BY <3>1
    <3>3. wire' \in Seq(S)
      BY <3>1, SeqMonotonic
    <3> QED
      BY <1>1, <3>2, <3>3, NoEnd DEF StateOK
  <2>3. /\ UNCHANGED <<kind, channel, event>> /\ channel = << >> /\ pc' = "receive"
        /\ event.type \in Told
    BY <1>1, <1>3 DEF Subscribe, StreamOK
  <2>4. event.type # "start"
    BY <2>3, Zenon DEF Told, Refreshing
  <2> QED
    BY <1>1, <2>2, <2>3, <2>4 DEF StreamOK
<1>4. CASE Receive
  <2>1. /\ channel \in Seq(C) /\ channel # << >> /\ event' = Head(channel) /\ channel' = Tail(channel)
        /\ UNCHANGED <<wire, kind>> /\ pc' = IF event'.type = "closed" THEN "closed" ELSE "handle"
    BY <1>1, <1>4 DEF Receive, StreamOK
  <2>2. /\ Head(channel) \in C /\ Tail(channel) \in Seq(C) /\ Len(Tail(channel)) = Len(channel) - 1
        /\ \A i \in 1..Len(Tail(channel)) : Tail(channel)[i] = channel[i + 1]
        /\ Len(channel) \in Nat \ {0} /\ Head(channel) = channel[1]
    BY <2>1, HeadTailProperties, EmptySeq
  <2> DEFINE E == {e \in C : e.type = "closed"}
  <2>3. \A i \in 1..Len(channel) : channel[i] \in E => i = Len(channel)
    BY <1>1 DEF StreamOK
  <2>4. /\ \A i \in 1..Len(Tail(channel)) : Tail(channel)[i] \in E => i = Len(Tail(channel))
        /\ Head(channel) \in E => Tail(channel) = << >>
    <3> HIDE DEF E, C
    <3> QED BY <2>1, <2>3, LastOfTail
  <2>5. \A i \in 1..Len(channel') : channel'[i].type = "closed" => i = Len(channel') /\ wire' = << >>
    <3> SUFFICES ASSUME NEW i \in 1..Len(Tail(channel)), Tail(channel)[i].type = "closed"
                 PROVE  i = Len(Tail(channel)) /\ wire = << >>
      BY <2>1
    <3>1. i = Len(Tail(channel))
      <4>1. Tail(channel)[i] \in C
        BY <2>2
      <4> QED
        BY <2>4, <4>1
    <3>2. i + 1 \in 1..Len(channel) /\ channel[i + 1].type = "closed"
      BY <2>2
    <3>3. wire = << >>
      BY <1>1, <3>2 DEF StreamOK
    <3> QED
      BY <3>1, <3>3
  <2>6. Len(channel') <= Cap /\ Len(channel') \in Nat
    <3>1. Len(channel) <= Cap + 1
      BY <1>1 DEF StreamOK
    <3> QED
      BY <1>1, <2>1, <2>2, <3>1
  <2>7. CASE event'.type = "closed"
    <3>1. channel' = << >>
      BY <2>1, <2>2, <2>4, <2>7
    <3>2. wire = << >>
      <4>1. 1 \in 1..Len(channel) /\ channel[1].type = "closed"
        BY <2>1, <2>2, <2>7
      <4> QED
        BY <1>1, <4>1 DEF StreamOK
    <3>3. event' \in Values(Told \union {"start", "closed"}) /\ pc' = "closed"
      BY <2>1, <2>2, <2>7, DecodedIs DEF Values
    <3> QED
      BY <1>1, <2>1, <2>7, <3>1, <3>2, <3>3 DEF StreamOK
  <2>8. CASE event'.type # "closed"
    <3>1. event' \in Decoded /\ pc' = "handle"
      BY <2>1, <2>2, <2>8 DEF Values
    <3>2. event' \in Values(Told \union {"start", "closed"}) /\ event'.type \in Told /\ event'.type # "start"
      BY <3>1, DecodedIs
    <3>3. wire' \in Seq(Said(kind') \union Ends) /\ \A i \in 1..Len(wire') : wire'[i].ev = "eof" => i = Len(wire')
      BY <1>1, <2>1 DEF StreamOK
    <3>4. ~(Len(channel') = Cap + 1) /\ Len(channel') <= Cap + 1
      BY <1>1, <2>6
    <3> QED
      BY <2>1, <2>2, <2>5, <3>1, <3>2, <3>3, <3>4 DEF StreamOK
  <2> QED
    BY <2>7, <2>8
<1>5. CASE HandleRefresh
  <2>1. /\ UNCHANGED <<kind, wire, channel, event>> /\ pc = "handle" /\ pc' = "active"
    BY <1>5 DEF HandleRefresh
  <2>2. event.type # "start"
    <3>1. event.type \in Told
      BY <1>1, <2>1 DEF StreamOK
    <3> QED
      BY <3>1, Zenon DEF Told, Refreshing
  <2>3. /\ wire' = wire /\ channel' = channel /\ event' = event /\ kind' = kind
        /\ pc' \notin {"start", "subscribe", "closed", "receive", "handle"} /\ event'.type # "start"
    BY <2>1, <2>2
  <2> QED
    BY <1>1, <2>3 DEF StreamOK
<1>6. CASE HandleUpdate
  <2>1. pc = "handle" /\ pc' = "receive" /\ event' = Event("") /\ UNCHANGED <<kind, wire, channel>>
    BY <1>6, Zenon DEF HandleUpdate, streamVars
  <2>2. /\ event' \in Values(Told \union {"start", "closed"}) /\ event'.type \in Told
        /\ event'.type # "start" /\ event'.type # "closed"
    BY <2>1, DecodedIs, Zenon
  <2>3. UNCHANGED <<kind, wire, channel>> /\ pc = "handle" /\ pc' = "receive"
    BY <2>1, Zenon
  <2> QED
    BY <1>1, <2>2, <2>3 DEF StreamOK
<1>7. CASE QueryActiveWindow
  BY <1>1, <1>7 DEF QueryActiveWindow, StreamOK, streamVars
<1>8. CASE QueryWorkspaces
  BY <1>1, <1>8 DEF QueryWorkspaces, StreamOK, streamVars
<1>9. CASE QueryMonitors
  <2>1. /\ event' = Event("") /\ UNCHANGED <<kind, wire, channel>>
        /\ pc = "monitors" /\ pc' = (IF event.type = "start" THEN "subscribe" ELSE "receive")
    BY <1>9, Zenon DEF QueryMonitors, streamVars
  <2>2. /\ event' \in Values(Told \union {"start", "closed"}) /\ event'.type \in Told
        /\ event'.type # "start" /\ event'.type # "closed"
    BY <2>1, DecodedIs, Zenon
  <2>3. /\ UNCHANGED <<kind, wire, channel>> /\ pc = "monitors"
        /\ pc' = (IF event.type = "start" THEN "subscribe" ELSE "receive")
    BY <2>1, Zenon
  <2> QED
    BY <1>1, <2>2, <2>3 DEF StreamOK
<1>10. CASE Decode
  <2>1. wire # << >> /\ wire' = Tail(wire) /\ UNCHANGED kind
    BY <1>10 DEF Decode
  <2>2. /\ Head(wire).ev = "eof" => Tail(wire) = << >>
        /\ Head(wire).ev # "eof" => Head(wire) \in Said(kind)
        /\ \A i \in 1..Len(channel) : channel[i].type # "closed"
        /\ pc \notin {"start", "subscribe", "closed"} /\ event.type # "start"
        /\ Tail(wire) \in Seq(S)
        /\ \A i \in 1..Len(Tail(wire)) : Tail(wire)[i].ev = "eof" => i = Len(Tail(wire))
    BY <1>1, <2>1, LineRead
  <2>3. CASE Head(wire).ev = "eof"
    <3>1. channel' = Append(channel, Event("closed")) /\ UNCHANGED <<pc, event>>
      BY <1>10, <2>3 DEF Decode, DecodeEnd
    <3>2. Event("closed") \in C /\ Event("closed").type = "closed"
      BY DEF Event, Values
    <3>3. channel \in Seq(C) /\ Len(channel) \in Nat /\ Len(channel) <= Cap
      <4>1. channel \in Seq(C) /\ Len(channel) \in Nat /\ Len(channel) <= Cap + 1
        BY <1>1 DEF StreamOK
      <4>2. Len(channel) # Cap + 1
        <5>1. Len(channel) = Cap + 1 => Cap + 1 \in 1..Len(channel) /\ channel[Cap + 1].type = "closed"
          BY <1>1 DEF StreamOK
        <5> QED
          BY <2>2, <5>1
      <4> QED
        BY <1>1, <4>1, <4>2
    <3>4. /\ channel' \in Seq(C) /\ Len(channel') = Len(channel) + 1 /\ channel'[Len(channel) + 1] = Event("closed")
          /\ \A i \in 1..Len(channel) : channel'[i] = channel[i]
      <4> HIDE DEF C
      <4> QED BY <3>1, <3>2, <3>3
    <3>5. \A i \in 1..Len(channel') : channel'[i].type = "closed" => i = Len(channel') /\ wire' = << >>
      <4> TAKE i \in 1..Len(channel')
      <4>1. i \in 1..Len(channel) \/ i = Len(channel')
        BY <3>3, <3>4
      <4>2. i \in 1..Len(channel) => channel'[i].type # "closed"
        BY <2>2, <3>4
      <4> QED
        BY <2>1, <2>2, <2>3, <4>1, <4>2
    <3>6. Len(channel') <= Cap + 1 /\ (Len(channel') = Cap + 1 => channel'[Cap + 1].type = "closed")
      BY <1>1, <3>2, <3>3, <3>4
    <3>7. wire' = << >> /\ event \in Values(Told \union {"start", "closed"})
      BY <1>1, <2>1, <2>2, <2>3 DEF StreamOK
    <3>8. wire' \in Seq(S) /\ Len(wire') = 0
      BY <3>7
    <3>9. pc \in {"subscribe", "receive", "handle"} => event.type \in Told
      BY <1>1 DEF StreamOK
    <3> QED
      BY <2>1, <2>2, <3>1, <3>4, <3>5, <3>6, <3>7, <3>8, <3>9 DEF StreamOK
  <2>4. CASE Head(wire).ev # "eof" /\ kind = "hyprland"
    <3>1. pc = "receive" /\ pc' = "handle" /\ event' = HyprlandEvent(Head(wire)) /\ UNCHANGED channel
      BY <1>10, <2>4 DEF Decode, DecodeHyprland
    <3>2. event' \in Decoded
      BY <2>2, <2>4, <3>1, HyprlandDecoded
    <3>3. event' \in Values(Told \union {"start", "closed"}) /\ event'.type \in Told /\ event'.type # "start"
      BY <3>2, DecodedIs
    <3>4. /\ channel \in Seq(C) /\ Len(channel) <= Cap + 1
          /\ Len(channel) = Cap + 1 => channel[Cap + 1].type = "closed"
      BY <1>1 DEF StreamOK
    <3>5. wire' \in Seq(S) /\ \A i \in 1..Len(wire') : wire'[i].ev = "eof" => i = Len(wire')
      BY <2>1, <2>2
    <3> QED
      BY <2>1, <2>2, <3>1, <3>3, <3>4, <3>5 DEF StreamOK
  <2>5. CASE Head(wire).ev # "eof" /\ kind = "niri"
    <3>1. DecodeNiri
      BY <1>10, <2>5 DEF Decode
    <3>2. NiriEvent(Head(wire), sizes, known) \in Decoded
      BY <1>1, <2>2, <2>5, NiriDecoded DEF StateOK
    <3> QED
      BY <1>1, <2>1, <2>5, <3>1, <3>2, Offered DEF DecodeNiri
  <2>6. CASE Head(wire).ev # "eof" /\ kind = "mango"
    <3>1. Offer(MangoEvent(Head(wire)))
      BY <1>10, <2>6 DEF Decode
    <3>2. MangoEvent(Head(wire)) \in Decoded
      BY <2>2, <2>6, MangoDecoded
    <3> QED
      BY <1>1, <2>1, <2>6, <3>1, <3>2, Offered
  <2> QED
    BY <1>1, <2>3, <2>4, <2>5, <2>6 DEF StateOK, Kinds
<1>11. CASE FetchOutputs
  BY <1>1, <1>11 DEF FetchOutputs, StreamOK
<1>12. CASE Change
  <2>1. PICK c \in Changes(comp) :
          wire' = IF Streaming THEN wire \o Lines(kind, c.what, c.w, c.to) ELSE wire
    BY <1>12 DEF Change
  <2>2. UNCHANGED <<kind, pc, event, channel>>
    BY <1>12 DEF Change
  <2>3. CASE ~Streaming
    BY <1>1, <2>1, <2>2, <2>3 DEF StreamOK
  <2>4. CASE Streaming
    <3> DEFINE L == Lines(kind, c.what, c.w, c.to)
    <3>1. L \in Seq(Said(kind))
      <4>1. c.to \in Compositors /\ c.what \in Changing \union {"close", "switch", "plug", "blur"}
            /\ (c.what \in Changing => c.w \in DOMAIN c.to.wins) /\ c.w \in Win \union {None}
        BY <1>1, ChangesLead DEF StateOK, CacheAssumption
      <4> QED
        BY <1>1, <4>1, LinesSaid DEF StateOK
    <3>2. wire' = wire \o L /\ wire \in Seq(S) /\ \A i \in 1..Len(wire) : wire[i].ev # "eof"
      BY <1>1, <2>1, <2>4, StreamingIs DEF StreamOK
    <3>3. L \in Seq(S) /\ \A i \in 1..Len(L) : L[i].ev # "eof"
      <4> HIDE DEF L
      <4>1. \A i \in 1..Len(L) : L[i] \in Said(kind)
        BY <3>1
      <4> QED
        BY <1>1, <3>1, <4>1, NoEnd, SeqMonotonic DEF StateOK
    <3> HIDE DEF L, S
    <3>4. /\ wire' \in Seq(S) /\ Len(wire) \in Nat /\ Len(L) \in Nat /\ Len(wire') = Len(wire) + Len(L)
          /\ \A i \in 1..Len(wire') : wire'[i] = IF i <= Len(wire) THEN wire[i] ELSE L[i - Len(wire)]
      BY <3>2, <3>3, ConcatProperties, LenProperties
    <3>5. \A i \in 1..Len(wire') : wire'[i].ev # "eof"
      <4> TAKE i \in 1..Len(wire')
      <4>1. i \in 1..Len(wire) \/ (i > Len(wire) /\ i - Len(wire) \in 1..Len(L))
        BY <3>4
      <4> QED
        BY <3>2, <3>3, <3>4, <4>1
    <3>6. /\ \A i \in 1..Len(channel) : channel[i].type # "closed"
          /\ pc \notin {"start", "subscribe", "closed"} /\ event.type # "start"
      BY <1>1, <2>4, StreamingIs
    <3> QED
      BY <1>1, <2>2, <3>4, <3>5, <3>6 DEF StreamOK, S
  <2> QED
    BY <2>3, <2>4
<1>13. CASE StreamEnds
  <2> DEFINE l == Line("eof", None, comp)
  <2>1. wire' = Append(wire, l) /\ Streaming /\ UNCHANGED <<kind, pc, event, channel>>
    BY <1>13 DEF StreamEnds
  <2>2. /\ \A i \in 1..Len(channel) : channel[i].type # "closed"
        /\ \A i \in 1..Len(wire) : wire[i].ev # "eof"
        /\ pc \notin {"start", "subscribe", "closed"} /\ event.type # "start"
    BY <1>1, <2>1, StreamingIs
  <2>3. l \in S
    BY <1>1 DEF Line, Ends, StateOK
  <2>4. wire \in Seq(S) /\ Len(wire) \in Nat
    BY <1>1 DEF StreamOK
  <2> HIDE DEF l, S
  <2>5. /\ wire' \in Seq(S) /\ Len(wire') = Len(wire) + 1
        /\ \A i \in 1..Len(wire) : wire'[i] = wire[i]
    BY <2>1, <2>3, <2>4
  <2>6. \A i \in 1..Len(wire') : wire'[i].ev = "eof" => i = Len(wire')
    <3> TAKE i \in 1..Len(wire')
    <3>1. i \in 1..Len(wire) \/ i = Len(wire')
      BY <2>4, <2>5
    <3> QED
      BY <2>2, <2>5, <3>1
  <2> QED
    BY <1>1, <2>1, <2>2, <2>5, <2>6 DEF StreamOK, S
<1>14. CASE GetWindows
  BY <1>1, <1>14 DEF GetWindows, StreamOK, streamVars
<1>15. CASE Encode
  BY <1>1, <1>15 DEF Encode, StreamOK, streamVars
<1> QED
  BY <1>2, <1>3, <1>4, <1>5, <1>6, <1>7, <1>8, <1>9, <1>10, <1>11, <1>12, <1>13, <1>14, <1>15
  DEF Next, Daemon, Watcher

\* What a step does to the cache and to the handler.
LEMMA HandedStep ==
    ASSUME CacheAssumption, CacheInv, Next PROVE HandedOut'
<1>1. StateOK /\ StreamOK /\ HandedOut
  BY DEF CacheInv
<1>2. UNCHANGED <<windows, reply>> => HandedOut'
  BY <1>1 DEF HandedOut, NoTwo
<1>3. CASE Start \/ HandleRefresh
  BY <1>1, <1>3, QueriedWindows DEF Start, HandleRefresh
<1>4. CASE Subscribe \/ Receive \/ Decode \/ FetchOutputs \/ Change \/ StreamEnds
  BY <1>2, <1>4 DEF Subscribe, Receive, Decode, FetchOutputs, Change, StreamEnds, cacheVars
<1>5. CASE QueryActiveWindow
  <2>1. UNCHANGED <<windows, reply>> \/ MarkWindowFocused(comp.focus)
    BY <1>5 DEF QueryActiveWindow
  <2>2. SameWindows(Marked(comp.focus), windows)
    BY <1>1, ChangedIs DEF HandedOut
  <2> QED
    BY <1>1, <1>2, <2>1, <2>2, InPlaceKeeps DEF MarkWindowFocused
<1>6. CASE QueryWorkspaces \/ QueryMonitors
  <2>1. UNCHANGED <<windows, reply>>
    BY <1>6, Zenon DEF QueryWorkspaces, QueryMonitors
  <2> QED
    BY <1>2, <2>1
<1>7. CASE HandleUpdate
  <2>1. event.type \in Told /\ event \in Values(Told \union {"start", "closed"})
    <3>1. pc = "handle"
      BY <1>7, Zenon DEF HandleUpdate
    <3> QED
      BY <1>1, <3>1 DEF StreamOK
  <2>2. /\ event.win \in Window \union {None} /\ event.title \in (0..1) \union {None}
        /\ event.floating \in BOOLEAN \union {None}
    BY <2>1 DEF Values
  <2>3. windows \in Seq(Window) /\ NoTwo(windows)
    BY <1>1 DEF HandedOut
  <2>4. HandleClosed \/ HandleFocused \/ HandleTitle \/ HandleFloating
    BY <1>7, Zenon DEF HandleUpdate
  <2>5. CASE HandleClosed
    <3>1. UNCHANGED <<windows, reply>> \/ RemoveWindow(Id(event))
      BY <2>5 DEF HandleClosed
    <3>2. Without(Id(event)) \in Seq(Window) /\ NoTwo(Without(Id(event)))
      BY <2>3, WithoutIs
    <3> QED
      BY <1>1, <1>2, <3>1, <3>2, ReplaceKeeps DEF RemoveWindow
  <2>6. CASE HandleFocused
    <3> DEFINE ws == IF event.address = None THEN windows ELSE Marked(event.address)
    <3>1. SameWindows(ws, windows)
      BY <2>3, ChangedIs
    <3>2. AddUnlessTracked(event.win, ws)
      BY <2>6 DEF HandleFocused
    <3> HIDE DEF ws
    <3> QED
      BY <1>1, <2>2, <3>1, <3>2, AddKeeps
  <2>7. CASE HandleTitle
    <3> DEFINE ws == IF event.title = None THEN windows ELSE Titled(Id(event), event.title)
    <3>1. SameWindows(ws, windows)
      BY <2>2, <2>3, ChangedIs
    <3>2. AddUnlessTracked(event.win, ws)
      BY <2>7 DEF HandleTitle
    <3> HIDE DEF ws
    <3> QED
      BY <1>1, <2>2, <3>1, <3>2, AddKeeps
  <2>8. CASE HandleFloating
    <3> DEFINE ws == [i \in DOMAIN windows |->
                        IF i \in First(event.address) THEN [windows[i] EXCEPT !.floating = event.floating]
                        ELSE windows[i]]
    <3>1. event.floating # None /\ UpdateWindowFloating(event.address, event.floating)
      BY <2>8, Zenon DEF HandleFloating
    <3>2. InPlace(ws)
      BY <3>1 DEF UpdateWindowFloating
    <3>3. SameWindows(ws, windows)
      BY <2>2, <2>3, <3>1, ChangedIs
    <3> HIDE DEF ws
    <3> QED
      BY <1>1, <3>2, <3>3, InPlaceKeeps
  <2> QED
    BY <2>4, <2>5, <2>6, <2>7, <2>8
<1>8. CASE GetWindows
  <2>1. /\ reply' = [slice |-> windows, shared |-> TRUE, out |-> << >>, ids |-> Ids(windows)]
        /\ windows' = windows
    BY <1>8 DEF GetWindows, cacheVars
  <2>2. windows \in Seq(Window) /\ Len(windows) \in Nat /\ NoTwo(windows)
    BY <1>1 DEF HandedOut
  <2>3. /\ Ids(windows) \in Seq(Win) /\ Len(Ids(windows)) = Len(windows)
        /\ \A i \in 1..Len(windows) : Ids(windows)[i] = windows[i].id
    <3>0. \A i \in 1..Len(windows) : windows[i] \in Window
      BY <2>2
    <3>1. \A i \in 1..Len(windows) : windows[i].id \in Win
      BY <3>0 DEF Window
    <3>2. Ids(windows) = [i \in 1..Len(windows) |-> windows[i].id]
      BY <2>2 DEF Ids
    <3> QED
      BY <2>2, <3>1, <3>2
  <2>4. reply' \in Handed /\ Len(reply'.out) = 0
    BY <2>1, <2>2, <2>3 DEF Handed
  <2> QED
    BY <2>1, <2>2, <2>3, <2>4 DEF HandedOut, NoTwo
<1>9. CASE Encode
  <2> DEFINE k == Len(reply.out)
             n == Len(reply.slice)
             x == reply.slice[k + 1]
  <2>1. /\ reply \in Handed /\ reply.slice \in Seq(Window) /\ reply.out \in Seq(Window)
        /\ k \in Nat /\ n \in Nat
    BY <1>1 DEF HandedOut, Handed
  <2>2. k < n /\ reply' = [reply EXCEPT !.out = Append(reply.out, x)] /\ windows' = windows
    BY <1>9 DEF Encode, cacheVars
  <2>3. k + 1 \in 1..n
    BY <2>1, <2>2
  <2>4. x \in Window /\ x.id = reply.ids[k + 1]
    BY <1>1, <2>1, <2>3 DEF HandedOut
  <2>5. /\ Append(reply.out, x) \in Seq(Window) /\ Len(Append(reply.out, x)) = k + 1
        /\ Append(reply.out, x)[k + 1] = x /\ \A i \in 1..k : Append(reply.out, x)[i] = reply.out[i]
    <3> HIDE DEF x
    <3> QED BY <2>1, <2>4
  <2>6. /\ reply' \in Handed /\ reply'.out = Append(reply.out, x) /\ reply'.slice = reply.slice
        /\ reply'.ids = reply.ids /\ reply'.shared = reply.shared
    <3> HIDE DEF x
    <3> QED BY <2>1, <2>2, <2>5 DEF Handed
  <2>7. \A i \in 1..k + 1 : reply'.out[i].id = reply'.ids[i]
    <3> TAKE i \in 1..k + 1
    <3>1. i \in 1..k \/ i = k + 1
      BY <2>1
    <3>2. \A j \in 1..k : reply.out[j].id = reply.ids[j]
      BY <1>1 DEF HandedOut
    <3> HIDE DEF x, k
    <3> QED
      BY <2>4, <2>5, <2>6, <3>1, <3>2
  <2>8. k + 1 <= n
    BY <2>1, <2>2
  <2> HIDE DEF x
  <2> QED
    BY <1>1, <2>2, <2>5, <2>6, <2>7, <2>8 DEF HandedOut, NoTwo
<1> QED
  BY <1>3, <1>4, <1>5, <1>6, <1>7, <1>8, <1>9 DEF Next, Daemon, Watcher

\* Every step keeps the invariant: its three parts together.
LEMMA CacheStep ==
    ASSUME CacheAssumption, CacheInv, [Next]_vars PROVE CacheInv'
<1>1. CASE Next
  BY <1>1, StateStep, StreamStep, HandedStep DEF CacheInv
<1>2. CASE UNCHANGED vars
  <2>1. StateOK'
    BY <1>2 DEF CacheInv, StateOK, vars, cacheVars, streamVars
  <2>2. StreamOK'
    BY <1>2 DEF CacheInv, StreamOK, vars, cacheVars, streamVars
  <2>3. HandedOut'
    BY <1>2 DEF CacheInv, HandedOut, NoTwo, vars, cacheVars, streamVars
  <2> QED
    BY <2>1, <2>2, <2>3 DEF CacheInv
<1> QED
  BY <1>1, <1>2


\* The invariant, from its three parts.
THEOREM Invariant == Spec => []CacheInv
<1>1. Init => CacheInv
  BY CacheAssumption, CacheStart
<1>2. CacheInv /\ [Next]_vars => CacheInv'
  BY CacheAssumption, CacheStep
<1> QED
  BY <1>1, <1>2, PTL DEF Spec

\* Every variable stays in its type: above all the channel never holds more
\* than its capacity, which only the mark of its close may exceed.
THEOREM TypeCorrect == Spec => []TypeOK
<1>1. CacheInv => TypeOK
  <2> SUFFICES ASSUME CacheInv PROVE TypeOK
    OBVIOUS
  <2>1. /\ StateOK /\ windows \in Seq(Window) /\ reply \in Handed /\ Len(reply.out) <= Len(reply.slice)
    BY DEF CacheInv, HandedOut
  <2>2. \A i \in DOMAIN channel : i > Cap => i = Cap + 1 /\ channel[i].type = "closed"
    <3> DEFINE n == Len(channel)
    <3>1. DOMAIN channel = 1..n /\ n \in Nat /\ n <= Cap + 1 /\ Cap \in Nat
      BY CacheAssumption DEF CacheInv, StreamOK, CacheAssumption
    <3>2. n = Cap + 1 => channel[Cap + 1].type = "closed"
      BY DEF CacheInv, StreamOK
    <3> HIDE DEF n
    <3>3. \A i \in 1..n : i > Cap => i = Cap + 1 /\ n = Cap + 1
      BY <3>1
    <3> QED
      BY <3>1, <3>2, <3>3
  <2> QED
    BY <2>1, <2>2 DEF TypeOK, StateOK, Handed
<1> QED
  BY <1>1, Invariant, PTL

\* An event adds a window only when no window of its id is there, so
\* Window.List never shows one twice, whatever dumps and events cross.
THEOREM NoneTwice == Spec => []NoDuplicateWindows
<1>1. CacheInv => NoDuplicateWindows
  BY NoTwoIs DEF CacheInv, HandedOut, NoDuplicateWindows
<1> QED
  BY <1>1, Invariant, PTL

\* A handler encodes the slice of the cache without its lock, but what it has
\* answered are the first windows of one list, in that list's order.
THEOREM RepliesShowOneList == Spec => []ReplyKeepsIds
<1>1. CacheInv => ReplyKeepsIds
  <2> SUFFICES ASSUME CacheInv PROVE ReplyKeepsIds
    OBVIOUS
  <2> DEFINE k == Len(reply.out)
  <2>1. /\ reply.out \in Seq(Window) /\ reply.ids \in Seq(Win) /\ k \in Nat /\ Len(reply.ids) \in Nat
        /\ k <= Len(reply.ids) /\ \A i \in 1..k : reply.out[i].id = reply.ids[i]
    BY DEF CacheInv, HandedOut, Handed
  <2>2. Ids(reply.out) = [i \in 1..k |-> reply.ids[i]]
    BY <2>1 DEF Ids
  <2>3. SubSeq(reply.ids, 1, k) = [i \in 1..k |-> reply.ids[i]]
    <3> DEFINE s == SubSeq(reply.ids, 1, k)
    <3>1. \A i \in 1..k : reply.ids[i] \in Win
      BY <2>1
    <3>2. s \in Seq(Win) /\ Len(s) = k /\ \A i \in 1..k : s[i] = reply.ids[i]
      <4> HIDE DEF k
      <4> QED BY <2>1, <3>1, SubSeqProperties
    <3>3. s = [i \in 1..k |-> s[i]]
      <4> HIDE DEF s
      <4> QED BY <3>2
    <3> HIDE DEF s
    <3> QED
      BY <3>2, <3>3 DEF s
  <2> QED
    BY <2>2, <2>3 DEF ReplyKeepsIds
<1> QED
  BY <1>1, Invariant, PTL

----------------------------------------------------------------------------
(* Convergence: what is still to come of the stream, and what it will do.  *)

\* What an event does to the cache: it refreshes it, takes a window out, adds
\* one, marks one as focused, sets whether one floats.
Effect == [refresh : BOOLEAN, closes : Win \union {None}, adds : Win \union {None},
           focus : Win \union {None}, floats : Win \union {None}, on : BOOLEAN \union {None}]
Nothing == [refresh |-> FALSE, closes |-> None, adds |-> None, focus |-> None, floats |-> None, on |-> None]

EffectOf(e) ==
    [refresh |-> e.type \in Refreshing,
     closes  |-> IF e.type = "WindowClosed" THEN Id(e) ELSE None,
     adds    |-> IF e.type \in {"WindowFocused", "WindowTitleChanged"} /\ e.win # None THEN e.win.id ELSE None,
     focus   |-> IF e.type = "WindowFocused" THEN e.address ELSE None,
     floats  |-> IF e.floating # None THEN e.address ELSE None,
     on      |-> e.floating]

\* The event of a line, on niri before the outputs are known.
EventOf(k, l) ==
    CASE k = "hyprland" -> HyprlandEvent(l)
      [] k = "niri"     -> NiriEvent(l, [w \in Win |-> None], FALSE)
      [] k = "mango"    -> MangoEvent(l)
LineEffect(k, l) == IF l.ev = "eof" THEN Nothing ELSE EffectOf(EventOf(k, l))

\* The effects of some events and of some lines, in their order.
Effects(k, es, ls) ==
    [i \in 1..Len(es) + Len(ls) |-> IF i <= Len(es) THEN EffectOf(es[i]) ELSE LineEffect(k, ls[i - Len(es)])]

\* The events that are decoded and not handled, and all that is to come.
Ahead   == IF pc = "handle" THEN <<event>> \o channel ELSE channel
Pending == Effects(kind, Ahead, wire)

\* What the cache can be wrong about: whether a window is open, the
\* attributes that only a refresh brings, whether it floats, who has the focus
\* (when no window has it, the cache may mark any).
Topics(k) ==
    {"open", "attributes"} \union (IF k = "hyprland" THEN {"float"} ELSE {})
                           \union (IF k = "mango" THEN {} ELSE {"focus"})
Brought(k, x, y) ==
    /\ k # "niri"  => x.ws = y.ws /\ x.full = y.full
    /\ k = "mango" => x.title = y.title /\ x.floating = y.floating

\* The effects after which the cache is right about a window, given the state
\* of the compositor, and those after which it may be wrong.
Mends(k, c, t, w) ==
    {f \in Effect :
       \/ f.refresh
       \/ t = "open" /\ (IF w \in DOMAIN c.wins THEN k = "niri" /\ f.adds = w
                         ELSE k # "mango" /\ f.closes = w)
       \/ t = "float" /\ f.floats = w
       \/ t = "focus" /\ f.focus # None}

Spoils(k, c, t, w) ==
    {f \in Effect :
       /\ ~f.refresh
       /\ \/ t = "open" /\ (IF w \in DOMAIN c.wins THEN f.closes = w ELSE f.adds = w)
          \/ t = "float" /\ f.floats = w /\ w \in DOMAIN c.wins /\ f.on # c.wins[w].floating
          \/ /\ t = "focus" /\ c.focus # None
             /\ IF f.focus # None THEN ~(f.focus = w <=> w = c.focus) ELSE f.adds = w /\ w = c.focus}

\* An effect of a set is to come; every effect of one set is followed by one
\* of another.
Comes(q, F)       == \E i \in DOMAIN q : q[i] \in F
Mended(q, B, F) == \A i \in DOMAIN q : q[i] \in B => \E j \in DOMAIN q : i < j /\ q[j] \in F

\* The stream leaves nothing spoilt.
StreamMends == \A t \in Topics(kind), w \in Win : Mended(Pending, Spoils(kind, comp, t, w), Mends(kind, comp, t, w))

\* The cache is right about a window.
Has(ws, w) == \E i \in 1..Len(ws) : ws[i].id = w
Right(k, c, ws, t, w) ==
    /\ t = "open" => (Has(ws, w) <=> w \in DOMAIN c.wins)
    /\ t = "attributes" => \A i \in 1..Len(ws) : ws[i].id = w /\ w \in DOMAIN c.wins =>
                             Brought(k, ws[i], c.wins[w])
    /\ t = "float" => \A i \in 1..Len(ws) : ws[i].id = w /\ w \in DOMAIN c.wins =>
                             ws[i].floating = c.wins[w].floating
    /\ t = "focus" /\ c.focus # None =>
         \A i \in 1..Len(ws) : ws[i].id = w => (ws[i].focused <=> w = c.focus)

Refreshes == {f \in Effect : f.refresh}

\* Between its two queries Hyprland's focus is marked nowhere.
Unmarked == kind = "hyprland" /\ pc = "active"

CacheMends ==
    /\ \A t \in Topics(kind), w \in Win :
         (t = "focus" => ~Unmarked) =>
           Right(kind, comp, windows, t, w) \/ Comes(Pending, Mends(kind, comp, t, w))
    /\ Unmarked => \A i \in 1..Len(windows) : ~windows[i].focused
    /\ pc \in {"active", "workspaces"} \/ spaces = comp.active \/ Comes(Pending, Refreshes)
    /\ pc \in {"active", "workspaces", "monitors"} \/ monitors = comp.mons \/ Comes(Pending, Refreshes)

\* The cache can be relied on: nothing was lost, or a refresh that has had
\* all its answers is making up for it.
Trusted ==
    /\ pc \notin {"start", "closed"}
    /\ \/ lost = "no"
       \/ /\ lost = "missed" /\ intact
          /\ event.type # "start" /\ pc \in {"active", "workspaces", "monitors"}

\* An event carries its own window, and only the fields its client sets.
Updating == {"WindowClosed", "WindowFocused", "WindowTitleChanged"}
Plain(k, e) ==
    /\ e.floating # None => e.type \notin Refreshing \union Updating
    /\ k = "hyprland" => e.win = None
    /\ k # "hyprland" => e.floating = None
    /\ k = "mango" => e.type \notin {"WindowTitleChanged", "WindowClosed"}
    /\ k = "niri" /\ e.win # None =>
         /\ e.address \in {None, e.win.id}
         /\ e.win.focused <=> e.address # None
         /\ e.type = "WindowFocused" => e.address # None
         /\ e.type = "WindowTitleChanged" => e.address = None

PlainStream ==
    /\ lost \in {"no", "missed", "dropped"} /\ intact \in BOOLEAN
    /\ \A i \in 1..Len(channel) : Plain(kind, channel[i]) /\ (kind = "hyprland" => channel[i].type = "closed")
    /\ pc = "handle" => Plain(kind, event)
    /\ (pc = "closed" \/ (\E i \in 1..Len(channel) : channel[i].type = "closed")
                      \/ (\E i \in 1..Len(wire) : wire[i].ev = "eof")) => changes = MaxChanges

Convergence ==
    /\ PlainStream
    /\ lost # "dropped" => StreamMends
    /\ Trusted => CacheMends
----------------------------------------------------------------------------
(* What is to come, as the stream moves on. *)

\* A sequence that goes on with effects that spoil nothing.
LEMMA GoesOn ==
    ASSUME NEW a \in Nat, NEW b \in Nat, NEW q, NEW p, DOMAIN q = 1..a, DOMAIN p = 1..a + b,
           \A i \in 1..a : p[i] = q[i], NEW B, NEW F, NEW B2, NEW F2
    PROVE  /\ (\E i \in 1..b : p[a + i] \in F2) => Comes(p, F2)
           /\ Comes(q, F) /\ F \subseteq F2 => Comes(p, F2)
           /\ /\ \A i \in 1..b : p[a + i] \notin B2
              /\ \/ \E i \in 1..b : p[a + i] \in F2
                 \/ F \subseteq F2 /\ B2 \subseteq B /\ Mended(q, B, F)
              => Mended(p, B2, F2)
<1>1. \A i \in 1..a + b : i \in 1..a \/ \E j \in 1..b : i = a + j
  <2> TAKE i \in 1..a + b
  <2>1. i \in 1..a \/ (i - a \in 1..b /\ i = a + (i - a))
    OBVIOUS
  <2> QED
    BY <2>1
<1>2. \A i \in 1..a : i \in 1..a + b
  OBVIOUS
<1>3. \A i \in 1..b : a + i \in 1..a + b /\ \A j \in 1..a : j < a + i
  OBVIOUS
<1>4. (\E i \in 1..b : p[a + i] \in F2) => Comes(p, F2)
  BY <1>3 DEF Comes
<1>5. Comes(q, F) /\ F \subseteq F2 => Comes(p, F2)
  BY <1>2 DEF Comes
<1>6. ASSUME \A i \in 1..b : p[a + i] \notin B2,
             \/ \E i \in 1..b : p[a + i] \in F2
             \/ F \subseteq F2 /\ B2 \subseteq B /\ Mended(q, B, F)
      PROVE  Mended(p, B2, F2)
  <2> SUFFICES ASSUME NEW i \in 1..a + b, p[i] \in B2
               PROVE  \E j \in 1..a + b : i < j /\ p[j] \in F2
    BY DEF Mended
  <2>1. i \in 1..a
    BY <1>1, <1>6
  <2>2. CASE \E j \in 1..b : p[a + j] \in F2
    BY <1>3, <2>1, <2>2
  <2>3. CASE F \subseteq F2 /\ B2 \subseteq B /\ Mended(q, B, F)
    <3>1. \E j \in 1..a : i < j /\ q[j] \in F
      BY <2>1, <2>3 DEF Mended
    <3> QED
      BY <1>2, <2>3, <3>1
  <2> QED
    BY <1>6, <2>2, <2>3
<1> QED
  BY <1>4, <1>5, <1>6

\* A sequence whose first effect has been had.
LEMMA FirstGoes ==
    ASSUME NEW n \in Nat, NEW q, NEW p, DOMAIN q = 1..n + 1, DOMAIN p = 1..n,
           \A i \in 1..n : p[i] = q[i + 1], NEW B, NEW F
    PROVE  /\ Mended(q, B, F) => Mended(p, B, F)
           /\ Mended(q, B, F) /\ q[1] \in B => Comes(p, F)
           /\ Comes(q, F) /\ q[1] \notin F => Comes(p, F)
<1>1. \A i \in 1..n + 1 : i = 1 \/ (i - 1 \in 1..n /\ q[i] = p[i - 1])
  <2> TAKE i \in 1..n + 1
  <2>1. i = 1 \/ (i - 1 \in 1..n /\ (i - 1) + 1 = i)
    OBVIOUS
  <2> QED
    BY <2>1
<1>2. ASSUME Mended(q, B, F) PROVE Mended(p, B, F)
  <2> SUFFICES ASSUME NEW i \in 1..n, p[i] \in B PROVE \E j \in 1..n : i < j /\ p[j] \in F
    BY DEF Mended
  <2>1. i + 1 \in 1..n + 1 /\ q[i + 1] \in B
    OBVIOUS
  <2>2. PICK j \in 1..n + 1 : i + 1 < j /\ q[j] \in F
    BY <1>2, <2>1 DEF Mended
  <2>3. j - 1 \in 1..n /\ q[j] = p[j - 1] /\ i < j - 1
    BY <1>1, <2>2
  <2> QED
    BY <2>2, <2>3
<1>3. ASSUME Mended(q, B, F), q[1] \in B PROVE Comes(p, F)
  <2>1. PICK j \in 1..n + 1 : 1 < j /\ q[j] \in F
    <3>1. 1 \in 1..n + 1
      OBVIOUS
    <3> QED
      BY <1>3, <3>1 DEF Mended
  <2>2. j - 1 \in 1..n /\ q[j] = p[j - 1]
    BY <1>1, <2>1
  <2> QED
    BY <2>1, <2>2 DEF Comes
<1>4. ASSUME Comes(q, F), q[1] \notin F PROVE Comes(p, F)
  BY <1>1, <1>4 DEF Comes
<1> QED
  BY <1>2, <1>3, <1>4

\* A sequence with the same effects, or more that mend.
LEMMA Replaced ==
    ASSUME NEW q, NEW p, DOMAIN q = DOMAIN p, NEW B, NEW F,
           \A i \in DOMAIN q : (p[i] \in B => q[i] \in B) /\ (q[i] \in F => p[i] \in F)
    PROVE  (Mended(q, B, F) => Mended(p, B, F)) /\ (Comes(q, F) => Comes(p, F))
<1>1. Comes(q, F) => Comes(p, F)
  BY DEF Comes
<1>2. ASSUME Mended(q, B, F) PROVE Mended(p, B, F)
  <2> SUFFICES ASSUME NEW i \in DOMAIN p, p[i] \in B PROVE \E j \in DOMAIN p : i < j /\ p[j] \in F
    BY DEF Mended
  <2>1. PICK j \in DOMAIN q : i < j /\ q[j] \in F
    BY <1>2 DEF Mended
  <2> QED
    BY <2>1
<1> QED
  BY <1>1, <1>2

\* A sequence from which an effect that mends nothing is gone.
LEMMA Removed ==
    ASSUME NEW n \in Nat, NEW m \in 0..n, NEW q, NEW p, DOMAIN q = 1..n + 1, DOMAIN p = 1..n,
           \A i \in 1..n : p[i] = IF i <= m THEN q[i] ELSE q[i + 1], NEW B, NEW F, q[m + 1] \notin F
    PROVE  (Mended(q, B, F) => Mended(p, B, F)) /\ (Comes(q, F) => Comes(p, F))
<1>1. \A i \in 1..n + 1 : q[i] \in F => (i <= m /\ i \in 1..n /\ p[i] = q[i])
                                        \/ (i > m + 1 /\ i - 1 \in 1..n /\ p[i - 1] = q[i])
  <2> SUFFICES ASSUME NEW i \in 1..n + 1, q[i] \in F
               PROVE  (i <= m /\ i \in 1..n /\ p[i] = q[i]) \/ (i > m + 1 /\ i - 1 \in 1..n /\ p[i - 1] = q[i])
    OBVIOUS
  <2>1. i # m + 1
    OBVIOUS
  <2>2. CASE i <= m
    BY <2>2
  <2>3. CASE i > m + 1
    <3>1. i - 1 \in 1..n /\ ~(i - 1 <= m) /\ (i - 1) + 1 = i
      BY <2>3
    <3> QED
      BY <2>3, <3>1
  <2> QED
    BY <2>1, <2>2, <2>3
<1>2. Comes(q, F) => Comes(p, F)
  BY <1>1 DEF Comes
<1>3. ASSUME Mended(q, B, F) PROVE Mended(p, B, F)
  <2> SUFFICES ASSUME NEW i \in 1..n, p[i] \in B PROVE \E j \in 1..n : i < j /\ p[j] \in F
    BY DEF Mended
  <2> DEFINE k == IF i <= m THEN i ELSE i + 1
  <2>1. k \in 1..n + 1 /\ q[k] \in B /\ (k = i \/ k = i + 1) /\ (k = i => i <= m)
    OBVIOUS
  <2> HIDE DEF k
  <2>2. PICK j \in 1..n + 1 : k < j /\ q[j] \in F
    BY <1>3, <2>1 DEF Mended
  <2>3. CASE j <= m /\ j \in 1..n /\ p[j] = q[j]
    BY <2>1, <2>2, <2>3
  <2>4. CASE j > m + 1 /\ j - 1 \in 1..n /\ p[j - 1] = q[j]
    <3>1. i < j - 1
      BY <2>1, <2>2, <2>4
    <3> QED
      BY <2>2, <2>4, <3>1
  <2> QED
    BY <1>1, <2>2, <2>3, <2>4
<1> QED
  BY <1>2, <1>3

\* The effects of events and lines, one by one.
LEMMA EffectsAre ==
    ASSUME NEW k, NEW es, NEW ls, Len(es) \in Nat, Len(ls) \in Nat
    PROVE  /\ DOMAIN Effects(k, es, ls) = 1..Len(es) + Len(ls)
           /\ \A i \in 1..Len(es) : Effects(k, es, ls)[i] = EffectOf(es[i])
           /\ \A i \in 1..Len(ls) : Effects(k, es, ls)[Len(es) + i] = LineEffect(k, ls[i])
<1> DEFINE a == Len(es)
           b == Len(ls)
           E(i) == EffectOf(es[i])
           L(i) == LineEffect(k, ls[i])
<1>1. a \in Nat /\ b \in Nat
  OBVIOUS
<1>2. Effects(k, es, ls) = [i \in 1..a + b |-> IF i <= a THEN E(i) ELSE L(i - a)]
  BY DEF Effects
<1> HIDE DEF a, b, E, L
<1>3. \A i \in 1..a : i \in 1..a + b /\ i <= a
  BY <1>1
<1>4. \A i \in 1..b : a + i \in 1..a + b /\ ~(a + i <= a) /\ (a + i) - a = i
  BY <1>1
<1>5. \A i \in 1..a : Effects(k, es, ls)[i] = E(i)
  BY <1>2, <1>3
<1>6. \A i \in 1..b : Effects(k, es, ls)[a + i] = L(i)
  BY <1>2, <1>4
<1> QED
  BY <1>1, <1>2, <1>5, <1>6 DEF a, b, E, L

\* All events, and all lines of an event stream.
Events == Values(Told \union {"start", "closed"})
LinesOf(k) == Said(k) \union Ends

\* The first event is handled.
LEMMA FirstEffect ==
    ASSUME NEW k, NEW es \in Seq(Events), NEW ls \in Seq(LinesOf(k)), NEW e \in Events
    PROVE  LET q == Effects(k, <<e>> \o es, ls)
               p == Effects(k, es, ls)
               n == Len(es) + Len(ls)
           IN  /\ n \in Nat /\ DOMAIN q = 1..n + 1 /\ DOMAIN p = 1..n
               /\ \A i \in 1..n : p[i] = q[i + 1]
               /\ q[1] = EffectOf(e)
<1> DEFINE fs == <<e>> \o es
           q == Effects(k, fs, ls)
           p == Effects(k, es, ls)
           a == Len(es)
           b == Len(ls)
<1>1. /\ fs \in Seq(Events) /\ Len(fs) = a + 1 /\ fs[1] = e /\ a \in Nat /\ b \in Nat
      /\ \A i \in 1..a : fs[i + 1] = es[i]
  OBVIOUS
<1> HIDE DEF fs
<1>2. /\ DOMAIN q = 1..(a + 1) + b
      /\ \A i \in 1..a + 1 : q[i] = EffectOf(fs[i])
      /\ \A i \in 1..b : q[(a + 1) + i] = LineEffect(k, ls[i])
  <2> HIDE DEF a, b
  <2>1. Len(fs) \in Nat /\ Len(ls) \in Nat
    BY <1>1 DEF b
  <2>2. /\ DOMAIN q = 1..Len(fs) + Len(ls)
        /\ \A i \in 1..Len(fs) : q[i] = EffectOf(fs[i])
        /\ \A i \in 1..Len(ls) : q[Len(fs) + i] = LineEffect(k, ls[i])
    BY <2>1, EffectsAre
  <2> HIDE DEF q
  <2> QED
    BY <1>1, <2>2 DEF b
<1>3. /\ DOMAIN p = 1..a + b
      /\ \A i \in 1..a : p[i] = EffectOf(es[i])
      /\ \A i \in 1..b : p[a + i] = LineEffect(k, ls[i])
  BY <1>1, EffectsAre
<1> HIDE DEF q, p, a, b
<1>4. q[1] = EffectOf(e)
  BY <1>1, <1>2
<1>5. \A i \in 1..a + b : p[i] = q[i + 1]
  <2> TAKE i \in 1..a + b
  <2>1. CASE i \in 1..a
    <3>1. i + 1 \in 1..a + 1
      BY <1>1, <2>1
    <3> QED
      BY <1>1, <1>2, <1>3, <2>1, <3>1
  <2>2. CASE i \notin 1..a
    <3>1. i - a \in 1..b /\ a + (i - a) = i /\ (a + 1) + (i - a) = i + 1
      BY <1>1, <2>2
    <3>2. p[a + (i - a)] = LineEffect(k, ls[i - a]) /\ q[(a + 1) + (i - a)] = LineEffect(k, ls[i - a])
      BY <1>2, <1>3, <3>1
    <3> QED
      BY <3>1, <3>2
  <2> QED
    BY <2>1, <2>2
<1>6. a + b \in Nat /\ (a + 1) + b = (a + b) + 1
  BY <1>1
<1> QED
  BY <1>2, <1>3, <1>4, <1>5, <1>6 DEF q, p, a, b, fs

\* Lines are added to the wire.
LEMMA MoreEffects ==
    ASSUME NEW k, NEW es \in Seq(Events), NEW ls \in Seq(LinesOf(k)), NEW new \in Seq(LinesOf(k))
    PROVE  LET q == Effects(k, es, ls)
               p == Effects(k, es, ls \o new)
               n == Len(es) + Len(ls)
           IN  /\ n \in Nat /\ Len(new) \in Nat /\ DOMAIN q = 1..n /\ DOMAIN p = 1..n + Len(new)
               /\ \A i \in 1..n : p[i] = q[i]
               /\ \A i \in 1..Len(new) : p[n + i] = LineEffect(k, new[i])
<1> DEFINE ms == ls \o new
           q == Effects(k, es, ls)
           p == Effects(k, es, ms)
           a == Len(es)
           b == Len(ls)
           c == Len(new)
<1>1. /\ ms \in Seq(LinesOf(k)) /\ Len(ms) = b + c /\ a \in Nat /\ b \in Nat /\ c \in Nat
      /\ \A i \in 1..b : ms[i] = ls[i]
      /\ \A i \in 1..c : ms[b + i] = new[i]
  OBVIOUS
<1> HIDE DEF ms
<1>2. /\ DOMAIN q = 1..a + b
      /\ \A i \in 1..a : q[i] = EffectOf(es[i])
      /\ \A i \in 1..b : q[a + i] = LineEffect(k, ls[i])
  BY <1>1, EffectsAre
<1>3. /\ DOMAIN p = 1..a + (b + c)
      /\ \A i \in 1..a : p[i] = EffectOf(es[i])
      /\ \A i \in 1..b + c : p[a + i] = LineEffect(k, ms[i])
  <2> HIDE DEF a, b, c
  <2>1. Len(es) \in Nat /\ Len(ms) \in Nat
    BY <1>1 DEF a
  <2>2. /\ DOMAIN p = 1..Len(es) + Len(ms)
        /\ \A i \in 1..Len(es) : p[i] = EffectOf(es[i])
        /\ \A i \in 1..Len(ms) : p[Len(es) + i] = LineEffect(k, ms[i])
    BY <2>1, EffectsAre
  <2> HIDE DEF p
  <2> QED
    BY <1>1, <2>2 DEF a
<1> HIDE DEF q, p, a, b, c
<1>4. \A i \in 1..a + b : p[i] = q[i]
  <2> TAKE i \in 1..a + b
  <2>1. CASE i \in 1..a
    BY <1>2, <1>3, <2>1
  <2>2. CASE i \notin 1..a
    <3>1. i - a \in 1..b /\ i - a \in 1..b + c /\ a + (i - a) = i
      BY <1>1, <2>2
    <3>2. p[a + (i - a)] = LineEffect(k, ms[i - a]) /\ q[a + (i - a)] = LineEffect(k, ls[i - a])
      BY <1>2, <1>3, <3>1
    <3> QED
      BY <1>1, <3>1, <3>2
  <2> QED
    BY <2>1, <2>2
<1>5. \A i \in 1..c : p[(a + b) + i] = LineEffect(k, new[i])
  <2> TAKE i \in 1..c
  <2>1. b + i \in 1..b + c /\ a + (b + i) = (a + b) + i
    BY <1>1
  <2> QED
    BY <1>1, <1>3, <2>1
<1>6. a + b \in Nat /\ a + (b + c) = (a + b) + c
  BY <1>1
<1> QED
  BY <1>1, <1>2, <1>3, <1>4, <1>5, <1>6 DEF q, p, a, b, c, ms

\* The first line leaves the wire, and an event of it may take its place.
LEMMA LineEffects ==
    ASSUME NEW k, NEW es \in Seq(Events), NEW ls \in Seq(LinesOf(k)), ls # << >>, NEW e \in Events
    PROVE  LET q == Effects(k, es, ls)
               p == Effects(k, Append(es, e), Tail(ls))
               r == Effects(k, es, Tail(ls))
               a == Len(es)
               n == a + Len(Tail(ls))
           IN  /\ a \in Nat /\ n \in Nat /\ a \in 0..n
               /\ DOMAIN q = 1..n + 1 /\ DOMAIN p = 1..n + 1 /\ DOMAIN r = 1..n
               /\ q[a + 1] = LineEffect(k, Head(ls)) /\ p[a + 1] = EffectOf(e)
               /\ \A i \in 1..n + 1 : i # a + 1 => p[i] = q[i]
               /\ \A i \in 1..n : r[i] = IF i <= a THEN q[i] ELSE q[i + 1]
<1> DEFINE fs == Append(es, e)
           ms == Tail(ls)
           q == Effects(k, es, ls)
           p == Effects(k, fs, ms)
           r == Effects(k, es, ms)
           a == Len(es)
           b == Len(ms)
<1>1. fs \in Seq(Events) /\ Len(fs) = a + 1 /\ fs[a + 1] = e /\ a \in Nat /\ \A i \in 1..a : fs[i] = es[i]
  OBVIOUS
<1>2. ms \in Seq(LinesOf(k)) /\ b \in Nat /\ Len(ls) = b + 1 /\ Head(ls) = ls[1] /\ \A i \in 1..b : ms[i] = ls[i + 1]
  <2>1. ms \in Seq(LinesOf(k)) /\ b \in Nat /\ Len(ls) = b + 1 /\ Head(ls) = ls[1]
    BY EmptySeq, HeadTailProperties
  <2>2. \A i \in 1..b : ms[i] = ls[i + 1]
    BY HeadTailProperties
  <2> QED
    BY <2>1, <2>2
<1> HIDE DEF fs, ms
<1>3. /\ DOMAIN q = 1..a + (b + 1)
      /\ \A i \in 1..a : q[i] = EffectOf(es[i])
      /\ \A i \in 1..b + 1 : q[a + i] = LineEffect(k, ls[i])
  BY <1>2, EffectsAre
<1>4. /\ DOMAIN p = 1..(a + 1) + b
      /\ \A i \in 1..a + 1 : p[i] = EffectOf(fs[i])
      /\ \A i \in 1..b : p[(a + 1) + i] = LineEffect(k, ms[i])
  BY <1>1, <1>2, EffectsAre
<1>5. /\ DOMAIN r = 1..a + b
      /\ \A i \in 1..a : r[i] = EffectOf(es[i])
      /\ \A i \in 1..b : r[a + i] = LineEffect(k, ms[i])
  BY <1>2, EffectsAre
<1> HIDE DEF q, p, r, a, b
<1>6. a + b \in Nat /\ a \in 0..a + b /\ a + (b + 1) = (a + b) + 1 /\ (a + 1) + b = (a + b) + 1
  BY <1>1, <1>2
<1>7. q[a + 1] = LineEffect(k, Head(ls)) /\ p[a + 1] = EffectOf(e)
  <2>1. 1 \in 1..b + 1 /\ a + 1 \in 1..a + 1
    BY <1>1, <1>2
  <2> QED
    BY <1>1, <1>2, <1>3, <1>4, <2>1
<1>8. \A i \in 1..b : q[(a + 1) + i] = LineEffect(k, ms[i])
  <2> TAKE i \in 1..b
  <2>1. i + 1 \in 1..b + 1 /\ a + (i + 1) = (a + 1) + i
    BY <1>1, <1>2
  <2> QED
    BY <1>2, <1>3, <2>1
<1>9. \A i \in 1..(a + b) + 1 : i # a + 1 => p[i] = q[i]
  <2> SUFFICES ASSUME NEW i \in 1..(a + b) + 1, i # a + 1 PROVE p[i] = q[i]
    OBVIOUS
  <2>1. CASE i \in 1..a
    <3>1. i \in 1..a + 1
      BY <1>1, <2>1
    <3> QED
      BY <1>1, <1>3, <1>4, <2>1, <3>1
  <2>2. CASE i \notin 1..a
    <3>1. i - (a + 1) \in 1..b /\ (a + 1) + (i - (a + 1)) = i
      BY <1>1, <1>2, <2>2
    <3> QED
      BY <1>4, <1>8, <3>1
  <2> QED
    BY <2>1, <2>2
<1>10. \A i \in 1..a + b : r[i] = IF i <= a THEN q[i] ELSE q[i + 1]
  <2> TAKE i \in 1..a + b
  <2>1. CASE i <= a
    <3>1. i \in 1..a
      BY <1>1, <2>1
    <3> QED
      BY <1>3, <1>5, <2>1, <3>1
  <2>2. CASE ~(i <= a)
    <3>1. i - a \in 1..b /\ a + (i - a) = i /\ (a + 1) + (i - a) = i + 1
      BY <1>1, <1>2, <2>2
    <3>2. r[i] = LineEffect(k, ms[i - a]) /\ q[i + 1] = LineEffect(k, ms[i - a])
      BY <1>5, <1>8, <3>1
    <3> QED
      BY <2>2, <3>2
  <2> QED
    BY <2>1, <2>2
<1> QED
  BY <1>1, <1>2, <1>3, <1>4, <1>5, <1>6, <1>7, <1>9, <1>10 DEF q, p, r, a, b, fs, ms

----------------------------------------------------------------------------
(* What a change does, and what its lines tell. *)

\* The windows that a change leaves as they are, and their attributes that
\* another change does not touch.
LEMMA ChangesDo ==
    ASSUME None \notin Win, NEW c \in Compositors, NEW x \in Changes(c)
    PROVE  LET d == x.to
               w == x.w
               Kept == \A v \in DOMAIN d.wins : v # w => v \in DOMAIN c.wins /\ d.wins[v] = c.wins[v]
               Same == DOMAIN d.wins = DOMAIN c.wins
           IN
           /\ \/ /\ x.what = "open" /\ DOMAIN d.wins = DOMAIN c.wins \union {w} /\ Kept
                 /\ d.focus = w /\ d.active = c.active /\ d.mons = c.mons
              \/ /\ x.what = "close" /\ DOMAIN d.wins = DOMAIN c.wins \ {w} /\ Kept
                 /\ d.focus # c.focus => c.focus = w
                 /\ d.focus # w /\ d.active = c.active /\ d.mons = c.mons /\ w \in DOMAIN c.wins
              \/ /\ x.what = "focus" /\ d.wins = c.wins /\ d.focus = w
                 /\ w \in DOMAIN c.wins /\ d.active = c.active /\ d.mons = c.mons
              \/ /\ x.what \in {"title", "float", "full", "move"} /\ Same /\ Kept
                 /\ w \in DOMAIN c.wins
                 /\ x.what = "title" \/ d.wins[w].title = c.wins[w].title
                 /\ x.what = "float" \/ d.wins[w].floating = c.wins[w].floating
                 /\ x.what = "full"  \/ d.wins[w].full = c.wins[w].full
                 /\ x.what = "move"  \/ d.wins[w].ws = c.wins[w].ws
                 /\ d.focus = c.focus /\ d.active = c.active /\ d.mons = c.mons
              \/ /\ x.what = "blur" /\ d.wins = c.wins /\ d.focus = None /\ w = None
                 /\ d.active = c.active /\ d.mons = c.mons
              \/ /\ x.what = "away" /\ Same /\ Kept /\ w \in DOMAIN c.wins
                 /\ d.wins[w].floating = c.wins[w].floating
                 /\ d.active = c.active /\ d.mons = c.mons
              \/ x.what = "switch" /\ d.wins = c.wins /\ d.mons = c.mons
              \/ x.what = "plug" /\ d.wins = c.wins /\ d.focus = c.focus /\ d.active = c.active
<1> DEFINE d == x.to
           w == x.w
           Kept == \A v \in DOMAIN d.wins : v # w => v \in DOMAIN c.wins /\ d.wins[v] = c.wins[v]
<1>0. /\ DOMAIN c.wins \subseteq Win /\ c.wins \in [DOMAIN c.wins -> Attrs]
      /\ c = [wins |-> c.wins, focus |-> c.focus, active |-> c.active, mons |-> c.mons]
      /\ c.focus \in DOMAIN c.wins \union {None}
  BY CompositorIs
<1>1. CASE \E v \in Win \ DOMAIN c.wins : x = [what |-> "open", w |-> v, to |-> Open(c, v)]
  <2>1. PICK v \in Win \ DOMAIN c.wins : x = [what |-> "open", w |-> v, to |-> Open(c, v)]
    BY <1>1
  <2> DEFINE W == [y \in DOMAIN c.wins \union {v} |->
                     IF y = v THEN [title |-> 0, ws |-> c.active, floating |-> FALSE, full |-> FALSE]
                     ELSE c.wins[y]]
  <2>2. Open(c, v) = [c EXCEPT !.wins = W, !.focus = v]
    BY Zenon DEF Open
  <2>3. DOMAIN W = DOMAIN c.wins \union {v} /\ \A y \in DOMAIN c.wins : y # v => W[y] = c.wins[y]
    OBVIOUS
  <2> HIDE DEF W
  <2>4. d.wins = W /\ d.focus = v /\ d.active = c.active /\ d.mons = c.mons /\ w = v /\ x.what = "open"
    <3>1. LET e == [c EXCEPT !.wins = W, !.focus = v]
          IN  e.wins = W /\ e.focus = v /\ e.active = c.active /\ e.mons = c.mons
      BY DEF Compositors, Compositor
    <3> QED
      BY <2>1, <2>2, <3>1
  <2> QED
    BY <2>3, <2>4
<1>2. CASE \E v \in DOMAIN c.wins : \E n \in FocusAfter(c, v) :
             x = [what |-> "close", w |-> v, to |-> Close(c, v, n)]
  <2>1. PICK v \in DOMAIN c.wins : \E n \in FocusAfter(c, v) :
             x = [what |-> "close", w |-> v, to |-> Close(c, v, n)]
    BY <1>2
  <2>2. PICK n \in FocusAfter(c, v) : x = [what |-> "close", w |-> v, to |-> Close(c, v, n)]
    BY <2>1
  <2> DEFINE W == [y \in DOMAIN c.wins \ {v} |-> c.wins[y]]
  <2>3. Close(c, v, n) = [c EXCEPT !.wins = W, !.focus = n]
    BY Zenon DEF Close
  <2>4. DOMAIN W = DOMAIN c.wins \ {v} /\ \A y \in DOMAIN W : W[y] = c.wins[y]
    OBVIOUS
  <2> HIDE DEF W
  <2>5. d.wins = W /\ d.focus = n /\ d.active = c.active /\ d.mons = c.mons /\ w = v /\ x.what = "close"
    <3>1. LET e == [c EXCEPT !.wins = W, !.focus = n]
          IN  e.wins = W /\ e.focus = n /\ e.active = c.active /\ e.mons = c.mons
      BY DEF Compositors, Compositor
    <3> QED
      BY <2>2, <2>3, <3>1
  <2>6. (n # c.focus => c.focus = v) /\ n # v
    <3>1. n # c.focus => c.focus = v
      BY <2>2 DEF FocusAfter
    <3>2. n # v
      BY <1>0, <2>1, <2>2 DEF FocusAfter, OnActive
    <3> QED
      BY <3>1, <3>2
  <2> QED
    BY <2>1, <2>4, <2>5, <2>6
<1>3. CASE \E v \in OnActive(c) \ {c.focus} : x = [what |-> "focus", w |-> v, to |-> [c EXCEPT !.focus = v]]
  <2>1. PICK v \in OnActive(c) \ {c.focus} : x = [what |-> "focus", w |-> v, to |-> [c EXCEPT !.focus = v]]
    BY <1>3
  <2>2. v \in DOMAIN c.wins
    BY DEF OnActive
  <2>3. [c EXCEPT !.focus = v] = [wins |-> c.wins, focus |-> v, active |-> c.active, mons |-> c.mons]
    BY <1>0
  <2> QED
    BY <2>1, <2>2, <2>3
<1>4. ASSUME NEW v \in DOMAIN c.wins, NEW a, NEW what, x = [what |-> what, w |-> v, to |-> [c EXCEPT !.wins[v] = a]]
      PROVE  /\ d.wins = [c.wins EXCEPT ![v] = a] /\ DOMAIN d.wins = DOMAIN c.wins /\ Kept /\ d.wins[v] = a
             /\ w = v /\ x.what = what /\ d.focus = c.focus /\ d.active = c.active /\ d.mons = c.mons
  <2> DEFINE W == [c.wins EXCEPT ![v] = a]
  <2>1. DOMAIN W = DOMAIN c.wins /\ W[v] = a /\ \A y \in DOMAIN c.wins : y # v => W[y] = c.wins[y]
    BY <1>0
  <2>2. [c EXCEPT !.wins[v] = a] = [c EXCEPT !.wins = W]
    OBVIOUS
  <2> HIDE DEF W
  <2>3. [c EXCEPT !.wins = W] = [wins |-> W, focus |-> c.focus, active |-> c.active, mons |-> c.mons]
    BY <1>0
  <2>4. d.wins = W /\ d.focus = c.focus /\ d.active = c.active /\ d.mons = c.mons /\ w = v /\ x.what = what
    BY <1>4, <2>2, <2>3
  <2> QED
    BY <2>1, <2>4 DEF W
<1>5. \A v \in DOMAIN c.wins :
        /\ [c EXCEPT !.wins[v].title = 1 - @] = [c EXCEPT !.wins[v] = [c.wins[v] EXCEPT !.title = 1 - @]]
        /\ [c EXCEPT !.wins[v].floating = ~@] = [c EXCEPT !.wins[v] = [c.wins[v] EXCEPT !.floating = ~@]]
        /\ [c EXCEPT !.wins[v].full = ~@] = [c EXCEPT !.wins[v] = [c.wins[v] EXCEPT !.full = ~@]]
        /\ \A s \in Workspaces : [c EXCEPT !.wins[v].ws = s] = [c EXCEPT !.wins[v] = [c.wins[v] EXCEPT !.ws = s]]
  OBVIOUS
<1>6. \A v \in DOMAIN c.wins :
        LET a == c.wins[v]
        IN  /\ LET b == [a EXCEPT !.title = 1 - @]
               IN  b.floating = a.floating /\ b.full = a.full /\ b.ws = a.ws
            /\ LET b == [a EXCEPT !.floating = ~@]
               IN  b.title = a.title /\ b.full = a.full /\ b.ws = a.ws
            /\ LET b == [a EXCEPT !.full = ~@]
               IN  b.title = a.title /\ b.floating = a.floating /\ b.ws = a.ws
            /\ \A s \in Workspaces :
                 LET b == [a EXCEPT !.ws = s]
                 IN  b.title = a.title /\ b.floating = a.floating /\ b.full = a.full
  <2> TAKE v \in DOMAIN c.wins
  <2>1. c.wins[v] \in Attrs
    BY <1>0
  <2> QED
    BY <2>1 DEF Attrs
<1>7. CASE \E v \in DOMAIN c.wins : x = [what |-> "title", w |-> v, to |-> [c EXCEPT !.wins[v].title = 1 - @]]
  <2>1. PICK v \in DOMAIN c.wins : x = [what |-> "title", w |-> v, to |-> [c EXCEPT !.wins[v].title = 1 - @]]
    BY <1>7
  <2> DEFINE a == [c.wins[v] EXCEPT !.title = 1 - @]
  <2>2. x = [what |-> "title", w |-> v, to |-> [c EXCEPT !.wins[v] = a]]
    BY <1>5, <2>1, Zenon
  <2>3. /\ a.floating = c.wins[v].floating /\ a.full = c.wins[v].full /\ a.ws = c.wins[v].ws
    BY <1>6
  <2> HIDE DEF a
  <2>4. /\ DOMAIN d.wins = DOMAIN c.wins /\ Kept /\ d.wins[v] = a /\ w = v /\ x.what = "title"
        /\ d.focus = c.focus /\ d.active = c.active /\ d.mons = c.mons
    BY <1>4, <2>2
  <2> QED
    BY <2>3, <2>4
<1>8. CASE \E v \in DOMAIN c.wins : x = [what |-> "float", w |-> v, to |-> [c EXCEPT !.wins[v].floating = ~@]]
  <2>1. PICK v \in DOMAIN c.wins : x = [what |-> "float", w |-> v, to |-> [c EXCEPT !.wins[v].floating = ~@]]
    BY <1>8
  <2> DEFINE a == [c.wins[v] EXCEPT !.floating = ~@]
  <2>2. x = [what |-> "float", w |-> v, to |-> [c EXCEPT !.wins[v] = a]]
    BY <1>5, <2>1, Zenon
  <2>3. a.title = c.wins[v].title /\ a.full = c.wins[v].full /\ a.ws = c.wins[v].ws
    BY <1>6
  <2> HIDE DEF a
  <2>4. /\ DOMAIN d.wins = DOMAIN c.wins /\ Kept /\ d.wins[v] = a /\ w = v /\ x.what = "float"
        /\ d.focus = c.focus /\ d.active = c.active /\ d.mons = c.mons
    BY <1>4, <2>2
  <2> QED
    BY <2>3, <2>4
<1>9. CASE \E v \in DOMAIN c.wins : x = [what |-> "full", w |-> v, to |-> [c EXCEPT !.wins[v].full = ~@]]
  <2>1. PICK v \in DOMAIN c.wins : x = [what |-> "full", w |-> v, to |-> [c EXCEPT !.wins[v].full = ~@]]
    BY <1>9
  <2> DEFINE a == [c.wins[v] EXCEPT !.full = ~@]
  <2>2. x = [what |-> "full", w |-> v, to |-> [c EXCEPT !.wins[v] = a]]
    BY <1>5, <2>1, Zenon
  <2>3. a.title = c.wins[v].title /\ a.floating = c.wins[v].floating /\ a.ws = c.wins[v].ws
    BY <1>6
  <2> HIDE DEF a
  <2>4. /\ DOMAIN d.wins = DOMAIN c.wins /\ Kept /\ d.wins[v] = a /\ w = v /\ x.what = "full"
        /\ d.focus = c.focus /\ d.active = c.active /\ d.mons = c.mons
    BY <1>4, <2>2
  <2> QED
    BY <2>3, <2>4
<1>10. CASE \E v \in DOMAIN c.wins, s \in Workspaces : x = [what |-> "move", w |-> v, to |-> [c EXCEPT !.wins[v].ws = s]]
  <2>1. PICK v \in DOMAIN c.wins, s \in Workspaces :
          x = [what |-> "move", w |-> v, to |-> [c EXCEPT !.wins[v].ws = s]]
    BY <1>10
  <2> DEFINE a == [c.wins[v] EXCEPT !.ws = s]
  <2>2. x = [what |-> "move", w |-> v, to |-> [c EXCEPT !.wins[v] = a]]
    BY <1>5, <2>1, Zenon
  <2>3. a.title = c.wins[v].title /\ a.floating = c.wins[v].floating /\ a.full = c.wins[v].full
    BY <1>6
  <2> HIDE DEF a
  <2>4. /\ DOMAIN d.wins = DOMAIN c.wins /\ Kept /\ d.wins[v] = a /\ w = v /\ x.what = "move"
        /\ d.focus = c.focus /\ d.active = c.active /\ d.mons = c.mons
    BY <1>4, <2>2
  <2> QED
    BY <2>3, <2>4
<1>11. CASE \E s \in Workspaces : \E n \in FocusOn(c, s) :
              x = [what |-> "switch", w |-> None, to |-> [c EXCEPT !.active = s, !.focus = n]]
  <2>1. PICK s, n : x = [what |-> "switch", w |-> None, to |-> [c EXCEPT !.active = s, !.focus = n]]
    BY <1>11
  <2>2. LET e == [c EXCEPT !.active = s, !.focus = n] IN e.wins = c.wins /\ e.mons = c.mons
    BY DEF Compositors, Compositor
  <2>3. d.wins = c.wins /\ d.mons = c.mons /\ x.what = "switch"
    BY <2>1, <2>2
  <2> QED
    BY <2>3
<1>12. CASE \E m \in Mons :
              x = [what |-> "plug", w |-> None, to |-> [c EXCEPT !.mons = (@ \union {m}) \ (@ \intersect {m})]]
  <2>1. PICK m \in Mons :
          x = [what |-> "plug", w |-> None, to |-> [c EXCEPT !.mons = (@ \union {m}) \ (@ \intersect {m})]]
    BY <1>12
  <2>2. [c EXCEPT !.mons = (@ \union {m}) \ (@ \intersect {m})] =
          [wins |-> c.wins, focus |-> c.focus, active |-> c.active,
           mons |-> (c.mons \union {m}) \ (c.mons \intersect {m})]
    BY <1>0
  <2> QED
    BY <2>1, <2>2
<1>13. CASE x = [what |-> "blur", w |-> None, to |-> [c EXCEPT !.focus = None]]
  <2>1. [c EXCEPT !.focus = None] = [wins |-> c.wins, focus |-> None, active |-> c.active, mons |-> c.mons]
    BY <1>0
  <2> QED
    BY <1>13, <2>1
<1>14. CASE \E s \in Workspaces : \E n \in FocusAfter(c, c.focus) :
              /\ c.focus \in DOMAIN c.wins
              /\ x = [what |-> "away", w |-> c.focus, to |-> [c EXCEPT !.wins[c.focus].ws = s, !.focus = n]]
  <2> DEFINE v == c.focus
  <2>1. PICK s \in Workspaces, n \in FocusAfter(c, v) :
              v \in DOMAIN c.wins /\ x = [what |-> "away", w |-> v, to |-> [c EXCEPT !.wins[v].ws = s, !.focus = n]]
    BY <1>14
  <2> HIDE DEF v
  <2> DEFINE a == [c.wins[v] EXCEPT !.ws = s]
             W == [c.wins EXCEPT ![v] = a]
  <2>2. a.floating = c.wins[v].floating
    BY <1>6, <2>1
  <2>6. [c EXCEPT !.wins[v].ws = s, !.focus = n] = [c EXCEPT !.wins = W, !.focus = n]
    OBVIOUS
  <2> HIDE DEF a
  <2>4. DOMAIN W = DOMAIN c.wins /\ W[v] = a /\ \A y \in DOMAIN c.wins : y # v => W[y] = c.wins[y]
    BY <1>0, <2>1
  <2> HIDE DEF W
  <2>7. LET e == [c EXCEPT !.wins = W, !.focus = n] IN e.wins = W /\ e.active = c.active /\ e.mons = c.mons
    BY DEF Compositors, Compositor
  <2>3. d = [c EXCEPT !.wins = W, !.focus = n] /\ w = v /\ x.what = "away"
    BY <2>1, <2>6
  <2>5. d.wins = W /\ d.active = c.active /\ d.mons = c.mons /\ w = v /\ x.what = "away"
    BY <2>3, <2>7
  <2> QED
    BY <2>1, <2>2, <2>4, <2>5
<1> QED
  BY ONLY ChangesAre, x \in Changes(c), <1>1, <1>2, <1>3, <1>7, <1>8, <1>9, <1>10, <1>11, <1>12, <1>13, <1>14,
          Zenon

\* An event that sets no field has no effect, or refreshes the cache.
LEMMA NothingIs ==
    ASSUME None \notin Win, NEW w \in Win, NEW k, NEW c, NEW t
    PROVE  Nothing \in Effect /\ Nothing \notin Mends(k, c, t, w) /\ Nothing \notin Spoils(k, c, t, w)
BY DEF Nothing, Effect, Mends, Spoils

\* The effect of an event, field by field.
LEMMA EffectFields ==
    ASSUME NEW e
    PROVE  /\ EffectOf(e).refresh <=> e.type \in Refreshing
           /\ EffectOf(e).closes = IF e.type = "WindowClosed" THEN Id(e) ELSE None
           /\ EffectOf(e).adds = IF e.type \in {"WindowFocused", "WindowTitleChanged"} /\ e.win # None
                                 THEN e.win.id ELSE None
           /\ EffectOf(e).focus = IF e.type = "WindowFocused" THEN e.address ELSE None
           /\ EffectOf(e).floats = IF e.floating # None THEN e.address ELSE None
           /\ EffectOf(e).on = e.floating
<1> DEFINE r == e.type \in Refreshing
           c == IF e.type = "WindowClosed" THEN Id(e) ELSE None
           a == IF e.type \in {"WindowFocused", "WindowTitleChanged"} /\ e.win # None THEN e.win.id ELSE None
           f == IF e.type = "WindowFocused" THEN e.address ELSE None
           l == IF e.floating # None THEN e.address ELSE None
<1>1. EffectOf(e) = [refresh |-> r, closes |-> c, adds |-> a, focus |-> f, floats |-> l, on |-> e.floating]
  BY Zenon DEF EffectOf
<1> HIDE DEF r, c, a, f, l
<1>2. /\ EffectOf(e).refresh <=> r
      /\ EffectOf(e).closes = c /\ EffectOf(e).adds = a /\ EffectOf(e).focus = f /\ EffectOf(e).floats = l
      /\ EffectOf(e).on = e.floating
  BY <1>1
<1> QED
  BY <1>2 DEF r, c, a, f, l

\* An effect, made of its fields.
LEMMA EffectMade ==
    ASSUME NEW e, NEW T, e \in Values(T) PROVE EffectOf(e) \in Effect
<1> DEFINE r == e.type \in Refreshing
           c == IF e.type = "WindowClosed" THEN Id(e) ELSE None
           a == IF e.type \in {"WindowFocused", "WindowTitleChanged"} /\ e.win # None THEN e.win.id ELSE None
           f == IF e.type = "WindowFocused" THEN e.address ELSE None
           l == IF e.floating # None THEN e.address ELSE None
<1>1. EffectOf(e) = [refresh |-> r, closes |-> c, adds |-> a, focus |-> f, floats |-> l, on |-> e.floating]
  BY Zenon DEF EffectOf
<1>2. /\ e.address \in Win \union {None} /\ e.id \in Win \union {None}
      /\ e.floating \in BOOLEAN \union {None} /\ e.win \in Window \union {None}
  BY DEF Values
<1>3. c \in Win \union {None} /\ f \in Win \union {None} /\ l \in Win \union {None}
  BY <1>2 DEF Id
<1>4. a \in Win \union {None}
  BY <1>2 DEF Window
<1>5. r \in BOOLEAN
  OBVIOUS
<1> HIDE DEF r, c, a, f, l
<1> QED
  BY <1>1, <1>2, <1>3, <1>4, <1>5 DEF Effect

\* Each type of event has one kind of effect.
LEMMA Types ==
    /\ Updating \cap Refreshing = {}
    /\ {"WindowCreated", "WorkspaceChanged", "WindowMoved", "MonitorChanged", "ConfigReloaded",
        "FullscreenChanged"} \subseteq Refreshing
BY DEF Updating, Refreshing

Refresh(f) == f.refresh /\ f.closes = None /\ f.adds = None /\ f.focus = None /\ f.floats = None
Update(f, closes, adds, focus, floats) ==
    ~f.refresh /\ f.closes = closes /\ f.adds = adds /\ f.focus = focus /\ f.floats = floats

\* The fields of an event that matter, and what they come to.
LEMMA EventEffects ==
    ASSUME NEW e, e.floating = None
    PROVE  /\ e.type \in Refreshing => Refresh(EffectOf(e))
           /\ e.type = "WindowClosed" => Update(EffectOf(e), Id(e), None, None, None)
           /\ e.type = "WindowFocused" /\ e.win = None => Update(EffectOf(e), None, None, e.address, None)
           /\ e.type = "WindowFocused" /\ e.win # None => Update(EffectOf(e), None, e.win.id, e.address, None)
           /\ e.type = "WindowTitleChanged" /\ e.win = None => Update(EffectOf(e), None, None, None, None)
           /\ e.type = "WindowTitleChanged" /\ e.win # None => Update(EffectOf(e), None, e.win.id, None, None)
<1> DEFINE f == EffectOf(e)
<1>1. /\ f.refresh <=> e.type \in Refreshing
      /\ f.closes = IF e.type = "WindowClosed" THEN Id(e) ELSE None
      /\ f.adds = IF e.type \in {"WindowFocused", "WindowTitleChanged"} /\ e.win # None THEN e.win.id ELSE None
      /\ f.focus = IF e.type = "WindowFocused" THEN e.address ELSE None
      /\ f.floats = None
  BY EffectFields
<1> HIDE DEF f
<1>2. e.type \in Refreshing => e.type \notin Updating
  BY Types
<1>3. e.type \in Refreshing => Refresh(f)
  BY <1>1, <1>2 DEF Updating, Refresh
<1>4. e.type \in Updating => ~f.refresh
  BY <1>1, Types
<1>5. e.type = "WindowClosed" => Update(f, Id(e), None, None, None)
  BY <1>1, <1>4 DEF Updating, Update
<1>6. /\ e.type = "WindowFocused" /\ e.win = None => Update(f, None, None, e.address, None)
      /\ e.type = "WindowFocused" /\ e.win # None => Update(f, None, e.win.id, e.address, None)
  BY <1>1, <1>4 DEF Updating, Update
<1>7. /\ e.type = "WindowTitleChanged" /\ e.win = None => Update(f, None, None, None, None)
      /\ e.type = "WindowTitleChanged" /\ e.win # None => Update(f, None, e.win.id, None, None)
  BY <1>1, <1>4 DEF Updating, Update
<1> QED
  BY <1>3, <1>5, <1>6, <1>7 DEF f

\* An event without a type has the effect of its floating change, if any.
LEMMA NoType ==
    ASSUME NEW e, e.type = ""
    PROVE  /\ e.type \notin Refreshing \union Updating
           /\ LET l == IF e.floating # None THEN e.address ELSE None
              IN  Update(EffectOf(e), None, None, None, l)
<1>1. e.type \notin Refreshing \union Updating
  BY Zenon DEF Refreshing, Updating
<1> DEFINE l == IF e.floating # None THEN e.address ELSE None
<1>2. Update(EffectOf(e), None, None, None, l)
  BY ONLY <1>1, EffectFields DEF Update, Updating
<1> QED
  BY <1>1, <1>2

\* What the Hyprland client makes of a line.
LEMMA HyprlandSays ==
    ASSUME CacheAssumption, NEW l \in Said("hyprland")
    PROVE  LET e == HyprlandEvent(l)
               f == EffectOf(e)
           IN  /\ f \in Effect /\ Plain("hyprland", e)
               /\ l.ev \in {"openwindow", "fullscreen", "movewindow", "workspace", "monitoradded"} => Refresh(f)
               /\ l.ev = "closewindow" => Update(f, l.w, None, None, None)
               /\ l.ev \in {"activewindow", "windowtitle"} => Update(f, None, None, None, None)
               /\ l.ev = "activewindowv2" => Update(f, None, None, l.w, None)
               /\ l.ev = "changefloatingmode" =>
                    Update(f, None, None, None, l.w) /\ f.on = l.comp.wins[l.w].floating
<1> DEFINE e == HyprlandEvent(l)
           f == EffectOf(e)
<1>1. f \in Effect
  BY HyprlandDecoded, EffectMade DEF Decoded
<1>2. l.ev \in Names("hyprland")
  BY DEF Said
<1>3. None \notin BOOLEAN
  BY DEF CacheAssumption
<1>4. CASE l.ev \in {"openwindow", "fullscreen", "movewindow", "workspace", "monitoradded"}
  <2>1. e.type \in Refreshing /\ e.floating = None /\ e.win = None
    BY <1>4, Types DEF HyprlandEvent, Event
  <2>2. Refresh(f) /\ Plain("hyprland", e)
    <3> HIDE DEF e
    <3> QED BY <2>1, EventEffects DEF Plain
  <2> QED
    BY <1>1, <1>4, <2>2
<1>5. CASE l.ev = "closewindow"
  <2>1. e.type = "WindowClosed" /\ Id(e) = l.w /\ e.floating = None /\ e.win = None
    BY <1>5 DEF HyprlandEvent, Event, Id
  <2>2. Update(f, l.w, None, None, None) /\ Plain("hyprland", e)
    <3> HIDE DEF e
    <3> QED BY <2>1, EventEffects DEF Plain
  <2> QED
    BY <1>1, <1>5, <2>2
<1>6. CASE l.ev = "activewindow"
  <2>1. e.type = "WindowFocused" /\ e.address = None /\ e.floating = None /\ e.win = None
    BY <1>6 DEF HyprlandEvent, Event
  <2>2. Update(f, None, None, None, None) /\ Plain("hyprland", e)
    <3> HIDE DEF e
    <3> QED BY <2>1, EventEffects DEF Plain
  <2> QED
    BY <1>1, <1>6, <2>2
<1>7. CASE l.ev = "windowtitle"
  <2>1. e.type = "WindowTitleChanged" /\ e.floating = None /\ e.win = None
    BY <1>7 DEF HyprlandEvent, Event
  <2>2. Update(f, None, None, None, None) /\ Plain("hyprland", e)
    <3> HIDE DEF e
    <3> QED BY <2>1, EventEffects DEF Plain
  <2> QED
    BY <1>1, <1>7, <2>2
<1>8. CASE l.ev = "activewindowv2"
  <2>1. e.type = "WindowFocused" /\ e.address = l.w /\ e.floating = None /\ e.win = None
    BY <1>8 DEF HyprlandEvent, Event
  <2>2. Update(f, None, None, l.w, None) /\ Plain("hyprland", e)
    <3> HIDE DEF e
    <3> QED BY <2>1, EventEffects DEF Plain
  <2> QED
    BY <1>1, <1>8, <2>2
<1>9. CASE l.ev = "changefloatingmode"
  <2>1. l.comp.wins[l.w].floating \in BOOLEAN
    <3>1. l.w \in DOMAIN l.comp.wins /\ l.comp \in Compositors
      BY <1>9 DEF Said, OfWindow
    <3>2. l.comp.wins[l.w] \in Attrs
      BY <3>1, CompositorIs
    <3> QED
      BY <3>2 DEF Attrs
  <2> DEFINE b == l.comp.wins[l.w].floating
             w == l.w
             g == [Event("") EXCEPT !.address = w, !.floating = b]
  <2>2. e = g
    BY <1>9 DEF HyprlandEvent
  <2> HIDE DEF b, w
  <2>3. g.type = "" /\ g.address = w /\ g.floating = b /\ g.win = None
    BY DEF Event
  <2> HIDE DEF e, g
  <2>4. e.type \notin Refreshing \union Updating /\ e.win = None /\ e.floating = b
    BY <2>2, <2>3, NoType
  <2>5. b # None
    BY <1>3, <2>1 DEF b
  <2>6. Update(f, None, None, None, w)
    BY <2>2, <2>3, <2>5, NoType
  <2>7. f.on = b
    BY <2>4, EffectFields
  <2>8. Plain("hyprland", e)
    BY <2>4 DEF Plain
  <2> QED
    BY <1>1, <1>9, <2>6, <2>7, <2>8 DEF b, w, e
<1> QED
  BY <1>2, <1>4, <1>5, <1>6, <1>7, <1>8, <1>9 DEF Names

\* What the niri client makes of a line, whatever sizes it knows.
LEMMA NiriSays ==
    ASSUME CacheAssumption, NEW l \in Said("niri"), NEW s \in [Win -> BOOLEAN \union {None}], NEW k \in BOOLEAN
    PROVE  LET e == NiriEvent(l, s, k)
               f == EffectOf(e)
           IN  /\ f \in Effect /\ Plain("niri", e)
               /\ l.ev \in {"WorkspacesChanged", "WorkspaceActivated", "WindowsChanged"} => Refresh(f)
               /\ l.ev = "WindowOpenedOrChanged" =>
                    Update(f, None, l.w, IF l.comp.focus = l.w THEN l.w ELSE None, None) /\ f.on = None
               /\ l.ev = "WindowClosed" => Update(f, l.w, None, None, None) /\ f.on = None
               /\ l.ev = "WindowFocusChanged" => Update(f, None, None, l.w, None) /\ f.on = None
               /\ l.ev = "WindowLayoutsChanged" =>
                    /\ Refresh(f) \/ Update(f, None, None, None, None)
                    /\ ~k => Update(f, None, None, None, None)
               /\ f.on = None
<1> DEFINE e == NiriEvent(l, s, k)
           f == EffectOf(e)
<1>1. f \in Effect
  BY NiriDecoded, EffectMade DEF Decoded
<1>2. l.ev \in Names("niri")
  BY DEF Said
<1>3. None \notin Window
  BY DEF CacheAssumption
<1>4. CASE l.ev \in {"WorkspacesChanged", "WorkspaceActivated", "WindowsChanged"}
  <2>1. e.type \in Refreshing /\ e.floating = None /\ e.win = None
    BY <1>4, Types DEF NiriEvent, Event
  <2>2. Refresh(f) /\ f.on = None /\ Plain("niri", e)
    <3> HIDE DEF e
    <3> QED BY <2>1, EventEffects, EffectFields DEF Plain
  <2> QED
    BY <1>1, <1>4, <2>2
<1>5. CASE l.ev = "WindowClosed"
  <2>1. e.type = "WindowClosed" /\ Id(e) = l.w /\ e.floating = None /\ e.win = None
    BY <1>5 DEF NiriEvent, Event, Id
  <2>2. Update(f, l.w, None, None, None) /\ f.on = None /\ Plain("niri", e)
    <3> HIDE DEF e
    <3> QED BY <2>1, EventEffects, EffectFields DEF Plain
  <2> QED
    BY <1>1, <1>5, <2>2
<1>6. CASE l.ev = "WindowFocusChanged"
  <2>1. e.type = "WindowFocused" /\ e.address = l.w /\ e.floating = None /\ e.win = None
    BY <1>6 DEF NiriEvent, Event
  <2>2. Update(f, None, None, l.w, None) /\ f.on = None /\ Plain("niri", e)
    <3> HIDE DEF e
    <3> QED BY <2>1, EventEffects, EffectFields DEF Plain
  <2> QED
    BY <1>1, <1>6, <2>2
<1>7. CASE l.ev = "WindowOpenedOrChanged"
  <2> DEFINE focused == l.comp.focus = l.w
             win == [WindowOf(l.comp, l.w, focused) EXCEPT !.full = @ /\ k]
             type == IF focused THEN "WindowFocused" ELSE "WindowTitleChanged"
             g == [Event(type) EXCEPT !.id = l.w, !.title = win.title, !.win = win]
  <2>1. e = IF focused THEN [g EXCEPT !.address = l.w] ELSE g
    BY <1>7 DEF NiriEvent
  <2>2. l.w \in DOMAIN l.comp.wins /\ l.comp \in Compositors /\ l.w \in Win
    <3>1. l.w \in DOMAIN l.comp.wins /\ l.comp \in Compositors
      BY <1>7 DEF Said, OfWindow
    <3> QED
      BY <3>1, CompositorIs
  <2>3. win \in Window /\ win.id = l.w /\ (win.focused <=> focused)
    <3>1. win \in Window
      BY <2>2, WindowIs
    <3>2. win.id = l.w /\ (win.focused <=> focused)
      BY DEF WindowOf
    <3> QED
      BY <3>1, <3>2
  <2>4. win # None
    BY <1>3, <2>3
  <2> HIDE DEF win, focused
  <2>5. g.type = type /\ g.address = None /\ g.win = win /\ g.floating = None
    BY DEF Event
  <2>6. CASE focused
    <3>1. e.type = "WindowFocused" /\ e.address = l.w /\ e.win = win /\ e.floating = None
      BY <2>1, <2>5, <2>6 DEF Event
    <3> HIDE DEF e, g, type
    <3>2. f.on = None
      BY <3>1, EffectFields
    <3>3. Update(f, None, l.w, l.w, None)
      BY <2>3, <2>4, <3>1, EventEffects
    <3>4. Plain("niri", e)
      <4>1. l.w # None
        BY <2>2 DEF CacheAssumption
      <4> QED
        BY <2>3, <2>6, <3>1, <4>1 DEF Plain
    <3> QED
      BY <1>1, <1>7, <2>6, <3>2, <3>3, <3>4 DEF focused, e
  <2>7. CASE ~focused
    <3>1. e.type = "WindowTitleChanged" /\ e.address = None /\ e.win = win /\ e.floating = None
      BY <2>1, <2>5, <2>7
    <3> HIDE DEF e, g, type
    <3>2. f.on = None
      BY <3>1, EffectFields
    <3>3. Update(f, None, l.w, None, None)
      BY <2>3, <2>4, <3>1, EventEffects
    <3>4. Plain("niri", e)
      BY <2>3, <2>7, <3>1 DEF Plain
    <3> QED
      BY <1>1, <1>7, <2>7, <3>2, <3>3, <3>4 DEF focused, e
  <2> QED
    BY <2>6, <2>7
<1>8. CASE l.ev = "WindowLayoutsChanged"
  <2> DEFINE T == NiriTransition(l, s, k)
             w == l.w
             g == [Event("FullscreenChanged") EXCEPT !.id = w]
             h == Event("")
  <2>1. e = IF T THEN g ELSE h
    BY <1>8 DEF NiriEvent
  <2>2. ~k => ~T
    BY DEF NiriTransition
  <2> HIDE DEF T, w
  <2>3. g.type \in Refreshing /\ g.floating = None /\ g.win = None
    BY Types DEF Event
  <2>4. h.type = "" /\ h.floating = None /\ h.win = None
    BY DEF Event
  <2> HIDE DEF g, h, e
  <2>5. e.floating = None /\ e.win = None
    BY <2>1, <2>3, <2>4
  <2>6. f.on = None
    BY <2>5, EffectFields
  <2>7. Refresh(EffectOf(g))
    BY <2>3, EventEffects
  <2>8. Update(EffectOf(h), None, None, None, None)
    BY <2>4, NoType
  <2>9. Plain("niri", e)
    BY <2>5 DEF Plain
  <2> QED
    <3>1. (Refresh(f) \/ Update(f, None, None, None, None)) /\ (~k => Update(f, None, None, None, None))
      BY <2>1, <2>2, <2>7, <2>8
    <3> QED
      BY <1>1, <1>8, <2>6, <2>9, <3>1 DEF e
<1> QED
  BY <1>2, <1>4, <1>5, <1>6, <1>7, <1>8 DEF Names

\* What the MangoWC client makes of a line.
LEMMA MangoSays ==
    ASSUME CacheAssumption, NEW l \in Said("mango")
    PROVE  LET e == MangoEvent(l)
               f == EffectOf(e)
           IN  /\ f \in Effect /\ Plain("mango", e)
               /\ l.ev # "focusing-client" => Refresh(f)
               /\ l.ev = "focusing-client" => Update(f, None, l.w, None, None)
<1> DEFINE e == MangoEvent(l)
           f == EffectOf(e)
<1>1. f \in Effect
  BY MangoDecoded, EffectMade DEF Decoded
<1>2. l.ev \in Names("mango")
  BY DEF Said
<1>3. CASE l.ev # "focusing-client"
  <2>1. e.type \in Refreshing /\ e.floating = None /\ e.win = None
    BY <1>2, <1>3, Types DEF MangoEvent, Event, Names
  <2> HIDE DEF e
  <2>2. e.type \notin Updating
    BY <2>1, Types
  <2> QED
    BY <1>1, <1>3, <2>1, <2>2, EventEffects DEF Plain, Updating, e
<1>4. CASE l.ev = "focusing-client"
  <2> DEFINE win == [WindowOf(l.comp, l.w, TRUE) EXCEPT !.ws = None]
             title == l.comp.wins[l.w].title
  <2>1. win \in Window /\ win.id = l.w
    <3>1. l.w \in DOMAIN l.comp.wins /\ l.comp \in Compositors
      BY <1>4 DEF Said, OfWindow
    <3>2. win \in Window
      BY <3>1, WindowIs
    <3>3. win.id = l.w
      BY DEF WindowOf
    <3> QED
      BY <3>2, <3>3
  <2>2. win # None
    BY <2>1 DEF CacheAssumption
  <2>3. e = [Event("WindowFocused") EXCEPT !.id = l.w, !.title = title, !.win = win]
    BY <1>4 DEF MangoEvent
  <2> HIDE DEF win, title
  <2>4. e.type = "WindowFocused" /\ e.address = None /\ e.win = win /\ e.floating = None
    BY <2>3 DEF Event
  <2> HIDE DEF e
  <2>5. Update(f, None, l.w, None, None)
    BY <2>1, <2>2, <2>4, EventEffects
  <2>6. Plain("mango", e)
    BY <2>4 DEF Plain
  <2> QED
    BY <1>1, <1>4, <2>5, <2>6 DEF e
<1> QED
  BY <1>3, <1>4

\* The elements of a short sequence.
Among(s) == {s[i] : i \in 1..Len(s)}

\* The elements of short sequences.
LEMMA AmongNone == Among(<< >>) = {}
<1>1. 1..0 = {} /\ Len(<< >>) = 0
  OBVIOUS
<1> QED
  BY <1>1 DEF Among

\* A sequence of one.
LEMMA AmongOne ==
    ASSUME NEW a
    PROVE  Among(<<a>>) = {a} /\ Among(<<a>> \o << >>) = {a} /\ Among(<< >> \o <<a>>) = {a}
<1>1. ASSUME NEW s, Len(s) = 1, s[1] = a PROVE Among(s) = {a}
  <2>1. 1..1 = {1}
    OBVIOUS
  <2> QED
    BY <1>1, <2>1 DEF Among
<1>2. Len(<<a>>) = 1 /\ <<a>>[1] = a
  OBVIOUS
<1>3. Len(<<a>> \o << >>) = 1 /\ (<<a>> \o << >>)[1] = a
  OBVIOUS
<1>4. Len(<< >> \o <<a>>) = 1 /\ (<< >> \o <<a>>)[1] = a
  OBVIOUS
<1> QED
  BY ONLY <1>1, <1>2, <1>3, <1>4

\* A sequence of two.
LEMMA AmongTwo ==
    ASSUME NEW a, NEW b PROVE Among(<<a, b>>) = {a, b} /\ Among(<<a>> \o <<b>>) = {a, b}
<1>1. ASSUME NEW s, Len(s) = 2, s[1] = a, s[2] = b PROVE Among(s) = {a, b}
  <2>1. 1..2 = {1, 2}
    OBVIOUS
  <2> QED
    BY <1>1, <2>1 DEF Among
<1>2. Len(<<a, b>>) = 2 /\ <<a, b>>[1] = a /\ <<a, b>>[2] = b
  OBVIOUS
<1>3. Len(<<a>> \o <<b>>) = 2 /\ (<<a>> \o <<b>>)[1] = a /\ (<<a>> \o <<b>>)[2] = b
  OBVIOUS
<1> QED
  BY ONLY <1>1, <1>2, <1>3

\* A sequence of three.
LEMMA AmongThree ==
    ASSUME NEW a, NEW b, NEW c PROVE Among(<<a>> \o <<b, c>>) = {a, b, c}
<1> DEFINE s == <<a>> \o <<b, c>>
<1>1. Len(s) = 3
  OBVIOUS
<1>2. s[1] = a
  OBVIOUS
<1>3. s[2] = b
  OBVIOUS
<1>4. s[3] = c
  OBVIOUS
<1> HIDE DEF s
<1>5. 1..3 = {1, 2, 3}
  OBVIOUS
<1>6. Among(s) = {a, b, c}
  BY <1>1, <1>2, <1>3, <1>4, <1>5 DEF Among
<1> QED
  BY <1>6 DEF s

\* What a compositor says of a change.
Telling(k, what, w, d) ==
    LET l(name, x) == Line(name, x, d)
        focus == CASE k = "hyprland" -> {l("activewindow", d.focus), l("activewindowv2", d.focus)}
                   [] k = "niri"     -> {l("WindowFocusChanged", d.focus)}
                   [] k = "mango"    -> {x \in {l("focusing-client", d.focus)} : d.focus # None}
    IN  IF k = "hyprland" THEN
          CASE what = "open"   -> {l("openwindow", w)} \union focus
            [] what = "close"  -> {l("closewindow", w)} \union focus
            [] what \in {"focus", "blur"} -> focus
            [] what = "title"  -> {l("windowtitle", w)}
            [] what = "float"  -> {l("changefloatingmode", w)}
            [] what = "full"   -> {l("fullscreen", w)}
            [] what = "move"   -> {l("movewindow", w)}
            [] what = "away"   -> {l("movewindow", w)} \union focus
            [] what = "switch" -> {l("workspace", None)} \union focus
            [] what = "plug"   -> {l("monitoradded", None)}
        ELSE IF k = "niri" THEN
          CASE what \in {"open", "away"} -> {l("WindowOpenedOrChanged", w)} \union focus
            [] what = "close"  -> {l("WindowClosed", w)} \union focus
            [] what \in {"focus", "blur"} -> {l("WindowFocusChanged", w)}
            [] what \in {"title", "float", "move"} -> {l("WindowOpenedOrChanged", w)}
            [] what = "full"   -> {l("WindowLayoutsChanged", w)}
            [] what = "switch" -> {l("WorkspaceActivated", None)} \union focus
            [] what = "plug"   -> {l("WorkspacesChanged", None)}
        ELSE
          CASE what \in {"open", "close", "away"} -> {l("all-clients", w)} \union focus
            [] what \in {"focus", "blur"} -> focus
            [] what \in {"title", "float", "full", "move"} -> {l("all-clients", w)}
            [] what = "switch" -> {l("all-tags", None)} \union focus
            [] what = "plug"   -> {l("all-monitors", None)}

\* The lines that tell of a change, as a set.
LEMMA LinesTell ==
    ASSUME NEW k \in Kinds, NEW what \in Changing \union {"close", "switch", "plug", "blur"}, NEW w, NEW d
    PROVE  Among(Lines(k, what, w, d)) = Telling(k, what, w, d)
<1>1. CASE k = "hyprland"
  <2> DEFINE a == Line("activewindow", d.focus, d)
             b == Line("activewindowv2", d.focus, d)
  <2>1. Lines(k, what, w, d) =
            CASE what = "open"   -> <<Line("openwindow", w, d)>> \o <<a, b>>
              [] what = "close"  -> <<Line("closewindow", w, d)>> \o <<a, b>>
              [] what \in {"focus", "blur"} -> <<a, b>>
              [] what = "title"  -> <<Line("windowtitle", w, d)>>
              [] what = "float"  -> <<Line("changefloatingmode", w, d)>>
              [] what = "full"   -> <<Line("fullscreen", w, d)>>
              [] what = "move"   -> <<Line("movewindow", w, d)>>
              [] what = "away"   -> <<Line("movewindow", w, d)>> \o <<a, b>>
              [] what = "switch" -> <<Line("workspace", None, d)>> \o <<a, b>>
              [] what = "plug"   -> <<Line("monitoradded", None, d)>>
    BY <1>1 DEF Lines, HyprlandLines
  <2>2. Telling(k, what, w, d) =
            CASE what = "open"   -> {Line("openwindow", w, d)} \union {a, b}
              [] what = "close"  -> {Line("closewindow", w, d)} \union {a, b}
              [] what \in {"focus", "blur"} -> {a, b}
              [] what = "title"  -> {Line("windowtitle", w, d)}
              [] what = "float"  -> {Line("changefloatingmode", w, d)}
              [] what = "full"   -> {Line("fullscreen", w, d)}
              [] what = "move"   -> {Line("movewindow", w, d)}
              [] what = "away"   -> {Line("movewindow", w, d)} \union {a, b}
              [] what = "switch" -> {Line("workspace", None, d)} \union {a, b}
              [] what = "plug"   -> {Line("monitoradded", None, d)}
    BY <1>1 DEF Telling
  <2> HIDE DEF a, b
  <2>3. \A l : Among(<<l>> \o <<a, b>>) = {l} \union {a, b} /\ Among(<<l>>) = {l} /\ Among(<<a, b>>) = {a, b}
    <3> TAKE l
    <3>1. Among(<<l>> \o <<a, b>>) = {l, a, b}
      BY AmongThree
    <3>2. Among(<<l>>) = {l} /\ Among(<<a, b>>) = {a, b}
      BY AmongOne, AmongTwo
    <3>3. {l, a, b} = {l} \union {a, b}
      OBVIOUS
    <3> QED
      BY ONLY <3>1, <3>2, <3>3
  <2> QED
    BY ONLY what \in Changing \union {"close", "switch", "plug", "blur"}, <2>1, <2>2, <2>3 DEF Changing
<1>2. CASE k = "niri"
  <2> DEFINE f == Line("WindowFocusChanged", d.focus, d)
  <2>1. Lines(k, what, w, d) =
            CASE what \in {"open", "away"} -> <<Line("WindowOpenedOrChanged", w, d), f>>
              [] what = "close"  -> <<Line("WindowClosed", w, d), f>>
              [] what \in {"focus", "blur"} -> <<Line("WindowFocusChanged", w, d)>>
              [] what \in {"title", "float", "move"} -> <<Line("WindowOpenedOrChanged", w, d)>>
              [] what = "full"   -> <<Line("WindowLayoutsChanged", w, d)>>
              [] what = "switch" -> <<Line("WorkspaceActivated", None, d), f>>
              [] what = "plug"   -> <<Line("WorkspacesChanged", None, d)>>
    BY <1>2 DEF Lines, NiriLines
  <2>2. Telling(k, what, w, d) =
            CASE what \in {"open", "away"} -> {Line("WindowOpenedOrChanged", w, d)} \union {f}
              [] what = "close"  -> {Line("WindowClosed", w, d)} \union {f}
              [] what \in {"focus", "blur"} -> {Line("WindowFocusChanged", w, d)}
              [] what \in {"title", "float", "move"} -> {Line("WindowOpenedOrChanged", w, d)}
              [] what = "full"   -> {Line("WindowLayoutsChanged", w, d)}
              [] what = "switch" -> {Line("WorkspaceActivated", None, d)} \union {f}
              [] what = "plug"   -> {Line("WorkspacesChanged", None, d)}
    BY <1>2 DEF Telling
  <2> HIDE DEF f
  <2>3. \A l : Among(<<l, f>>) = {l} \union {f} /\ Among(<<l>>) = {l}
    <3>1. \A l : Among(<<l, f>>) = {l, f} /\ Among(<<l>>) = {l}
      BY AmongOne, AmongTwo
    <3>2. \A l : {l, f} = {l} \union {f}
      OBVIOUS
    <3> QED
      BY ONLY <3>1, <3>2
  <2> QED
    BY ONLY what \in Changing \union {"close", "switch", "plug", "blur"}, <2>1, <2>2, <2>3 DEF Changing
<1>3. CASE k = "mango"
  <2> DEFINE f == IF d.focus = None THEN << >> ELSE <<Line("focusing-client", d.focus, d)>>
             F == {x \in {Line("focusing-client", d.focus, d)} : d.focus # None}
  <2>1. Lines(k, what, w, d) =
            CASE what = "open"   -> f \o <<Line("all-clients", w, d)>>
              [] what \in {"close", "away"} -> <<Line("all-clients", w, d)>> \o f
              [] what \in {"focus", "blur"} -> f
              [] what \in {"title", "float", "full", "move"} -> <<Line("all-clients", w, d)>>
              [] what = "switch" -> <<Line("all-tags", None, d)>> \o f
              [] what = "plug"   -> <<Line("all-monitors", None, d)>>
    BY <1>3 DEF Lines, MangoLines
  <2>2. Telling(k, what, w, d) =
            CASE what \in {"open", "close", "away"} -> {Line("all-clients", w, d)} \union F
              [] what \in {"focus", "blur"} -> F
              [] what \in {"title", "float", "full", "move"} -> {Line("all-clients", w, d)}
              [] what = "switch" -> {Line("all-tags", None, d)} \union F
              [] what = "plug"   -> {Line("all-monitors", None, d)}
    BY <1>3 DEF Telling
  <2>3. \A l : /\ Among(<<l>> \o f) = {l} \union F /\ Among(f \o <<l>>) = {l} \union F
               /\ Among(f) = F /\ Among(<<l>>) = {l}
    <3>1. CASE d.focus = None
      <4>1. f = << >> /\ F = {}
        BY <3>1
      <4> HIDE DEF f, F
      <4>2. \A l : /\ Among(<<l>> \o << >>) = {l} /\ Among(<< >> \o <<l>>) = {l} /\ Among(<< >>) = {}
                   /\ Among(<<l>>) = {l}
        BY AmongNone, AmongOne
      <4>3. \A l : {l} = {l} \union {}
        OBVIOUS
      <4> QED
        BY ONLY <4>1, <4>2, <4>3
    <3>2. CASE d.focus # None
      <4> DEFINE m == Line("focusing-client", d.focus, d)
      <4>1. f = <<m>> /\ F = {m}
        BY <3>2
      <4> HIDE DEF f, F, m
      <4>2. \A l : Among(<<l>> \o <<m>>) = {l, m} /\ Among(<<m>> \o <<l>>) = {m, l} /\ Among(<<l>>) = {l}
        BY AmongOne, AmongTwo
      <4>3. \A l : {l, m} = {l} \union {m} /\ {m, l} = {l} \union {m}
        OBVIOUS
      <4> QED
        BY ONLY <4>1, <4>2, <4>3
    <3> QED
      BY <3>1, <3>2
  <2> HIDE DEF f, F
  <2> QED
    BY ONLY what \in Changing \union {"close", "switch", "plug", "blur"}, <2>1, <2>2, <2>3 DEF Changing
<1> QED
  BY <1>1, <1>2, <1>3 DEF Kinds


\* The lines of a change carry the state it led to; a window they close or let
\* float is the one changed, one they call focused is.
LEMMA HyprlandTells ==
    ASSUME NEW what \in Changing \union {"close", "switch", "plug", "blur"}, NEW w, NEW d
    PROVE  LET T == Telling("hyprland", what, w, d)
           IN  /\ \A l \in T : /\ l.comp = d
                               /\ l.ev = "closewindow" => what = "close" /\ l.w = w
                               /\ l.ev = "activewindowv2" => l.w = d.focus
                               /\ l.ev = "changefloatingmode" => what = "float" /\ l.w = w
               /\ what \in {"open", "full", "move", "away", "switch", "plug"} =>
                    \E l \in T : l.ev \in {"openwindow", "fullscreen", "movewindow", "workspace", "monitoradded"}
               /\ what = "close" => \E l \in T : l.ev = "closewindow" /\ l.w = w
               /\ what \in {"open", "close", "focus", "blur", "away", "switch"} => \E l \in T : l.ev = "activewindowv2" /\ l.w = d.focus
               /\ what = "float" => \E l \in T : l.ev = "changefloatingmode" /\ l.w = w
<1> DEFINE T == Telling("hyprland", what, w, d)
           F == {Line("activewindow", d.focus, d), Line("activewindowv2", d.focus, d)}
<1>1. /\ what = "open"   => T = {Line("openwindow", w, d)} \union F
      /\ what = "close"  => T = {Line("closewindow", w, d)} \union F
      /\ what \in {"focus", "blur"} => T = F
      /\ what = "title"  => T = {Line("windowtitle", w, d)}
      /\ what = "float"  => T = {Line("changefloatingmode", w, d)}
      /\ what = "full"   => T = {Line("fullscreen", w, d)}
      /\ what = "move"   => T = {Line("movewindow", w, d)}
      /\ what = "away"   => T = {Line("movewindow", w, d)} \union F
      /\ what = "switch" => T = {Line("workspace", None, d)} \union F
      /\ what = "plug"   => T = {Line("monitoradded", None, d)}
  BY DEF Telling
<1>2. \A n, v : Line(n, v, d).ev = n /\ Line(n, v, d).w = v /\ Line(n, v, d).comp = d
  BY DEF Line
<1>3. /\ \A l \in F : l.comp = d /\ l.ev \in {"activewindow", "activewindowv2"} /\ l.w = d.focus
      /\ \E l \in F : l.ev = "activewindowv2" /\ l.w = d.focus
  BY <1>2
<1> HIDE DEF T, F
<1>4. CASE what \in {"open", "close", "away", "switch"}
  BY <1>1, <1>2, <1>3, <1>4 DEF T
<1>5. CASE what \in {"focus", "blur", "title", "float", "full", "move", "plug"}
  BY <1>1, <1>2, <1>3, <1>5 DEF T
<1> QED
  BY <1>4, <1>5 DEF Changing

\* What niri's lines about a change have for effects.
LEMMA NiriTells ==
    ASSUME NEW what \in Changing \union {"close", "switch", "plug", "blur"}, NEW w, NEW d,
           what \in {"focus", "blur"} => w = d.focus
    PROVE  LET T == Telling("niri", what, w, d)
           IN  /\ \A l \in T : /\ l.comp = d
                               /\ l.ev = "WindowClosed" => what = "close" /\ l.w = w
                               /\ l.ev = "WindowFocusChanged" => l.w = d.focus
                               /\ l.ev = "WindowOpenedOrChanged" => what \in Changing /\ l.w = w
               /\ what \in {"switch", "plug"} => \E l \in T : l.ev \in {"WorkspacesChanged", "WorkspaceActivated"}
               /\ what = "open" => \E l \in T : l.ev = "WindowOpenedOrChanged" /\ l.w = w
               /\ what = "close" => \E l \in T : l.ev = "WindowClosed" /\ l.w = w
               /\ what \in {"open", "close", "focus", "blur", "away", "switch"} => \E l \in T : l.ev = "WindowFocusChanged" /\ l.w = d.focus
<1> DEFINE T == Telling("niri", what, w, d)
           f == Line("WindowFocusChanged", d.focus, d)
<1>1. /\ what \in {"open", "away"} => T = {Line("WindowOpenedOrChanged", w, d)} \union {f}
      /\ what = "close"  => T = {Line("WindowClosed", w, d)} \union {f}
      /\ what \in {"focus", "blur"} => T = {Line("WindowFocusChanged", w, d)}
      /\ what \in {"title", "float", "move"} => T = {Line("WindowOpenedOrChanged", w, d)}
      /\ what = "full"   => T = {Line("WindowLayoutsChanged", w, d)}
      /\ what = "switch" => T = {Line("WorkspaceActivated", None, d)} \union {f}
      /\ what = "plug"   => T = {Line("WorkspacesChanged", None, d)}
  BY DEF Telling
<1>2. \A n, v : Line(n, v, d).ev = n /\ Line(n, v, d).w = v /\ Line(n, v, d).comp = d
  BY DEF Line
<1>3. f.comp = d /\ f.ev = "WindowFocusChanged" /\ f.w = d.focus
  BY <1>2
<1> HIDE DEF T, f
<1>4. CASE what \in {"open", "close", "away", "switch"}
  BY <1>1, <1>2, <1>3, <1>4 DEF T, Changing
<1>5. CASE what \in {"focus", "blur", "title", "float", "full", "move", "plug"}
  BY <1>1, <1>2, <1>3, <1>5 DEF T, Changing
<1> QED
  BY <1>4, <1>5 DEF Changing

\* What MangoWC's lines about a change have for effects.
LEMMA MangoTells ==
    ASSUME NEW what \in Changing \union {"close", "switch", "plug", "blur"}, NEW w, NEW d
    PROVE  LET T == Telling("mango", what, w, d)
           IN  /\ \A l \in T : l.comp = d /\ (l.ev = "focusing-client" => l.w = d.focus)
               /\ what \notin {"focus", "blur"} => \E l \in T : l.ev # "focusing-client"
<1> DEFINE T == Telling("mango", what, w, d)
           F == {x \in {Line("focusing-client", d.focus, d)} : d.focus # None}
<1>1. /\ what \in {"open", "close", "away"} => T = {Line("all-clients", w, d)} \union F
      /\ what \in {"focus", "blur"} => T = F
      /\ what \in {"title", "float", "full", "move"} => T = {Line("all-clients", w, d)}
      /\ what = "switch" => T = {Line("all-tags", None, d)} \union F
      /\ what = "plug"   => T = {Line("all-monitors", None, d)}
  BY DEF Telling
<1>2. \A n, v : Line(n, v, d).ev = n /\ Line(n, v, d).w = v /\ Line(n, v, d).comp = d
  BY DEF Line
<1>3. \A l \in F : l.comp = d /\ l.w = d.focus
  BY <1>2
<1> HIDE DEF T, F
<1>4. CASE what \in {"open", "close", "away", "switch"}
  BY <1>1, <1>2, <1>3, <1>4 DEF T
<1>5. CASE what \in {"focus", "blur", "title", "float", "full", "move", "plug"}
  BY <1>1, <1>2, <1>3, <1>5 DEF T
<1> QED
  BY <1>4, <1>5 DEF Changing

\* A line of a client has the effect of its event.
LEMMA LineIsEffect ==
    ASSUME CacheAssumption, NEW k \in Kinds, NEW l \in Said(k)
    PROVE  LineEffect(k, l) = EffectOf(EventOf(k, l)) /\ LineEffect(k, l) \in Effect
<1>1. l.ev # "eof"
  BY NoEnd
<1>2. LineEffect(k, l) = EffectOf(EventOf(k, l))
  BY <1>1 DEF LineEffect
<1>3. [v \in Win |-> None] \in [Win -> BOOLEAN \union {None}]
  OBVIOUS
<1>4. CASE k = "hyprland"
  BY <1>2, <1>4, HyprlandSays DEF EventOf
<1>5. CASE k = "niri"
  <2>1. EventOf(k, l) = NiriEvent(l, [v \in Win |-> None], FALSE)
    BY <1>5 DEF EventOf
  <2>2. EffectOf(NiriEvent(l, [v \in Win |-> None], FALSE)) \in Effect
    BY <1>3, <1>5, NiriSays
  <2> QED
    BY <1>2, <2>1, <2>2
<1>6. CASE k = "mango"
  BY <1>2, <1>6, MangoSays DEF EventOf
<1> QED
  BY <1>4, <1>5, <1>6 DEF Kinds

\* What the effects of a change's lines are like.
Tells(k, x) == {LineEffect(k, l) : l \in Among(Lines(k, x.what, x.w, x.to))}
Fits(k, x, f) ==
    \/ f.refresh
    \/ /\ f.closes # None => x.what = "close" /\ f.closes = x.w
       /\ f.adds # None => f.adds \in DOMAIN x.to.wins
       /\ f.focus # None => f.focus = x.to.focus
       /\ f.floats # None => f.floats = x.w /\ f.on = x.to.wins[x.w].floating
       /\ f.adds # None /\ f.focus = None => k = "mango" \/ f.adds # x.to.focus

\* The effects of a change's lines fit the state it leads to.
LEMMA ChangeTells ==
    ASSUME CacheAssumption, NEW k \in Kinds, NEW c \in Compositors, NEW x \in Changes(c)
    PROVE  LET E == Tells(k, x)
           IN  /\ \A f \in E : f \in Effect /\ Fits(k, x, f)
               /\ \/ k = "mango" /\ x.what \notin {"focus", "blur"}
                  \/ x.what \in {"switch", "plug"}
                  \/ k = "hyprland" /\ x.what \in {"open", "full", "move", "away"}
                  => \E f \in E : f.refresh
               /\ k = "niri" /\ x.what = "open" => \E f \in E : f.adds = x.w
               /\ k # "mango" /\ x.what = "close" => \E f \in E : f.closes = x.w
               /\ k # "mango" /\ x.what \in {"open", "close", "focus", "away"} => \E f \in E : f.focus = x.to.focus
               /\ k = "hyprland" /\ x.what = "float" => \E f \in E : f.floats = x.w
<1> DEFINE d == x.to
           w == x.w
           what == x.what
           L == Lines(k, what, w, d)
           T == Telling(k, what, w, d)
           E == Tells(k, x)
           M(l) == LineEffect(k, l)
<1>1. /\ d \in Compositors /\ what \in Changing \union {"close", "switch", "plug", "blur"}
      /\ what \in Changing => w \in DOMAIN d.wins
      /\ w \in Win \union {None} /\ None \notin Win /\ 1 \in Workspaces
  BY ChangesLead DEF CacheAssumption
<1>2. L \in Seq(Said(k))
  BY <1>1, LinesSaid
<1>3. Among(L) = T
  BY <1>1, LinesTell
<1>4. T \subseteq Said(k)
  BY <1>2, <1>3 DEF Among
<1>5. /\ \A f \in E : \E l \in T : f = M(l)
      /\ \A l \in T : M(l) \in E
  BY <1>3 DEF Tells
<1>6. \A l \in T : M(l) = EffectOf(EventOf(k, l)) /\ M(l) \in Effect
  BY <1>4, LineIsEffect
<1>7. what \in {"focus", "blur"} => w = d.focus
  BY <1>1, ChangesDo
<1>8. d.focus \in DOMAIN d.wins \union {None}
  BY <1>1, CompositorIs
<1> HIDE DEF L, T, E, M
<1>9. CASE k = "hyprland"
  <2>1. /\ \A l \in T : /\ l.comp = d
                        /\ l.ev = "closewindow" => what = "close" /\ l.w = w
                        /\ l.ev = "activewindowv2" => l.w = d.focus
                        /\ l.ev = "changefloatingmode" => what = "float" /\ l.w = w
        /\ what \in {"open", "full", "move", "away", "switch", "plug"} =>
             \E l \in T : l.ev \in {"openwindow", "fullscreen", "movewindow", "workspace", "monitoradded"}
        /\ what = "close" => \E l \in T : l.ev = "closewindow" /\ l.w = w
        /\ what \in {"open", "close", "focus", "blur", "away", "switch"} => \E l \in T : l.ev = "activewindowv2" /\ l.w = d.focus
        /\ what = "float" => \E l \in T : l.ev = "changefloatingmode" /\ l.w = w
    BY <1>1, <1>9, HyprlandTells DEF T
  <2>2. \A l \in T : /\ l.ev \in Names("hyprland")
                     /\ l.ev \in {"openwindow", "fullscreen", "movewindow", "workspace", "monitoradded"} => Refresh(M(l))
                     /\ l.ev = "closewindow" => Update(M(l), l.w, None, None, None)
                     /\ l.ev \in {"activewindow", "windowtitle"} => Update(M(l), None, None, None, None)
                     /\ l.ev = "activewindowv2" => Update(M(l), None, None, l.w, None)
                     /\ l.ev = "changefloatingmode" =>
                          Update(M(l), None, None, None, l.w) /\ M(l).on = l.comp.wins[l.w].floating
    <3> TAKE l \in T
    <3>1. l \in Said("hyprland") /\ M(l) = EffectOf(HyprlandEvent(l))
      BY <1>4, <1>6, <1>9 DEF EventOf
    <3> QED
      BY <3>1, HyprlandSays DEF Said
  <2>3. \A l \in T : Fits(k, x, M(l))
    <3> TAKE l \in T
    <3>1. \/ l.ev \in {"openwindow", "fullscreen", "movewindow", "workspace", "monitoradded"}
          \/ l.ev \in {"activewindow", "windowtitle"}
          \/ l.ev = "closewindow" \/ l.ev = "activewindowv2" \/ l.ev = "changefloatingmode"
      BY <2>2 DEF Names
    <3> QED
      BY <2>1, <2>2, <3>1 DEF Fits, Refresh, Update
  <2>4. what \in {"open", "full", "move", "away", "switch", "plug"} => \E l \in T : M(l).refresh
    BY <2>1, <2>2 DEF Refresh
  <2>5. what = "close" => \E l \in T : M(l).closes = w
    BY <2>1, <2>2 DEF Update
  <2>6. what \in {"open", "close", "focus", "away"} => \E l \in T : M(l).focus = d.focus
    BY <2>1, <2>2 DEF Update
  <2>7. what = "float" => \E l \in T : M(l).floats = w
    BY <2>1, <2>2 DEF Update
  <2> QED
    BY <1>5, <1>6, <1>9, <2>3, <2>4, <2>5, <2>6, <2>7 DEF E
<1>10. CASE k = "niri"
  <2>1. /\ \A l \in T : /\ l.comp = d
                        /\ l.ev = "WindowClosed" => what = "close" /\ l.w = w
                        /\ l.ev = "WindowFocusChanged" => l.w = d.focus
                        /\ l.ev = "WindowOpenedOrChanged" => what \in Changing /\ l.w = w
        /\ what \in {"switch", "plug"} => \E l \in T : l.ev \in {"WorkspacesChanged", "WorkspaceActivated"}
        /\ what = "open"  => \E l \in T : l.ev = "WindowOpenedOrChanged" /\ l.w = w
        /\ what = "close" => \E l \in T : l.ev = "WindowClosed" /\ l.w = w
        /\ what \in {"open", "close", "focus", "blur", "away", "switch"} => \E l \in T : l.ev = "WindowFocusChanged" /\ l.w = d.focus
    BY <1>1, <1>7, <1>10, NiriTells DEF T
  <2>2. \A l \in T : /\ l.ev \in Names("niri")
                     /\ l.ev \in {"WorkspacesChanged", "WorkspaceActivated", "WindowsChanged"} => Refresh(M(l))
                     /\ l.ev = "WindowOpenedOrChanged" =>
                          Update(M(l), None, l.w, IF l.comp.focus = l.w THEN l.w ELSE None, None)
                     /\ l.ev = "WindowClosed" => Update(M(l), l.w, None, None, None)
                     /\ l.ev = "WindowFocusChanged" => Update(M(l), None, None, l.w, None)
                     /\ l.ev = "WindowLayoutsChanged" => Update(M(l), None, None, None, None)
    <3> TAKE l \in T
    <3> DEFINE s == [v \in Win |-> None]
               e == NiriEvent(l, s, FALSE)
    <3>1. l \in Said("niri") /\ M(l) = EffectOf(e)
      BY <1>4, <1>6, <1>10 DEF EventOf
    <3>2. s \in [Win -> BOOLEAN \union {None}]
      OBVIOUS
    <3>3. l.ev \in Names("niri")
      BY <3>1 DEF Said
    <3> HIDE DEF s
    <3>4. LET f == EffectOf(e)
          IN  /\ l.ev \in {"WorkspacesChanged", "WorkspaceActivated", "WindowsChanged"} => Refresh(f)
              /\ l.ev = "WindowOpenedOrChanged" =>
                   Update(f, None, l.w, IF l.comp.focus = l.w THEN l.w ELSE None, None)
              /\ l.ev = "WindowClosed" => Update(f, l.w, None, None, None)
              /\ l.ev = "WindowFocusChanged" => Update(f, None, None, l.w, None)
              /\ l.ev = "WindowLayoutsChanged" => Update(f, None, None, None, None)
      BY <3>1, <3>2, NiriSays
    <3> QED
      BY <3>1, <3>3, <3>4
  <2>3. \A l \in T : Fits(k, x, M(l))
    <3> TAKE l \in T
    <3>1. \/ l.ev \in {"WorkspacesChanged", "WorkspaceActivated", "WindowsChanged"}
          \/ l.ev = "WindowOpenedOrChanged" \/ l.ev = "WindowLayoutsChanged"
          \/ l.ev = "WindowClosed" \/ l.ev = "WindowFocusChanged"
      BY <2>2 DEF Names
    <3>2. CASE l.ev = "WindowOpenedOrChanged"
      BY <1>1, <2>1, <2>2, <3>2 DEF Fits, Update
    <3> QED
      BY <2>1, <2>2, <3>1, <3>2 DEF Fits, Refresh, Update
  <2>4. what \in {"switch", "plug"} => \E l \in T : M(l).refresh
    BY <2>1, <2>2 DEF Refresh
  <2>5. what = "close" => \E l \in T : M(l).closes = w
    BY <2>1, <2>2 DEF Update
  <2>6. what \in {"open", "close", "focus", "away"} => \E l \in T : M(l).focus = d.focus
    BY <2>1, <2>2 DEF Update
  <2>7. what = "open" => \E l \in T : M(l).adds = w
    BY <2>1, <2>2 DEF Update
  <2> QED
    BY <1>5, <1>6, <1>10, <2>3, <2>4, <2>5, <2>6, <2>7 DEF E
<1>11. CASE k = "mango"
  <2>1. /\ \A l \in T : l.comp = d /\ (l.ev = "focusing-client" => l.w = d.focus)
        /\ what \notin {"focus", "blur"} => \E l \in T : l.ev # "focusing-client"
    BY <1>1, <1>11, MangoTells DEF T
  <2>2. \A l \in T : /\ l.ev # "focusing-client" => Refresh(M(l))
                     /\ l.ev = "focusing-client" => Update(M(l), None, l.w, None, None)
    <3> TAKE l \in T
    <3>1. l \in Said("mango") /\ M(l) = EffectOf(MangoEvent(l))
      BY <1>4, <1>6, <1>11 DEF EventOf
    <3> QED
      BY <3>1, MangoSays
  <2>3. \A l \in T : Fits(k, x, M(l))
    BY <1>8, <1>11, <2>1, <2>2 DEF Fits, Refresh, Update
  <2>4. what \notin {"focus", "blur"} => \E l \in T : M(l).refresh
    BY <2>1, <2>2 DEF Refresh
  <2> QED
    BY <1>5, <1>6, <1>11, <2>3, <2>4 DEF E
<1> QED
  BY <1>9, <1>10, <1>11 DEF Kinds

\* The lines of a change spoil nothing, and what it makes the cache wrong
\* about they mend.
LEMMA TellingSpoilsNothing ==
    ASSUME CacheAssumption, NEW k \in Kinds, NEW c \in Compositors, NEW x \in Changes(c),
           NEW t \in Topics(k), NEW v \in Win
    PROVE  \A f \in Tells(k, x) : f \notin Spoils(k, x.to, t, v)
<1>1. /\ x.to \in Compositors /\ x.w \in Win \union {None} /\ None \notin Win
      /\ x.what = "close" => x.w \notin DOMAIN x.to.wins
  BY ChangesLead, ChangesDo DEF CacheAssumption
<1>2. x.to.focus \in DOMAIN x.to.wins \union {None} /\ DOMAIN x.to.wins \subseteq Win
  BY <1>1, CompositorIs
<1>3. t = "focus" => k # "mango"
  BY DEF Topics
<1>4. SUFFICES ASSUME NEW f \in Effect, Fits(k, x, f), f \in Spoils(k, x.to, t, v) PROVE FALSE
  BY ChangeTells
<1>5. ~f.refresh
  BY <1>4 DEF Spoils
<1>6. CASE t = "open"
  BY <1>1, <1>4, <1>5, <1>6 DEF Spoils, Fits
<1>7. CASE t = "float"
  BY <1>1, <1>4, <1>5, <1>7 DEF Spoils, Fits
<1>8. CASE t = "focus"
  BY <1>1, <1>3, <1>4, <1>5, <1>8 DEF Spoils, Fits
<1> QED
  BY <1>4, <1>6, <1>7, <1>8 DEF Spoils

\* A change is mended by one of its lines, or spoils nothing that was right
\* or about to be.
LEMMA StillMends ==
    ASSUME CacheAssumption, NEW k \in Kinds, NEW c \in Compositors, NEW x \in Changes(c),
           NEW t \in Topics(k), NEW v \in Win
    PROVE  \/ \E f \in Tells(k, x) : f \in Mends(k, x.to, t, v)
           \/ /\ Mends(k, c, t, v) \subseteq Mends(k, x.to, t, v)
              /\ Spoils(k, x.to, t, v) \subseteq Spoils(k, c, t, v)
              /\ \A ws : Right(k, c, ws, t, v) => Right(k, x.to, ws, t, v)
<1> DEFINE d == x.to
           w == x.w
           E == Tells(k, x)
           Still == /\ Mends(k, c, t, v) \subseteq Mends(k, d, t, v)
                    /\ Spoils(k, d, t, v) \subseteq Spoils(k, c, t, v)
                    /\ \A ws : Right(k, c, ws, t, v) => Right(k, d, ws, t, v)
           Kept == \A y \in DOMAIN d.wins : y # w => y \in DOMAIN c.wins /\ d.wins[y] = c.wins[y]
           Same == DOMAIN d.wins = DOMAIN c.wins
           Opens  == x.what = "open" /\ DOMAIN d.wins = DOMAIN c.wins \union {w} /\ Kept /\ d.focus = w
           Closes == /\ x.what = "close" /\ DOMAIN d.wins = DOMAIN c.wins \ {w} /\ Kept
                     /\ d.focus # c.focus => c.focus = w
                     /\ d.focus # w /\ w \in DOMAIN c.wins
           Focuses == x.what = "focus" /\ d.wins = c.wins /\ d.focus = w /\ w \in DOMAIN c.wins
           Alters == /\ x.what \in {"title", "float", "full", "move"} /\ Same /\ Kept /\ w \in DOMAIN c.wins
                     /\ x.what = "title" \/ d.wins[w].title = c.wins[w].title
                     /\ x.what = "float" \/ d.wins[w].floating = c.wins[w].floating
                     /\ x.what = "full"  \/ d.wins[w].full = c.wins[w].full
                     /\ x.what = "move"  \/ d.wins[w].ws = c.wins[w].ws
                     /\ d.focus = c.focus
           Blurs == x.what = "blur" /\ d.wins = c.wins /\ d.focus = None
           Leaves == /\ x.what = "away" /\ Same /\ Kept /\ w \in DOMAIN c.wins
                     /\ d.wins[w].floating = c.wins[w].floating
           Switches == x.what = "switch" /\ d.wins = c.wins
           Plugs    == x.what = "plug" /\ d.wins = c.wins /\ d.focus = c.focus
<1>1. /\ Opens \/ Closes \/ Focuses \/ Alters \/ Blurs \/ Leaves \/ Switches \/ Plugs
      /\ None \notin Win
  BY ChangesDo DEF CacheAssumption
<1>2. DOMAIN c.wins \subseteq Win /\ DOMAIN d.wins \subseteq Win
  BY CompositorIs, ChangesLead DEF CacheAssumption
<1>3. /\ \A f \in E : f \in Effect
      /\ \/ k = "mango" /\ x.what \notin {"focus", "blur"}
         \/ x.what \in {"switch", "plug"}
         \/ k = "hyprland" /\ x.what \in {"open", "full", "move", "away"}
         => \E f \in E : f.refresh
      /\ k = "niri" /\ x.what = "open" => \E f \in E : f.adds = w
      /\ k # "mango" /\ x.what = "close" => \E f \in E : f.closes = w
      /\ k # "mango" /\ x.what \in {"open", "close", "focus", "away"} => \E f \in E : f.focus = d.focus
      /\ k = "hyprland" /\ x.what = "float" => \E f \in E : f.floats = w
  BY ChangeTells
<1>4. (\E f \in E : f.refresh) => \E f \in E : f \in Mends(k, d, t, v)
  BY <1>3 DEF Mends
<1>5. /\ t = "float" => k = "hyprland"
      /\ t = "focus" => k # "mango"
      /\ t \in {"open", "attributes", "float", "focus"}
  BY DEF Topics
<1> SUFFICES ASSUME ~\E f \in E : f.refresh PROVE (\E f \in E : f \in Mends(k, d, t, v)) \/ Still
  BY <1>4
<1>6. /\ ~Switches /\ ~Plugs
      /\ k = "mango" => Focuses \/ Blurs
      /\ k = "hyprland" => x.what \notin {"open", "full", "move", "away"}
  BY <1>1, <1>3
<1> HIDE DEF d, E
<1>7. CASE t = "open"
  <2>1. CASE v \in DOMAIN d.wins <=> v \in DOMAIN c.wins
    BY <1>7, <2>1 DEF Mends, Spoils, Right
  <2>2. CASE v \in DOMAIN d.wins /\ v \notin DOMAIN c.wins
    <3>1. Opens /\ v = w /\ k = "niri"
      BY <1>1, <1>6, <2>2 DEF Kinds
    <3>2. \E f \in E : f.adds = v
      BY <1>3, <3>1
    <3> QED
      BY <1>3, <1>7, <2>2, <3>1, <3>2 DEF Mends
  <2>3. CASE v \notin DOMAIN d.wins /\ v \in DOMAIN c.wins
    <3>1. Closes /\ v = w /\ k # "mango"
      BY <1>1, <1>6, <2>3
    <3>2. \E f \in E : f.closes = v
      BY <1>3, <3>1
    <3> QED
      BY <1>3, <1>7, <2>3, <3>1, <3>2 DEF Mends
  <2> QED
    BY <2>1, <2>2, <2>3
<1>8. CASE t = "attributes"
  <2>1. Mends(k, c, t, v) = Mends(k, d, t, v) /\ Spoils(k, d, t, v) = Spoils(k, c, t, v)
    BY <1>8 DEF Mends, Spoils
  <2>2. CASE k = "niri"
    <3>1. \A y, z : Brought(k, y, z)
      BY <2>2 DEF Brought
    <3> QED
      BY <1>8, <2>1, <3>1 DEF Right
  <2>3. CASE k # "niri"
    <3>1. \A ws : v \in DOMAIN d.wins => v \in DOMAIN c.wins
      BY <1>1, <1>6, <2>3 DEF Kinds
    <3>2. ASSUME NEW y, v \in DOMAIN d.wins, Brought(k, y, c.wins[v]) PROVE Brought(k, y, d.wins[v])
      <4>1. k = "mango" => d.wins[v] = c.wins[v]
        BY <1>6
      <4>2. (d.wins[v].ws = c.wins[v].ws /\ d.wins[v].full = c.wins[v].full) \/ k = "mango"
        BY <1>1, <1>6, <2>3, <3>2 DEF Kinds
      <4> QED
        BY <3>2, <4>1, <4>2 DEF Brought
    <3> QED
      BY <1>8, <2>1, <3>1, <3>2 DEF Right
  <2> QED
    BY <2>2, <2>3
<1>9. CASE t = "float"
  <2>1. Mends(k, c, t, v) = Mends(k, d, t, v)
    BY <1>9 DEF Mends
  <2>2. CASE x.what = "float" /\ v = w
    BY <1>3, <1>5, <1>9, <2>2 DEF Mends
  <2>3. CASE ~(x.what = "float" /\ v = w)
    <3>1. v \in DOMAIN d.wins => v \in DOMAIN c.wins /\ d.wins[v].floating = c.wins[v].floating
      BY <1>1, <1>5, <1>6, <1>9, <2>3
    <3>2. Spoils(k, d, t, v) \subseteq Spoils(k, c, t, v)
      BY <1>9, <3>1 DEF Spoils
    <3>3. \A ws : Right(k, c, ws, t, v) => Right(k, d, ws, t, v)
      BY <1>9, <3>1 DEF Right
    <3> QED
      BY <2>1, <3>2, <3>3
  <2> QED
    BY <2>2, <2>3
<1>10. CASE t = "focus"
  <2>1. CASE d.focus = c.focus
    BY <1>10, <2>1 DEF Mends, Spoils, Right
  <2>2. CASE d.focus # c.focus /\ d.focus # None
    <3>1. \E f \in E : f.focus = d.focus
      <4>1. Opens \/ Closes \/ Focuses \/ Leaves
        BY <1>1, <1>6, <2>2
      <4> QED
        BY <1>3, <1>5, <1>10, <4>1
    <3> QED
      BY <1>3, <1>10, <2>2, <3>1 DEF Mends
  <2>3. CASE d.focus = None
    BY <1>10, <2>3 DEF Mends, Spoils, Right
  <2> QED
    BY <2>1, <2>2, <2>3
<1> QED
  BY <1>5, <1>7, <1>8, <1>9, <1>10 DEF d, E

\* A change of the active workspace or of the monitors is told by a refresh.
LEMMA RefreshTold ==
    ASSUME CacheAssumption, NEW k \in Kinds, NEW c \in Compositors, NEW x \in Changes(c)
    PROVE  (x.to.active = c.active /\ x.to.mons = c.mons) \/ \E f \in Tells(k, x) : f \in Refreshes
<1>1. (x.to.active = c.active /\ x.to.mons = c.mons) \/ x.what \in {"switch", "plug"}
  BY ChangesDo DEF CacheAssumption
<1>2. x.what \in {"switch", "plug"} => \E f \in Tells(k, x) : f.refresh
  BY ChangeTells
<1> QED
  BY <1>1, <1>2, ChangeTells DEF Refreshes
----------------------------------------------------------------------------
(* The steps of the decoder. *)

\* An effect that does nothing, and one that may stand in for another.
Idle(g) == g \in Effect /\ Update(g, None, None, None, None)
Serves(f, g) == f \in Effect /\ (f = g \/ (f.refresh /\ Idle(g)))

\* An idle effect neither mends nor spoils.
LEMMA IdleIs ==
    ASSUME None \notin Win, NEW g, Idle(g), NEW k, NEW c, NEW t, NEW w \in Win
    PROVE  g \notin Mends(k, c, t, w) /\ g \notin Spoils(k, c, t, w) /\ g \notin Refreshes
BY DEF Idle, Update, Mends, Spoils, Refreshes

\* An effect that serves for another spoils no more and mends no less.
LEMMA ServesIs ==
    ASSUME None \notin Win, NEW f, NEW g, Serves(f, g), NEW k, NEW c, NEW t, NEW w \in Win
    PROVE  /\ f \in Spoils(k, c, t, w) => g \in Spoils(k, c, t, w)
           /\ g \in Mends(k, c, t, w) => f \in Mends(k, c, t, w)
           /\ g \in Refreshes => f \in Refreshes
<1>1. CASE f = g
  BY <1>1
<1>2. CASE f \in Effect /\ f.refresh /\ Idle(g)
  <2>1. f \notin Spoils(k, c, t, w)
    BY <1>2 DEF Spoils
  <2>2. g \notin Mends(k, c, t, w) /\ g \notin Refreshes
    BY <1>2, IdleIs
  <2> QED
    BY <2>1, <2>2
<1> QED
  BY <1>1, <1>2 DEF Serves

\* Two effects with the same fields are one.
LEMMA SameEffect ==
    ASSUME NEW f \in Effect, NEW g \in Effect, f.on = g.on
    PROVE  /\ \A a, b, c, d : Update(f, a, b, c, d) /\ Update(g, a, b, c, d) => f = g
           /\ Refresh(f) /\ Refresh(g) => f = g
<1>1. /\ f = [refresh |-> f.refresh, closes |-> f.closes, adds |-> f.adds, focus |-> f.focus,
              floats |-> f.floats, on |-> f.on]
      /\ g = [refresh |-> g.refresh, closes |-> g.closes, adds |-> g.adds, focus |-> g.focus,
              floats |-> g.floats, on |-> g.on]
      /\ f.refresh \in BOOLEAN /\ g.refresh \in BOOLEAN
  BY DEF Effect
<1>2. (f.refresh <=> g.refresh) => f.refresh = g.refresh
  BY <1>1
<1>3. ASSUME NEW a, NEW b, NEW c, NEW d, Update(f, a, b, c, d), Update(g, a, b, c, d) PROVE f = g
  BY <1>1, <1>2, <1>3 DEF Update
<1>4. ASSUME Refresh(f), Refresh(g) PROVE f = g
  BY <1>1, <1>2, <1>4 DEF Refresh
<1> QED
  BY <1>3, <1>4

\* Whatever niri's caches hold, the event of a line serves for the line.
LEMMA NiriServes ==
    ASSUME CacheAssumption, NEW l \in Said("niri"), NEW s \in [Win -> BOOLEAN \union {None}], NEW k \in BOOLEAN
    PROVE  Serves(EffectOf(NiriEvent(l, s, k)), LineEffect("niri", l))
<1> DEFINE f == EffectOf(NiriEvent(l, s, k))
           z == [v \in Win |-> None]
           g == EffectOf(NiriEvent(l, z, FALSE))
           Z == IF l.comp.focus = l.w THEN l.w ELSE None
           Tell(h) ==
               /\ h \in Effect /\ h.on = None
               /\ l.ev \in {"WorkspacesChanged", "WorkspaceActivated", "WindowsChanged"} => Refresh(h)
               /\ l.ev = "WindowOpenedOrChanged" => Update(h, None, l.w, Z, None)
               /\ l.ev = "WindowClosed" => Update(h, l.w, None, None, None)
               /\ l.ev = "WindowFocusChanged" => Update(h, None, None, l.w, None)
<1>1. LineEffect("niri", l) = g
  BY LineIsEffect DEF EventOf, Kinds
<1>2. z \in [Win -> BOOLEAN \union {None}]
  OBVIOUS
<1>3. Tell(f) /\ (l.ev = "WindowLayoutsChanged" => Refresh(f) \/ Update(f, None, None, None, None))
  BY NiriSays
<1> HIDE DEF z
<1>4. Tell(g) /\ (l.ev = "WindowLayoutsChanged" => Update(g, None, None, None, None))
  BY <1>2, NiriSays
<1> HIDE DEF f, g, Z
<1>5. l.ev \in Names("niri")
  BY DEF Said
<1>6. Serves(f, g)
  <2>1. CASE l.ev = "WindowLayoutsChanged" /\ Refresh(f)
    BY <1>3, <1>4, <2>1 DEF Serves, Idle, Refresh
  <2>2. CASE l.ev = "WindowLayoutsChanged" /\ Update(f, None, None, None, None)
    <3>1. f = g
      BY <1>3, <1>4, <2>2, SameEffect
    <3> QED
      BY <1>3, <3>1 DEF Serves
  <2>3. CASE l.ev # "WindowLayoutsChanged"
    <3>1. f = g
      <4>1. f \in Effect /\ g \in Effect /\ f.on = g.on
        BY <1>3, <1>4
      <4>2. CASE l.ev \in {"WorkspacesChanged", "WorkspaceActivated", "WindowsChanged"}
        BY <1>3, <1>4, <4>1, <4>2, SameEffect
      <4>3. CASE l.ev = "WindowOpenedOrChanged"
        BY <1>3, <1>4, <4>1, <4>3, SameEffect
      <4>4. CASE l.ev = "WindowClosed"
        BY <1>3, <1>4, <4>1, <4>4, SameEffect
      <4>5. CASE l.ev = "WindowFocusChanged"
        BY <1>3, <1>4, <4>1, <4>5, SameEffect
      <4> QED
        BY <1>5, <2>3, <4>2, <4>3, <4>4, <4>5 DEF Names
    <3> QED
      BY <1>3, <3>1 DEF Serves
  <2> QED
    BY <1>3, <2>1, <2>2, <2>3
<1> QED
  BY <1>1, <1>6 DEF f

\* The events of the channel and the one that is handled, in their order.
LEMMA AheadIs ==
    ASSUME StateOK, StreamOK
    PROVE  /\ channel \in Seq(Events) /\ Ahead \in Seq(Events) /\ event \in Events
           /\ \A e \in Events : (IF pc = "handle" THEN <<event>> \o Append(channel, e) ELSE Append(channel, e))
                             = Append(Ahead, e)
<1>1. event \in Events
  BY DEF StreamOK, Events
<1>2. Decoded \union Values({"closed"}) \subseteq Events
  BY DEF Decoded, Values, Events
<1>3. channel \in Seq(Events)
  BY <1>2, SeqMonotonic DEF StreamOK
<1>4. Ahead \in Seq(Events)
  BY <1>1, <1>3 DEF Ahead
<1>5. \A e \in Events : <<event>> \o Append(channel, e) = Append(<<event>> \o channel, e)
  BY <1>1, <1>3
<1> QED
  BY <1>1, <1>3, <1>4, <1>5 DEF Ahead

\* The decoder reads a line: an event that serves for it is ahead, or the
\* line had no effect, or an event is lost.
LEMMA DecodeServes ==
    ASSUME CacheAssumption, StateOK, StreamOK, PlainStream, Decode
    PROVE  /\ wire # << >> /\ wire' = Tail(wire) /\ wire \in Seq(LinesOf(kind))
           /\ UNCHANGED <<kind, comp, windows, spaces, monitors, intact>>
           /\ (UNCHANGED <<pc, event>>) \/ (pc = "receive" /\ pc' = "handle" /\ kind = "hyprland" /\ Plain(kind, event'))
           /\ \/ lost' = "dropped" /\ UNCHANGED channel
              \/ /\ lost' = lost
                 /\ \/ UNCHANGED <<pc, event, channel>> /\ Ahead' = Ahead /\ Idle(LineEffect(kind, Head(wire)))
                    \/ \E e \in Events :
                         /\ Ahead' = Append(Ahead, e) /\ Serves(EffectOf(e), LineEffect(kind, Head(wire)))
                         /\ \/ UNCHANGED channel
                            \/ e.type = "closed" /\ Head(wire).ev = "eof" /\ Plain(kind, e) /\ channel' = Append(channel, e)
                            \/ kind # "hyprland" /\ Plain(kind, e) /\ e.type # "closed" /\ channel' = Append(channel, e)
<1> DEFINE l == Head(wire)
           g == LineEffect(kind, l)
<1>1. /\ wire # << >> /\ wire' = Tail(wire) /\ wire \in Seq(LinesOf(kind))
      /\ UNCHANGED <<kind, comp, windows, spaces, monitors, intact>>
      /\ kind \in Kinds /\ None \notin Win
  BY DEF Decode, StreamOK, StateOK, LinesOf, cacheVars, CacheAssumption
<1>2. /\ l.ev # "eof" => l \in Said(kind)
      /\ \A i \in 1..Len(channel) : channel[i].type # "closed"
  BY <1>1, LineRead
<1>3. /\ channel \in Seq(Events) /\ Ahead \in Seq(Events) /\ event \in Events
      /\ \A e \in Events : (IF pc = "handle" THEN <<event>> \o Append(channel, e) ELSE Append(channel, e)) = Append(Ahead, e)
  BY AheadIs
<1>4. ASSUME NEW e \in Events, UNCHANGED <<pc, event>>, channel' = Append(channel, e) PROVE Ahead' = Append(Ahead, e)
  <2>1. Ahead' = IF pc = "handle" THEN <<event>> \o Append(channel, e) ELSE Append(channel, e)
    BY <1>4 DEF Ahead
  <2> QED
    BY <1>3, <2>1
<1>5. CASE l.ev = "eof"
  <2> DEFINE e == Event("closed")
  <2>1. UNCHANGED <<pc, event, lost>> /\ channel' = Append(channel, e)
    BY <1>5 DEF Decode, DecodeEnd
  <2>2. e \in Events
    BY DEF Event, Values, Events
  <2>3. e.type = "closed" /\ e.address = None /\ e.floating = None /\ e.win = None
    BY DEF Event
  <2>4. e.type \notin Refreshing \union Updating
    BY <2>3 DEF Refreshing, Updating
  <2> HIDE DEF e
  <2>5. EffectOf(e) = Nothing
    <3>1. Idle(EffectOf(e)) /\ EffectOf(e).on = None
      BY <2>2, <2>3, <2>4, EffectFields, EffectMade DEF Idle, Update, Updating, Events
    <3>2. Nothing \in Effect /\ Nothing.on = None /\ Update(Nothing, None, None, None, None)
      BY DEF Nothing, Effect, Update
    <3> QED
      BY <3>1, <3>2, SameEffect DEF Idle
  <2>6. Serves(EffectOf(e), g)
    BY <1>1, <1>5, <2>2, <2>5, EffectMade DEF Serves, LineEffect, Events
  <2>7. Plain(kind, e)
    BY <1>1, <2>3, <2>4 DEF Plain, Updating, Kinds
  <2> QED
    BY <1>1, <1>4, <1>5, <2>1, <2>2, <2>3, <2>6, <2>7
<1>6. CASE l.ev # "eof" /\ kind = "hyprland"
  <2> DEFINE e == HyprlandEvent(l)
  <2>1. pc = "receive" /\ pc' = "handle" /\ event' = e /\ UNCHANGED <<channel, lost>>
    BY <1>6 DEF Decode, DecodeHyprland
  <2>2. channel = << >>
    <3>1. \A i \in 1..Len(channel) : channel[i].type = "closed"
      BY <1>6 DEF PlainStream
    <3> QED
      BY <1>2, <1>3, <3>1
  <2>3. l \in Said("hyprland") /\ l \in Said(kind)
    BY <1>2, <1>6
  <2>4. e \in Events /\ Plain(kind, e) /\ EffectOf(e) \in Effect
    BY <1>6, <2>3, HyprlandDecoded, HyprlandSays, DecodedIs DEF Events
  <2>5. g = EffectOf(e)
    BY <1>1, <1>6, <2>3, LineIsEffect DEF EventOf
  <2> HIDE DEF e
  <2>6. Ahead' = Append(Ahead, e)
    BY <2>1, <2>2, <2>4 DEF Ahead
  <2> QED
    BY <1>1, <1>6, <2>1, <2>4, <2>5, <2>6 DEF Serves
<1>7. ASSUME l.ev # "eof", kind # "hyprland", NEW e \in Decoded, Plain(kind, e), Offer(e),
             Serves(EffectOf(e), g)
      PROVE  /\ UNCHANGED <<pc, event>>
             /\ \/ lost' = "dropped" /\ UNCHANGED channel
                \/ lost' = lost /\ UNCHANGED <<pc, event, channel>> /\ Ahead' = Ahead /\ Idle(g)
                \/ /\ lost' = lost /\ e \in Events /\ Ahead' = Append(Ahead, e)
                   /\ e.type # "closed" /\ channel' = Append(channel, e)
  <2>1. e \in Events /\ e.type # "closed"
    BY <1>7, DecodedIs DEF Events
  <2>2. UNCHANGED <<pc, event>>
    BY <1>7 DEF Offer
  <2>3. CASE Silent(kind, e)
    <3>1. UNCHANGED <<channel, lost>>
      BY <1>7, <2>3 DEF Offer
    <3>2. Ahead' = Ahead
      BY <2>2, <3>1 DEF Ahead
    <3>3. e.type = "" /\ e.floating = None
      BY <1>7, <2>3 DEF Silent, Plain
    <3>4. Update(EffectOf(e), None, None, None, None)
      BY <3>3, NoType
    <3>5. Idle(g)
      BY <1>7, <3>4 DEF Serves, Update, Idle
    <3> QED
      BY <2>2, <3>1, <3>2, <3>5
  <2>4. CASE ~Silent(kind, e) /\ Len(channel) < Cap
    BY <1>4, <1>7, <2>1, <2>2, <2>4 DEF Offer
  <2>5. CASE ~Silent(kind, e) /\ ~(Len(channel) < Cap)
    BY <1>7, <2>2, <2>5 DEF Offer
  <2> QED
    BY <2>3, <2>4, <2>5
<1>8. CASE l.ev # "eof" /\ kind = "niri"
  <2> DEFINE e == NiriEvent(l, sizes, known)
  <2>1. Offer(e)
    BY <1>8 DEF Decode, DecodeNiri
  <2>2. l \in Said("niri") /\ sizes \in [Win -> BOOLEAN \union {None}] /\ known \in BOOLEAN
    BY <1>2, <1>8 DEF StateOK
  <2>3. e \in Decoded /\ Plain("niri", e) /\ Serves(EffectOf(e), LineEffect("niri", l))
    BY <2>2, NiriDecoded, NiriSays, NiriServes
  <2> HIDE DEF e
  <2> QED
    BY <1>1, <1>7, <1>8, <2>1, <2>3
<1>9. CASE l.ev # "eof" /\ kind = "mango"
  <2> DEFINE e == MangoEvent(l)
  <2>1. Offer(e)
    BY <1>9 DEF Decode
  <2>2. l \in Said("mango") /\ l \in Said(kind)
    BY <1>2, <1>9
  <2>3. e \in Decoded /\ Plain("mango", e) /\ EffectOf(e) \in Effect
    BY <2>2, MangoDecoded, MangoSays
  <2>4. g = EffectOf(e)
    BY <1>1, <1>9, <2>2, LineIsEffect DEF EventOf
  <2> HIDE DEF e
  <2> QED
    BY <1>1, <1>7, <1>9, <2>1, <2>3, <2>4 DEF Serves
<1> QED
  BY <1>1, <1>5, <1>6, <1>8, <1>9 DEF Kinds

\* What is to come mends as much after a line was read.
LEMMA DecodeMends ==
    ASSUME CacheAssumption, StateOK, StreamOK, PlainStream, Decode, lost' # "dropped", NEW B, NEW F,
           \A f, g : Serves(f, g) => (f \in B => g \in B) /\ (g \in F => f \in F),
           \A g : Idle(g) => g \notin F
    PROVE  (Mended(Pending, B, F) => Mended(Pending', B, F)) /\ (Comes(Pending, F) => Comes(Pending', F))
<1> DEFINE q == Effects(kind, Ahead, wire)
           r == Effects(kind, Ahead, Tail(wire))
           p(e) == Effects(kind, Append(Ahead, e), Tail(wire))
           a == Len(Ahead)
           n == a + Len(Tail(wire))
           l == LineEffect(kind, Head(wire))
<1>1. /\ wire # << >> /\ wire' = Tail(wire) /\ wire \in Seq(LinesOf(kind)) /\ kind' = kind
      /\ \/ Ahead' = Ahead /\ Idle(l)
         \/ \E e \in Events : Ahead' = Append(Ahead, e) /\ Serves(EffectOf(e), l)
  BY DecodeServes
<1>2. Ahead \in Seq(Events) /\ event \in Events
  BY AheadIs
<1>3. \A e \in Events : /\ a \in Nat /\ n \in Nat /\ a \in 0..n
                        /\ DOMAIN q = 1..n + 1 /\ DOMAIN p(e) = 1..n + 1 /\ DOMAIN r = 1..n
                        /\ q[a + 1] = l /\ p(e)[a + 1] = EffectOf(e)
                        /\ \A i \in 1..n + 1 : i # a + 1 => p(e)[i] = q[i]
                        /\ \A i \in 1..n : r[i] = IF i <= a THEN q[i] ELSE q[i + 1]
  BY <1>1, <1>2, LineEffects
<1>4. CASE Ahead' = Ahead /\ Idle(l)
  <2>1. /\ a \in Nat /\ n \in Nat /\ a \in 0..n /\ DOMAIN q = 1..n + 1 /\ DOMAIN r = 1..n
        /\ q[a + 1] = l /\ \A i \in 1..n : r[i] = IF i <= a THEN q[i] ELSE q[i + 1]
    BY <1>2, <1>3
  <2>2. l \notin F
    BY <1>4
  <2>3. Pending = q /\ Pending' = r
    BY <1>1, <1>4 DEF Pending
  <2> HIDE DEF q, r, a, n, l
  <2>4. (Mended(q, B, F) => Mended(r, B, F)) /\ (Comes(q, F) => Comes(r, F))
    BY ONLY <2>1, <2>2, Removed
  <2> QED
    BY <2>3, <2>4
<1>5. ASSUME NEW e \in Events, Ahead' = Append(Ahead, e), Serves(EffectOf(e), l)
      PROVE  (Mended(Pending, B, F) => Mended(Pending', B, F)) /\ (Comes(Pending, F) => Comes(Pending', F))
  <2> DEFINE pe == p(e)
  <2>1. /\ a \in Nat /\ n \in Nat /\ a \in 0..n /\ DOMAIN q = 1..n + 1 /\ DOMAIN pe = 1..n + 1
        /\ q[a + 1] = l /\ pe[a + 1] = EffectOf(e) /\ \A i \in 1..n + 1 : i # a + 1 => pe[i] = q[i]
    BY <1>3
  <2>2. Pending = q /\ Pending' = pe
    BY <1>1, <1>5 DEF Pending
  <2>3. (EffectOf(e) \in B => l \in B) /\ (l \in F => EffectOf(e) \in F)
    BY <1>5
  <2> HIDE DEF q, pe, a, n, l
  <2>4. \A i \in DOMAIN q : (pe[i] \in B => q[i] \in B) /\ (q[i] \in F => pe[i] \in F)
    BY <2>1, <2>3
  <2>5. (Mended(q, B, F) => Mended(pe, B, F)) /\ (Comes(q, F) => Comes(pe, F))
    BY <2>1, <2>4, Replaced
  <2> QED
    BY <2>2, <2>5
<1> QED
  BY <1>1, <1>4, <1>5

\* What the steps of the decoder keep.
LEMMA PlainKept ==
    ASSUME PlainStream, UNCHANGED <<kind, channel, changes>>, lost' \in {"no", "missed", "dropped"}, intact' \in BOOLEAN,
           pc' = "closed" => pc = "closed",
           pc' = "handle" => Plain(kind, event'),
           (\E i \in 1..Len(wire') : wire'[i].ev = "eof") => \E i \in 1..Len(wire) : wire[i].ev = "eof"
    PROVE  PlainStream'
BY DEF PlainStream

\* A query for the windows keeps the bookkeeping in its type.
LEMMA QueriedPlain ==
    ASSUME PlainStream, QueryWindows
    PROVE  lost' \in {"no", "missed", "dropped"} /\ intact' \in BOOLEAN
BY DEF PlainStream, QueryWindows, Missed

\* Every step keeps the stream's events plain.
LEMMA PlainStep ==
    ASSUME CacheAssumption, CacheInv, PlainStream, Next PROVE PlainStream'
<1> USE DEF CacheInv
<1>0. lost \in {"no", "missed", "dropped"} /\ intact \in BOOLEAN /\ (pc = "handle" => Plain(kind, event))
  BY DEF PlainStream
<1>1. CASE Start
  <2>1. UNCHANGED <<kind, channel, changes, wire>> /\ pc' = "active"
    BY <1>1 DEF Start
  <2>2. lost' \in {"no", "missed", "dropped"} /\ intact' \in BOOLEAN
    BY <1>1, QueriedPlain DEF Start
  <2> QED
    BY <2>1, <2>2, PlainKept
<1>2. CASE Subscribe
  <2>1. UNCHANGED <<kind, channel, changes, lost, intact>> /\ pc' = "receive" /\ wire' = Greeting(kind, comp)
    BY <1>2 DEF Subscribe, bounds
  <2>2. Greeting(kind, comp) \in Seq(Said(kind)) /\ kind \in Kinds
    BY GreetingSaid DEF StateOK
  <2>3. \A i \in 1..Len(wire') : wire'[i] \in Said(kind)
    <3> DEFINE G == Greeting(kind, comp)
    <3> HIDE DEF G
    <3>1. \A i \in 1..Len(G) : G[i] \in Said(kind)
      BY <2>2 DEF G
    <3> QED
      BY <2>1, <3>1 DEF G
  <2>4. \A i \in 1..Len(wire') : wire'[i].ev # "eof"
    BY <2>2, <2>3, NoEnd
  <2> QED
    BY <1>0, <2>1, <2>4, PlainKept
<1>3. CASE Receive
  <2> DEFINE C == Decoded \union Values({"closed"})
  <2>1. /\ channel \in Seq(C) /\ channel # << >> /\ event' = Head(channel) /\ channel' = Tail(channel)
        /\ UNCHANGED <<wire, kind, lost, intact, changes>> /\ pc' = IF event'.type = "closed" THEN "closed" ELSE "handle"
    BY <1>3 DEF Receive, StreamOK, bounds
  <2>2. /\ \A i \in 1..Len(Tail(channel)) : i + 1 \in 1..Len(channel) /\ Tail(channel)[i] = channel[i + 1]
        /\ 1 \in 1..Len(channel) /\ Head(channel) = channel[1]
    <3> HIDE DEF C
    <3> QED BY <2>1
  <2>3. /\ \A i \in 1..Len(channel) : Plain(kind, channel[i]) /\ (kind = "hyprland" => channel[i].type = "closed")
        /\ (pc = "closed" \/ (\E i \in 1..Len(channel) : channel[i].type = "closed")
              \/ (\E i \in 1..Len(wire) : wire[i].ev = "eof")) => changes = MaxChanges
    BY DEF PlainStream
  <2>4. \A i \in 1..Len(channel') : Plain(kind, channel'[i]) /\ (kind = "hyprland" => channel'[i].type = "closed")
    BY <2>1, <2>2, <2>3
  <2>5. Plain(kind, event')
    BY <2>1, <2>2, <2>3
  <2>6. (pc' = "closed" \/ (\E i \in 1..Len(channel') : channel'[i].type = "closed")
           \/ (\E i \in 1..Len(wire) : wire[i].ev = "eof")) => changes = MaxChanges
    BY <2>1, <2>2, <2>3
  <2> QED
    BY <1>0, <2>1, <2>4, <2>5, <2>6 DEF PlainStream
<1>4. CASE HandleRefresh
  <2>1. UNCHANGED <<kind, channel, changes, wire>> /\ pc' = "active"
    BY <1>4 DEF HandleRefresh
  <2>2. lost' \in {"no", "missed", "dropped"} /\ intact' \in BOOLEAN
    BY <1>4, QueriedPlain DEF HandleRefresh
  <2> QED
    BY <2>1, <2>2, PlainKept
<1>5. CASE HandleUpdate
  <2>1. UNCHANGED <<kind, channel, changes, wire, lost, intact>> /\ pc' = "receive"
    BY <1>5, Zenon DEF HandleUpdate, streamVars, bounds
  <2> QED
    BY <1>0, <2>1, PlainKept
<1>6. CASE QueryActiveWindow
  <2>1. /\ UNCHANGED <<kind, channel, changes, wire>> /\ pc' = "workspaces"
        /\ lost' \in {"no", "missed", "dropped"} /\ intact' \in BOOLEAN
    BY <1>0, <1>6 DEF QueryActiveWindow, streamVars, Missed
  <2> QED
    BY <2>1, PlainKept
<1>7. CASE QueryWorkspaces
  <2>1. /\ UNCHANGED <<kind, channel, changes, wire>> /\ pc' = "monitors"
        /\ lost' \in {"no", "missed", "dropped"} /\ intact' \in BOOLEAN
    BY <1>0, <1>7 DEF QueryWorkspaces, streamVars, Missed
  <2> QED
    BY <2>1, PlainKept
<1>8. CASE QueryMonitors
  <2>1. /\ UNCHANGED <<kind, channel, changes, wire>> /\ pc' \in {"subscribe", "receive"}
        /\ lost' \in {"no", "missed", "dropped"} /\ intact' \in BOOLEAN
    BY <1>0, <1>8 DEF QueryMonitors, streamVars, Missed
  <2> QED
    BY <2>1, PlainKept
<1>9. CASE Decode
  <2>1. /\ wire # << >> /\ wire' = Tail(wire) /\ wire \in Seq(LinesOf(kind))
        /\ UNCHANGED <<kind, intact>>
        /\ (UNCHANGED <<pc, event>>) \/ (pc = "receive" /\ pc' = "handle" /\ Plain(kind, event'))
        /\ lost' \in {lost, "dropped"}
        /\ \/ UNCHANGED channel
           \/ \E e \in Events : Head(wire).ev = "eof" /\ e.type = "closed" /\ Plain(kind, e) /\ channel' = Append(channel, e)
           \/ \E e \in Events : kind # "hyprland" /\ Plain(kind, e) /\ e.type # "closed" /\ channel' = Append(channel, e)
    BY <1>9, DecodeServes
  <2>2. changes' = changes
    BY <1>9 DEF Decode, bounds
  <2>3. /\ \A i \in 1..Len(Tail(wire)) : i + 1 \in 1..Len(wire) /\ Tail(wire)[i] = wire[i + 1]
        /\ 1 \in 1..Len(wire) /\ Head(wire) = wire[1]
    BY <2>1
  <2>4. (\E i \in 1..Len(wire') : wire'[i].ev = "eof") => \E i \in 1..Len(wire) : wire[i].ev = "eof"
    BY <2>1, <2>3
  <2>5. pc' = "handle" => Plain(kind, event')
    BY <1>0, <2>1
  <2>6. lost' \in {"no", "missed", "dropped"} /\ intact' \in BOOLEAN /\ (pc' = "closed" => pc = "closed")
    BY <1>0, <2>1
  <2>7. CASE UNCHANGED channel
    BY <2>1, <2>2, <2>4, <2>5, <2>6, <2>7, PlainKept
  <2>8. ASSUME NEW e \in Events, Plain(kind, e), channel' = Append(channel, e),
               \/ Head(wire).ev = "eof" /\ e.type = "closed"
               \/ kind # "hyprland" /\ e.type # "closed"
        PROVE  PlainStream'
    <3>1. channel \in Seq(Events)
      BY AheadIs
    <3>2. /\ Len(channel) \in Nat /\ Len(channel') = Len(channel) + 1 /\ channel'[Len(channel) + 1] = e
          /\ \A i \in 1..Len(channel) : channel'[i] = channel[i]
      BY <2>8, <3>1
    <3>3. \A i \in 1..Len(channel') : i \in 1..Len(channel) \/ i = Len(channel) + 1
      BY <3>2
    <3>4. /\ \A i \in 1..Len(channel) : Plain(kind, channel[i]) /\ (kind = "hyprland" => channel[i].type = "closed")
          /\ (pc = "closed" \/ (\E i \in 1..Len(channel) : channel[i].type = "closed")
                \/ (\E i \in 1..Len(wire) : wire[i].ev = "eof")) => changes = MaxChanges
      BY DEF PlainStream
    <3>5. \A i \in 1..Len(channel') : Plain(kind, channel'[i]) /\ (kind = "hyprland" => channel'[i].type = "closed")
      BY <2>8, <3>2, <3>3, <3>4
    <3>6. e.type = "closed" => \E i \in 1..Len(wire) : wire[i].ev = "eof"
      BY <2>3, <2>8
    <3>7. (\E i \in 1..Len(channel') : channel'[i].type = "closed") => changes = MaxChanges
      BY <3>2, <3>3, <3>4, <3>6
    <3>8. (pc' = "closed" \/ (\E i \in 1..Len(wire') : wire'[i].ev = "eof")) => changes = MaxChanges
      BY <2>4, <2>6, <3>4
    <3> QED
      BY <2>1, <2>2, <2>5, <2>6, <3>5, <3>7, <3>8 DEF PlainStream
  <2> QED
    BY <2>1, <2>7, <2>8
<1>10. CASE FetchOutputs
  <2>1. UNCHANGED <<kind, channel, changes, wire, lost, intact, pc, event>>
    BY <1>10 DEF FetchOutputs, bounds
  <2> QED
    BY <1>0, <2>1, PlainKept
<1>11. CASE Change
  <2>1. PICK c \in Changes(comp) : wire' = IF Streaming THEN wire \o Lines(kind, c.what, c.w, c.to) ELSE wire
    BY <1>11 DEF Change
  <2>2. UNCHANGED <<kind, pc, event, channel, intact>> /\ lost' \in {"no", "missed", "dropped"} /\ changes # MaxChanges
    BY <1>0, <1>11 DEF Change, Missed, CacheAssumption
  <2>3. /\ pc # "closed" /\ \A i \in 1..Len(channel) : channel[i].type # "closed"
        /\ \A i \in 1..Len(wire) : wire[i].ev # "eof"
    BY <2>2 DEF PlainStream
  <2>4. \A i \in 1..Len(wire') : wire'[i].ev # "eof"
    <3> DEFINE L == Lines(kind, c.what, c.w, c.to)
               S == Said(kind) \union Ends
    <3>1. L \in Seq(Said(kind))
      <4>1. c.to \in Compositors /\ c.what \in Changing \union {"close", "switch", "plug", "blur"}
            /\ (c.what \in Changing => c.w \in DOMAIN c.to.wins) /\ c.w \in Win \union {None}
        BY ChangesLead DEF StateOK, CacheAssumption
      <4> QED
        BY <4>1, LinesSaid DEF StateOK
    <3>2. wire \in Seq(S) /\ L \in Seq(S)
      BY <3>1, SeqMonotonic DEF StreamOK
    <3> HIDE DEF L
    <3>3. \A i \in 1..Len(L) : L[i].ev # "eof"
      <4>1. \A i \in 1..Len(L) : L[i] \in Said(kind)
        BY <3>1
      <4> QED
        BY <4>1, NoEnd DEF StateOK
    <3> HIDE DEF S
    <3>4. /\ Len(wire) \in Nat /\ Len(L) \in Nat /\ Len(wire \o L) = Len(wire) + Len(L)
          /\ \A i \in 1..Len(wire \o L) : (wire \o L)[i] = IF i <= Len(wire) THEN wire[i] ELSE L[i - Len(wire)]
      BY <3>2, ConcatProperties, LenProperties
    <3>5. \A i \in 1..Len(wire \o L) : (wire \o L)[i].ev # "eof"
      <4> TAKE i \in 1..Len(wire \o L)
      <4>1. i \in 1..Len(wire) \/ (i > Len(wire) /\ i - Len(wire) \in 1..Len(L))
        BY <3>4
      <4> QED
        BY <2>3, <3>3, <3>4, <4>1
    <3>6. wire' = wire \/ wire' = wire \o L
      BY <2>1 DEF L
    <3> QED
      BY <2>3, <3>5, <3>6
  <2>5. \A i \in 1..Len(channel) : Plain(kind, channel[i]) /\ (kind = "hyprland" => channel[i].type = "closed")
    BY DEF PlainStream
  <2> QED
    BY <1>0, <2>2, <2>3, <2>4, <2>5 DEF PlainStream
<1>12. CASE StreamEnds
  <2>1. UNCHANGED <<kind, pc, event, channel, intact, lost>> /\ changes' = MaxChanges
    BY <1>12 DEF StreamEnds
  <2>2. \A i \in 1..Len(channel) : Plain(kind, channel[i]) /\ (kind = "hyprland" => channel[i].type = "closed")
    BY DEF PlainStream
  <2> QED
    BY <1>0, <2>1, <2>2 DEF PlainStream
<1>13. CASE GetWindows \/ Encode
  <2>1. UNCHANGED <<kind, channel, changes, wire, lost, intact, pc, event>>
    BY <1>13 DEF GetWindows, Encode, streamVars, bounds
  <2> QED
    BY <1>0, <2>1, PlainKept
<1> QED
  BY <1>1, <1>2, <1>3, <1>4, <1>5, <1>6, <1>7, <1>8, <1>9, <1>10, <1>11, <1>12, <1>13
  DEF Next, Daemon, Watcher
----------------------------------------------------------------------------
(* What the steps of the watching goroutine mend. *)

\* A list of the compositor is right about everything but the focus, and
\* niri's about the focus too.
LEMMA ListedRight ==
    ASSUME CacheAssumption, StateOK
    PROVE  /\ \A t \in Topics(kind), w \in Win : (t = "focus" => kind = "niri") => Right(kind, comp, Listed, t, w)
           /\ kind = "hyprland" => \A i \in 1..Len(Listed) : ~Listed[i].focused
<1> DEFINE D == DOMAIN comp.wins
           W(v) == WindowOf(comp, v, ListedFocus(kind, comp, v))
<1>1. /\ \A i \in 1..Len(Listed) : \E v \in D : Listed[i] = W(v)
      /\ \A v \in D : \E i \in 1..Len(Listed) : Listed[i] = W(v)
  BY ListedIs DEF CacheAssumption, StateOK
<1>2. \A v \in D : /\ W(v).id = v /\ W(v).title = comp.wins[v].title /\ W(v).ws = comp.wins[v].ws
                   /\ W(v).floating = comp.wins[v].floating /\ W(v).full = comp.wins[v].full
                   /\ W(v).focused <=> ListedFocus(kind, comp, v)
  BY DEF WindowOf
<1> HIDE DEF W, D
<1>3. kind = "hyprland" => \A i \in 1..Len(Listed) : ~Listed[i].focused
  BY <1>1, <1>2 DEF ListedFocus
<1>4. ASSUME NEW w \in Win PROVE Right(kind, comp, Listed, "open", w)
  <2>1. Has(Listed, w) <=> w \in D
    BY <1>1, <1>2 DEF Has
  <2> QED
    BY <2>1 DEF Right, D
<1>5. ASSUME NEW w \in Win PROVE Right(kind, comp, Listed, "attributes", w)
  <2>1. \A i \in 1..Len(Listed) : Listed[i].id = w =>
          /\ Listed[i].ws = comp.wins[w].ws /\ Listed[i].full = comp.wins[w].full
          /\ Listed[i].title = comp.wins[w].title /\ Listed[i].floating = comp.wins[w].floating
    <3> TAKE i \in 1..Len(Listed)
    <3>1. PICK v \in D : Listed[i] = W(v)
      BY <1>1
    <3> QED
      BY <1>2, <3>1
  <2> QED
    BY <2>1 DEF Right, Brought
<1>6. ASSUME NEW w \in Win PROVE Right(kind, comp, Listed, "float", w)
  BY <1>1, <1>2 DEF Right
<1>7. ASSUME NEW w \in Win, kind = "niri" PROVE Right(kind, comp, Listed, "focus", w)
  BY <1>1, <1>2, <1>7 DEF Right, ListedFocus
<1> QED
  BY <1>3, <1>4, <1>5, <1>6, <1>7 DEF Topics

\* A refresh begins.
LEMMA QueriedRight ==
    ASSUME CacheAssumption, StateOK, lost \in {"no", "missed", "dropped"}, QueryWindows, UNCHANGED <<kind, comp>>,
           pc' = "active", Trusted'
    PROVE  CacheMends'
<1>1. windows' = Listed
  <2>1. CASE SetWindows(Listed)
    BY <2>1 DEF SetWindows, Replace
  <2>2. CASE Missed /\ intact' = FALSE
    BY <2>2 DEF Missed, Trusted
  <2> QED
    BY <2>1, <2>2 DEF QueryWindows
<1>2. /\ \A t \in Topics(kind), w \in Win : (t = "focus" => kind = "niri") => Right(kind, comp, windows', t, w)
      /\ kind = "hyprland" => \A i \in 1..Len(windows') : ~windows'[i].focused
  BY <1>1, ListedRight
<1>3. Unmarked' <=> kind = "hyprland"
  BY DEF Unmarked
<1>4. \A t \in Topics(kind) : t = "focus" /\ ~Unmarked' => kind = "niri"
  BY <1>3 DEF StateOK, Kinds, Topics
<1> QED
  BY <1>2, <1>3, <1>4 DEF CacheMends

\* What a change of a list that keeps its windows may change.
AsBefore(ws, as) == Len(ws) = Len(as) /\ \A i \in 1..Len(as) : ws[i].id = as[i].id
SameIn(fields, ws, as) == \A i \in 1..Len(as) : \A a \in fields : ws[i][a] = as[i][a]

Floated(w, f) ==
    [i \in DOMAIN windows |-> IF i \in First(w) THEN [windows[i] EXCEPT !.floating = f] ELSE windows[i]]

\* What marking, retitling and floating a window change.
LEMMA UpdatesAre ==
    ASSUME windows \in Seq(Window), NoTwo(windows), NEW w
    PROVE  /\ Len(windows) \in Nat
           /\ LET ws == Marked(w)
              IN  /\ AsBefore(ws, windows) /\ SameIn({"title", "ws", "full", "floating"}, ws, windows)
                  /\ \A i \in 1..Len(windows) : ws[i].focused <=> windows[i].id = w
           /\ \A t : LET ws == Titled(w, t)
                     IN  AsBefore(ws, windows) /\ SameIn({"ws", "full", "floating", "focused"}, ws, windows)
           /\ \A f : LET ws == Floated(w, f)
                     IN  /\ AsBefore(ws, windows) /\ SameIn({"title", "ws", "full", "focused"}, ws, windows)
                         /\ \A i \in 1..Len(windows) :
                              ws[i].floating = IF windows[i].id = w THEN f ELSE windows[i].floating
<1> DEFINE n == Len(windows)
<1>1. n \in Nat /\ DOMAIN windows = 1..n /\ \A i \in 1..n : windows[i] \in Window
  OBVIOUS
<1>2. ASSUME NEW x \in Window, NEW b
      PROVE  /\ LET y == [x EXCEPT !.focused = b]
                IN  /\ y.id = x.id /\ y.title = x.title /\ y.ws = x.ws /\ y.full = x.full /\ y.floating = x.floating
                    /\ y.focused = b
             /\ LET y == [x EXCEPT !.title = b]
                IN  y.id = x.id /\ y.ws = x.ws /\ y.full = x.full /\ y.floating = x.floating /\ y.focused = x.focused
             /\ LET y == [x EXCEPT !.floating = b]
                IN  /\ y.id = x.id /\ y.title = x.title /\ y.ws = x.ws /\ y.full = x.full /\ y.focused = x.focused
                    /\ y.floating = b
  BY <1>2 DEF Window
<1>3. \A i \in 1..n : i \in First(w) <=> windows[i].id = w
  <2> TAKE i \in 1..n
  <2>1. i \in First(w) => windows[i].id = w
    BY DEF First
  <2>2. windows[i].id = w => \A j \in 1..i - 1 : windows[j].id # w
    BY <1>1 DEF NoTwo
  <2> QED
    BY <1>1, <2>1, <2>2 DEF First
<1>4. \A ws : ws = [i \in 1..n |-> ws[i]] => Len(ws) = n
  BY <1>1
<1>5. LET ws == Marked(w)
      IN  /\ AsBefore(ws, windows) /\ SameIn({"title", "ws", "full", "floating"}, ws, windows)
          /\ \A i \in 1..n : ws[i].focused <=> windows[i].id = w
  <2> DEFINE ws == Marked(w)
  <2>1. ws = [i \in 1..n |-> [windows[i] EXCEPT !.focused = windows[i].id = w]]
    BY <1>1 DEF Marked
  <2> HIDE DEF ws
  <2>2. Len(ws) = n /\ \A i \in 1..n : ws[i] = [windows[i] EXCEPT !.focused = windows[i].id = w]
    BY <1>4, <2>1
  <2>3. \A i \in 1..n : /\ ws[i].id = windows[i].id /\ ws[i].title = windows[i].title /\ ws[i].ws = windows[i].ws
                        /\ ws[i].full = windows[i].full /\ ws[i].floating = windows[i].floating
                        /\ ws[i].focused <=> windows[i].id = w
    <3> TAKE i \in 1..n
    <3> DEFINE b == windows[i].id = w
               x == windows[i]
    <3>1. x \in Window
      BY <1>1
    <3>2. ws[i] = [x EXCEPT !.focused = b]
      BY <2>2
    <3> HIDE DEF x, b
    <3>3. /\ ws[i].id = x.id /\ ws[i].title = x.title /\ ws[i].ws = x.ws /\ ws[i].full = x.full
          /\ ws[i].floating = x.floating /\ ws[i].focused = b
      BY <1>2, <3>1, <3>2
    <3> QED
      BY <3>3 DEF x, b
  <2>4. AsBefore(ws, windows) /\ SameIn({"title", "ws", "full", "floating"}, ws, windows)
    BY <2>2, <2>3 DEF AsBefore, SameIn
  <2> QED
    BY <2>3, <2>4 DEF ws
<1>6. ASSUME NEW t
      PROVE  LET ws == Titled(w, t)
             IN  AsBefore(ws, windows) /\ SameIn({"ws", "full", "floating", "focused"}, ws, windows)
  <2> DEFINE ws == Titled(w, t)
  <2>1. ws = [i \in 1..n |-> IF i \in First(w) THEN [windows[i] EXCEPT !.title = t] ELSE windows[i]]
    BY <1>1 DEF Titled
  <2> HIDE DEF ws
  <2>2. Len(ws) = n /\ \A i \in 1..n : ws[i] = IF i \in First(w) THEN [windows[i] EXCEPT !.title = t] ELSE windows[i]
    BY <1>4, <2>1
  <2>3. \A i \in 1..n : /\ ws[i].id = windows[i].id /\ ws[i].ws = windows[i].ws
                        /\ ws[i].full = windows[i].full /\ ws[i].floating = windows[i].floating
                        /\ ws[i].focused = windows[i].focused
    <3> TAKE i \in 1..n
    <3> DEFINE x == windows[i]
    <3>1. x \in Window
      BY <1>1
    <3>2. ws[i] = x \/ ws[i] = [x EXCEPT !.title = t]
      BY ONLY <2>2, i \in 1..n DEF x
    <3> HIDE DEF x
    <3>3. /\ ws[i].id = x.id /\ ws[i].ws = x.ws /\ ws[i].full = x.full
          /\ ws[i].floating = x.floating /\ ws[i].focused = x.focused
      <4> DEFINE y == [x EXCEPT !.title = t]
      <4>1. y.id = x.id /\ y.ws = x.ws /\ y.full = x.full /\ y.floating = x.floating /\ y.focused = x.focused
        BY <1>2, <3>1
      <4>2. ws[i] = x \/ ws[i] = y
        BY <3>2
      <4> HIDE DEF y
      <4> QED
        BY ONLY <4>1, <4>2
    <3> QED
      BY <3>3 DEF x
  <2>4. AsBefore(ws, windows) /\ SameIn({"ws", "full", "floating", "focused"}, ws, windows)
    BY <2>2, <2>3 DEF AsBefore, SameIn
  <2> QED
    BY <2>3, <2>4 DEF ws
<1>7. ASSUME NEW f
      PROVE  LET ws == Floated(w, f)
             IN  /\ AsBefore(ws, windows) /\ SameIn({"title", "ws", "full", "focused"}, ws, windows)
                 /\ \A i \in 1..n : ws[i].floating = IF windows[i].id = w THEN f ELSE windows[i].floating
  <2> DEFINE ws == Floated(w, f)
  <2>1. ws = [i \in 1..n |-> IF i \in First(w) THEN [windows[i] EXCEPT !.floating = f] ELSE windows[i]]
    BY <1>1 DEF Floated
  <2> HIDE DEF ws
  <2>2. Len(ws) = n /\ \A i \in 1..n : ws[i] = IF i \in First(w) THEN [windows[i] EXCEPT !.floating = f] ELSE windows[i]
    BY <1>4, <2>1
  <2>3. \A i \in 1..n : /\ ws[i].id = windows[i].id /\ ws[i].ws = windows[i].ws
                        /\ ws[i].full = windows[i].full /\ ws[i].title = windows[i].title
                        /\ ws[i].focused = windows[i].focused
                        /\ ws[i].floating = IF windows[i].id = w THEN f ELSE windows[i].floating
    <3> TAKE i \in 1..n
    <3> DEFINE x == windows[i]
    <3>1. x \in Window
      BY <1>1
    <3>2. IF x.id = w THEN ws[i] = [x EXCEPT !.floating = f] ELSE ws[i] = x
      BY ONLY <1>3, <2>2, i \in 1..n DEF x
    <3> HIDE DEF x
    <3>3. /\ ws[i].id = x.id /\ ws[i].title = x.title /\ ws[i].ws = x.ws /\ ws[i].full = x.full
          /\ ws[i].focused = x.focused /\ ws[i].floating = IF x.id = w THEN f ELSE x.floating
      <4> DEFINE y == [x EXCEPT !.floating = f]
      <4>1. /\ y.id = x.id /\ y.title = x.title /\ y.ws = x.ws /\ y.full = x.full /\ y.focused = x.focused
            /\ y.floating = f
        BY <1>2, <3>1
      <4>2. IF x.id = w THEN ws[i] = y ELSE ws[i] = x
        BY <3>2
      <4> HIDE DEF y
      <4> QED
        BY ONLY <4>1, <4>2
    <3> QED
      BY <3>3 DEF x
  <2>4. AsBefore(ws, windows) /\ SameIn({"title", "ws", "full", "focused"}, ws, windows)
    BY <2>2, <2>3 DEF AsBefore, SameIn
  <2> QED
    BY <2>3, <2>4 DEF ws
<1> QED
  BY <1>1, <1>5, <1>6, <1>7

\* What a list with the same windows is right about.
LEMMA AsRight ==
    ASSUME NEW ws, NEW as, AsBefore(ws, as), NEW k, NEW c, NEW w
    PROVE  /\ Right(k, c, as, "open", w) => Right(k, c, ws, "open", w)
           /\ SameIn({"ws", "full"}, ws, as) /\ (k = "mango" => SameIn({"title", "floating"}, ws, as))
                /\ Right(k, c, as, "attributes", w) => Right(k, c, ws, "attributes", w)
           /\ SameIn({"floating"}, ws, as) /\ Right(k, c, as, "float", w) => Right(k, c, ws, "float", w)
           /\ SameIn({"focused"}, ws, as) /\ Right(k, c, as, "focus", w) => Right(k, c, ws, "focus", w)
<1> USE DEF AsBefore
<1>1. Right(k, c, as, "open", w) => Right(k, c, ws, "open", w)
  BY DEF Right, Has
<1>2. ASSUME SameIn({"ws", "full"}, ws, as), k = "mango" => SameIn({"title", "floating"}, ws, as),
             Right(k, c, as, "attributes", w)
      PROVE  Right(k, c, ws, "attributes", w)
  <2>1. \A i \in 1..Len(as) : /\ ws[i].ws = as[i].ws /\ ws[i].full = as[i].full
                              /\ k = "mango" => ws[i].title = as[i].title /\ ws[i].floating = as[i].floating
    BY <1>2 DEF SameIn
  <2> QED
    BY <1>2, <2>1 DEF Right, Brought
<1>3. SameIn({"floating"}, ws, as) /\ Right(k, c, as, "float", w) => Right(k, c, ws, "float", w)
  BY DEF Right, SameIn
<1>4. SameIn({"focused"}, ws, as) /\ Right(k, c, as, "focus", w) => Right(k, c, ws, "focus", w)
  BY DEF Right, SameIn
<1> QED
  BY <1>1, <1>2, <1>3, <1>4

\* What an event's window makes of a list.
Added(win, ws) == IF Tracked(win, ws) THEN ws ELSE Append(ws, win)

\* The list an event's window is added to keeps its windows.
LEMMA AddedIs ==
    ASSUME NEW ws, Len(ws) \in Nat, DOMAIN ws = 1..Len(ws), ws \in Seq(Window), NEW win
    PROVE  /\ \A i \in 1..Len(Added(win, ws)) : \/ \E j \in 1..Len(ws) : Added(win, ws)[i] = ws[j]
                                                \/ Added(win, ws)[i] = win /\ win # None /\ ~Has(ws, win.id)
           /\ \A j \in 1..Len(ws) : \E i \in 1..Len(Added(win, ws)) : Added(win, ws)[i] = ws[j]
           /\ win # None => Has(Added(win, ws), win.id)
<1> DEFINE new == Added(win, ws)
<1>1. CASE Tracked(win, ws)
  BY <1>1 DEF Tracked, Has, Added
<1>2. CASE ~Tracked(win, ws)
  <2>1. new = Append(ws, win) /\ win # None /\ ~Has(ws, win.id)
    BY <1>2 DEF Tracked, Has, Added
  <2>2. /\ Len(new) = Len(ws) + 1 /\ new[Len(ws) + 1] = win
        /\ \A i \in 1..Len(ws) : new[i] = ws[i]
    BY <2>1
  <2> HIDE DEF Has, new
  <2>3. \A i \in 1..Len(new) : i \in 1..Len(ws) \/ i = Len(ws) + 1
    BY <2>2
  <2>4. Len(ws) + 1 \in 1..Len(new) /\ \A i \in 1..Len(ws) : i \in 1..Len(new)
    BY <2>2
  <2>5. Has(new, win.id)
    BY <2>2, <2>4 DEF Has
  <2>6. /\ \A i \in 1..Len(new) : \/ \E j \in 1..Len(ws) : new[i] = ws[j]
                                  \/ new[i] = win /\ win # None /\ ~Has(ws, win.id)
        /\ \A j \in 1..Len(ws) : \E i \in 1..Len(new) : new[i] = ws[j]
    BY <2>1, <2>2, <2>3, <2>4
  <2> QED
    BY <2>5, <2>6 DEF new
<1> QED
  BY <1>1, <1>2

\* Adding a window keeps the cache right about the others, and about the
\* one added if its attributes are.
LEMMA AddedRight ==
    ASSUME NEW ws, Len(ws) \in Nat, DOMAIN ws = 1..Len(ws), ws \in Seq(Window), NEW win, NEW k, NEW c, NEW t, NEW v
    PROVE  /\ Right(k, c, ws, t, v) /\ (win # None /\ win.id = v => Has(ws, v)) => Right(k, c, Added(win, ws), t, v)
           /\ win # None /\ win.id = v /\ v \in DOMAIN c.wins => Right(k, c, Added(win, ws), "open", v)
           /\ k = "niri" => Right(k, c, Added(win, ws), "attributes", v)
           /\ /\ Right(k, c, ws, "focus", v) /\ win # None
              /\ win.id = v => (win.focused <=> v = c.focus)
              => Right(k, c, Added(win, ws), "focus", v)
<1> DEFINE new == Added(win, ws)
<1>1. /\ \A i \in 1..Len(new) : \/ \E j \in 1..Len(ws) : new[i] = ws[j]
                                \/ new[i] = win /\ win # None /\ ~Has(ws, win.id)
      /\ \A j \in 1..Len(ws) : \E i \in 1..Len(new) : new[i] = ws[j]
      /\ win # None => Has(new, win.id)
  BY AddedIs
<1> HIDE DEF new
<1>2. ASSUME Right(k, c, ws, t, v), win # None /\ win.id = v => Has(ws, v) PROVE Right(k, c, new, t, v)
  <2>1. \A i \in 1..Len(new) : new[i].id = v => \E j \in 1..Len(ws) : new[i] = ws[j]
    BY <1>1, <1>2
  <2>2. Has(ws, v) => Has(new, v)
    <3> HAVE Has(ws, v)
    <3>1. PICK j \in 1..Len(ws) : ws[j].id = v
      BY DEF Has
    <3>2. PICK i \in 1..Len(new) : new[i] = ws[j]
      BY <1>1
    <3> QED
      BY <3>1, <3>2 DEF Has
  <2>3. Has(new, v) => Has(ws, v)
    <3> HAVE Has(new, v)
    <3>1. PICK i \in 1..Len(new) : new[i].id = v
      BY DEF Has
    <3> QED
      BY <2>1, <3>1 DEF Has
  <2> QED
    BY <1>2, <2>1, <2>2, <2>3 DEF Right
<1>3. win # None /\ win.id = v /\ v \in DOMAIN c.wins => Right(k, c, new, "open", v)
  BY <1>1 DEF Right
<1>4. k = "niri" => Right(k, c, new, "attributes", v)
  BY DEF Right, Brought
<1>5. ASSUME Right(k, c, ws, "focus", v), win # None, win.id = v => (win.focused <=> v = c.focus)
      PROVE  Right(k, c, new, "focus", v)
  <2> SUFFICES ASSUME c.focus # None PROVE Right(k, c, new, "focus", v)
    BY DEF Right
  <2>1. \A j \in 1..Len(ws) : ws[j].id = v => (ws[j].focused <=> v = c.focus)
    BY <1>5 DEF Right
  <2>2. ASSUME NEW i \in 1..Len(new), new[i].id = v PROVE new[i].focused <=> v = c.focus
    <3>1. CASE \E j \in 1..Len(ws) : new[i] = ws[j]
      <4>1. PICK j \in 1..Len(ws) : new[i] = ws[j]
        BY <3>1
      <4> QED
        BY <2>1, <2>2, <4>1
    <3>2. CASE new[i] = win
      BY <1>5, <2>2, <3>2
    <3> QED
      BY <1>1, <3>1, <3>2
  <2> QED
    BY <2>2 DEF Right
<1> QED
  BY <1>2, <1>3, <1>4, <1>5 DEF new

\* An event that spoils nothing leaves the cache right or makes it right.
Improves(f) ==
    \A t \in Topics(kind), v \in Win :
      /\ f \notin Spoils(kind, comp, t, v)
      /\ f \in Mends(kind, comp, t, v) \/ Right(kind, comp, windows, t, v)
      /\ kind = "mango" /\ f.adds = v => Has(windows, v)
      => Right(kind, comp, windows', t, v)

\* The types of what the updates read.
LEMMA WindowsAre ==
    ASSUME HandedOut, StreamOK
    PROVE  /\ windows \in Seq(Window) /\ NoTwo(windows) /\ Len(windows) \in Nat /\ DOMAIN windows = 1..Len(windows)
           /\ event.win \in Window \union {None} /\ event.address \in Win \union {None} /\ EffectOf(event) \in Effect
           /\ event.title \in (0..1) \union {None} /\ event.id \in Win \union {None}
<1>1. event \in Values(Told \union {"start", "closed"})
  BY DEF StreamOK
<1> QED
  <2>1. /\ event.win \in Window \union {None} /\ event.address \in Win \union {None}
        /\ event.title \in (0..1) \union {None} /\ event.id \in Win \union {None}
    BY <1>1 DEF Values
  <2>2. EffectOf(event) \in Effect
    BY <1>1, EffectMade
  <2>3. windows \in Seq(Window) /\ NoTwo(windows)
    BY DEF HandedOut
  <2> QED
    BY <2>1, <2>2, <2>3

\* A window that is closed leaves the cache.
LEMMA ClosedImproves ==
    ASSUME CacheAssumption, HandedOut, StreamOK, Plain(kind, event), HandleClosed PROVE Improves(EffectOf(event))
<1> DEFINE f == EffectOf(event)
           w == Id(event)
<1>1. /\ windows \in Seq(Window) /\ NoTwo(windows) /\ Len(windows) \in Nat
      /\ f \in Effect /\ w \in Win \union {None} /\ None \notin Win
  BY WindowsAre DEF Id, CacheAssumption
<1>2. event.type = "WindowClosed" /\ event.floating = None /\ kind # "mango"
  BY DEF HandleClosed, Plain, Updating
<1>3. Update(f, w, None, None, None)
  BY <1>2, EventEffects
<1>4. windows' = IF w = None THEN windows ELSE Without(w)
  BY DEF HandleClosed, RemoveWindow, Replace
<1> HIDE DEF f, w
<1>5. /\ \A i \in 1..Len(windows') : \E j \in 1..Len(windows) :
            windows[j].id # w /\ windows'[i] = windows[j]
      /\ \A j \in 1..Len(windows) : windows[j].id # w => \E i \in 1..Len(windows') : windows'[i] = windows[j]
  <2>1. \A j \in 1..Len(windows) : windows[j].id \in Win
    <3>1. \A j \in 1..Len(windows) : windows[j] \in Window
      BY <1>1
    <3> QED
      BY <3>1 DEF Window
  <2>2. CASE w = None
    BY <1>1, <1>4, <2>1, <2>2
  <2>3. CASE w # None
    <3>1. windows' = Without(w)
      BY <1>4, <2>3
    <3>2. /\ \A i \in 1..Len(Without(w)) : \E j \in 1..Len(windows) :
               windows[j].id # w /\ Without(w)[i] = windows[j]
          /\ \A j \in 1..Len(windows) : windows[j].id # w =>
               \E i \in 1..Len(Without(w)) : Without(w)[i] = windows[j]
      BY <1>1, WithoutIs
    <3> QED
      BY <3>1, <3>2
  <2> QED
    BY <2>2, <2>3
<1>6. ASSUME NEW t \in Topics(kind), NEW v \in Win, f \notin Spoils(kind, comp, t, v),
             f \in Mends(kind, comp, t, v) \/ Right(kind, comp, windows, t, v)
      PROVE  Right(kind, comp, windows', t, v)
  <2>1. CASE v = w
    <3>1. ~Has(windows', v) /\ \A i \in 1..Len(windows') : windows'[i].id # v
      BY <1>5, <2>1 DEF Has
    <3>2. t = "open" => v \notin DOMAIN comp.wins
      BY <1>1, <1>3, <1>6, <2>1 DEF Spoils, Update
    <3> QED
      BY <3>1, <3>2 DEF Right
  <2>2. CASE v # w
    <3>1. f \notin Mends(kind, comp, t, v)
      BY <1>1, <1>3, <2>2 DEF Mends, Update
    <3>2. Right(kind, comp, windows, t, v)
      BY <1>6, <3>1
    <3>3. Has(windows', v) <=> Has(windows, v)
      BY <1>5, <2>2 DEF Has
    <3>4. \A i \in 1..Len(windows') : windows'[i].id = v =>
             \E j \in 1..Len(windows) : windows[j].id = v /\ windows'[i] = windows[j]
      <4> TAKE i \in 1..Len(windows')
      <4>1. PICK j \in 1..Len(windows) : windows[j].id # w /\ windows'[i] = windows[j]
        BY <1>5
      <4> QED
        BY <4>1
    <3> QED
      BY <3>2, <3>3, <3>4 DEF Right
  <2> QED
    BY <2>1, <2>2
<1> QED
  BY <1>6 DEF Improves, f

\* A window's floating flag is set.
LEMMA FloatingImproves ==
    ASSUME CacheAssumption, HandedOut, StreamOK, Plain(kind, event), HandleFloating PROVE Improves(EffectOf(event))
<1> DEFINE f == EffectOf(event)
           w == event.address
           on == event.floating
           ws == Floated(w, on)
<1>1. /\ windows \in Seq(Window) /\ NoTwo(windows) /\ Len(windows) \in Nat
      /\ f \in Effect /\ w \in Win \union {None} /\ None \notin Win
  BY WindowsAre DEF CacheAssumption
<1>2. event.type = "" /\ on # None /\ kind = "hyprland"
  BY DEF HandleFloating, Plain
<1>3. Update(f, None, None, None, w) /\ f.on = on
  BY <1>2, NoType, EffectFields
<1>4. windows' = ws
  BY DEF HandleFloating, UpdateWindowFloating, InPlace, Floated
<1> HIDE DEF f
<1>5. /\ AsBefore(ws, windows) /\ SameIn({"title", "ws", "full", "focused"}, ws, windows)
      /\ \A i \in 1..Len(windows) : ws[i].floating = IF windows[i].id = w THEN on ELSE windows[i].floating
  BY <1>1, UpdatesAre DEF ws, w, on
<1> HIDE DEF ws, w, on
<1>6. ASSUME NEW t \in Topics(kind), NEW v \in Win, f \notin Spoils(kind, comp, t, v),
             f \in Mends(kind, comp, t, v) \/ Right(kind, comp, windows, t, v)
      PROVE  Right(kind, comp, ws, t, v)
  <2>1. SameIn({"ws", "full"}, ws, windows) /\ SameIn({"focused"}, ws, windows)
    BY <1>5 DEF SameIn
  <2>2. CASE t = "float"
    <3>1. CASE v = w
      <4>1. v \in DOMAIN comp.wins => on = comp.wins[v].floating
        BY <1>1, <1>3, <1>6, <2>2, <3>1 DEF Spoils, Update
      <4> QED
        BY <1>5, <2>2, <3>1, <4>1 DEF Right, AsBefore
    <3>2. CASE v # w
      <4>1. f \notin Mends(kind, comp, t, v)
        BY <1>3, <2>2, <3>2 DEF Mends, Update
      <4>2. Right(kind, comp, windows, t, v)
        BY <1>6, <4>1
      <4> QED
        BY <1>5, <2>2, <3>2, <4>2 DEF Right, AsBefore
    <3> QED
      BY <3>1, <3>2
  <2>3. CASE t # "float"
    <3>1. f \notin Mends(kind, comp, t, v)
      BY <1>1, <1>3, <2>3 DEF Mends, Update
    <3>2. Right(kind, comp, windows, t, v)
      BY <1>6, <3>1
    <3>3. t \in {"open", "attributes", "focus"}
      BY <2>3 DEF Topics
    <3>4. AsBefore(ws, windows)
      BY <1>5
    <3>5. /\ Right(kind, comp, windows, "open", v) => Right(kind, comp, ws, "open", v)
          /\ Right(kind, comp, windows, "attributes", v) => Right(kind, comp, ws, "attributes", v)
          /\ Right(kind, comp, windows, "focus", v) => Right(kind, comp, ws, "focus", v)
      BY <1>2, <2>1, <3>4, AsRight
    <3> QED
      BY <3>2, <3>3, <3>5
  <2> QED
    BY <2>2, <2>3
<1> QED
  BY <1>4, <1>6 DEF Improves, f

\* A focus or title event that is followed by the window it carries.
LEMMA AddingImproves ==
    ASSUME CacheAssumption, kind \in Kinds, HandedOut, StreamOK, Plain(kind, event), HandleFocused \/ HandleTitle
    PROVE  Improves(EffectOf(event))
<1> DEFINE f == EffectOf(event)
           win == event.win
           a == IF win = None THEN None ELSE win.id
           z == f.focus
           focused == event.type = "WindowFocused"
           ws == IF focused THEN IF event.address = None THEN windows ELSE Marked(event.address)
                 ELSE IF event.title = None THEN windows ELSE Titled(Id(event), event.title)
<1>1. /\ windows \in Seq(Window) /\ NoTwo(windows) /\ Len(windows) \in Nat /\ DOMAIN windows = 1..Len(windows)
      /\ f \in Effect /\ win \in Window \union {None} /\ None \notin Win
      /\ event.title \in (0..1) \union {None} /\ event.address \in Win \union {None}
  BY WindowsAre DEF CacheAssumption
<1>2. /\ event.type = "WindowFocused" \/ event.type = "WindowTitleChanged"
      /\ event.floating = None /\ (kind = "mango" => focused)
  BY DEF HandleFocused, HandleTitle, Plain, Updating
<1>3. Update(f, None, a, z, None) /\ z = IF focused THEN event.address ELSE None
  <2>1. CASE focused
    BY <1>2, <2>1, EventEffects DEF Update
  <2>2. CASE ~focused
    BY <1>2, <2>2, EventEffects DEF Update
  <2> QED
    BY <2>1, <2>2
<1>4. windows' = Added(win, ws)
  <2>1. CASE focused
    BY <2>1, <1>2 DEF HandleFocused, HandleTitle, AddUnlessTracked, Added
  <2>2. CASE ~focused
    BY <2>2, <1>2 DEF HandleFocused, HandleTitle, AddUnlessTracked, Added
  <2> QED
    BY <2>1, <2>2
<1>5. kind = "hyprland" => win = None
  BY DEF Plain
<1>6. kind = "niri" /\ win # None => /\ z \in {None, win.id} /\ (win.focused <=> z # None)
                                     /\ focused => z # None
  BY <1>3, <1>2 DEF Plain
<1>7. /\ ws \in Seq(Window) /\ AsBefore(ws, windows)
      /\ SameIn({"ws", "full", "floating"}, ws, windows)
      /\ kind = "mango" => SameIn({"title", "floating"}, ws, windows)
      /\ z # None => \A i \in 1..Len(windows) : ws[i].focused <=> windows[i].id = z
      /\ z = None => SameIn({"focused"}, ws, windows)
  <2>1. windows \in Seq(Window) /\ AsBefore(windows, windows)
        /\ \A fs : SameIn(fs, windows, windows)
    BY <1>1 DEF AsBefore, SameIn
  <2>2. ASSUME focused, event.address # None
        PROVE  LET m == Marked(event.address)
               IN  /\ m \in Seq(Window) /\ AsBefore(m, windows)
                   /\ SameIn({"ws", "full", "floating"}, m, windows) /\ SameIn({"title", "floating"}, m, windows)
                   /\ \A i \in 1..Len(windows) : m[i].focused <=> windows[i].id = event.address
    <3> DEFINE m == Marked(event.address)
    <3>1. AsBefore(m, windows) /\ SameIn({"title", "ws", "full", "floating"}, m, windows)
          /\ \A i \in 1..Len(windows) : m[i].focused <=> windows[i].id = event.address
      BY <1>1, UpdatesAre
    <3>2. m \in Seq(Window)
      BY <1>1, ChangedIs DEF SameWindows
    <3> HIDE DEF m
    <3>3. SameIn({"ws", "full", "floating"}, m, windows) /\ SameIn({"title", "floating"}, m, windows)
      BY <3>1 DEF SameIn
    <3> QED
      BY <3>1, <3>2, <3>3 DEF m
  <2>3. ASSUME event.title # None
        PROVE  LET m == Titled(Id(event), event.title)
               IN  /\ m \in Seq(Window) /\ AsBefore(m, windows)
                   /\ SameIn({"ws", "full", "floating"}, m, windows) /\ SameIn({"focused"}, m, windows)
    <3> DEFINE m == Titled(Id(event), event.title)
    <3>1. AsBefore(m, windows) /\ SameIn({"ws", "full", "floating", "focused"}, m, windows)
      BY <1>1, UpdatesAre
    <3>2. m \in Seq(Window)
      BY <1>1, <2>3, ChangedIs DEF SameWindows
    <3> HIDE DEF m
    <3>3. SameIn({"ws", "full", "floating"}, m, windows) /\ SameIn({"focused"}, m, windows)
      BY <3>1 DEF SameIn
    <3> QED
      BY <3>1, <3>2, <3>3 DEF m
  <2>4. CASE focused /\ event.address # None
    BY <1>3, <2>2, <2>4
  <2>5. CASE ~focused /\ event.title # None
    BY <1>2, <1>3, <2>3, <2>5
  <2>6. CASE ws = windows /\ z = None
    BY <2>1, <2>6
  <2> QED
    BY <1>3, <2>4, <2>5, <2>6
<1> HIDE DEF ws, f, win, z, focused
<1>8. Len(ws) \in Nat /\ DOMAIN ws = 1..Len(ws) /\ Len(ws) = Len(windows)
  BY <1>1, <1>7 DEF AsBefore
<1>9. ASSUME NEW t \in Topics(kind), NEW v \in Win, f \notin Spoils(kind, comp, t, v),
             f \in Mends(kind, comp, t, v) \/ Right(kind, comp, windows, t, v),
             kind = "mango" /\ f.adds = v => Has(windows, v)
      PROVE  Right(kind, comp, windows', t, v)
  <2>1. /\ SameIn({"ws", "full"}, ws, windows) /\ SameIn({"floating"}, ws, windows)
        /\ Has(windows, v) => Has(ws, v)
    BY <1>7 DEF SameIn, Has, AsBefore
  <2>2. /\ Right(kind, comp, windows, "open", v) => Right(kind, comp, ws, "open", v)
        /\ Right(kind, comp, windows, "attributes", v) => Right(kind, comp, ws, "attributes", v)
        /\ Right(kind, comp, windows, "float", v) => Right(kind, comp, ws, "float", v)
        /\ z = None /\ Right(kind, comp, windows, "focus", v) => Right(kind, comp, ws, "focus", v)
    BY <1>7, <2>1, AsRight
  <2>3. (win # None /\ win.id = v) <=> f.adds = v
    BY <1>1, <1>3 DEF Update
  <2>4. kind = "mango" => (win # None /\ win.id = v => Has(ws, v))
    BY <1>9, <2>1, <2>3
  <2>5. \A u : Right(kind, comp, ws, u, v) /\ (win # None /\ win.id = v => Has(ws, v)) => Right(kind, comp, windows', u, v)
    BY <1>4, <1>7, <1>8, AddedRight
  <2>6. /\ win # None /\ win.id = v /\ v \in DOMAIN comp.wins => Right(kind, comp, windows', "open", v)
        /\ kind = "niri" => Right(kind, comp, windows', "attributes", v)
        /\ /\ Right(kind, comp, ws, "focus", v) /\ win # None
           /\ win.id = v => (win.focused <=> v = comp.focus)
           => Right(kind, comp, windows', "focus", v)
    BY <1>4, <1>7, <1>8, AddedRight
  <2>7. kind = "hyprland" => (win # None /\ win.id = v => Has(ws, v))
    BY <1>5
  <2>8. kind \in Kinds
    OBVIOUS
  <2>9. CASE t = "open"
    <3>1. CASE f \in Mends(kind, comp, "open", v)
      <4>1. v \in DOMAIN comp.wins /\ f.adds = v
        BY <1>1, <1>3, <3>1 DEF Mends, Update
      <4>2. win # None /\ win.id = v
        BY <1>1, <1>3, <4>1 DEF Update
      <4> QED
        BY <2>6, <2>9, <4>1, <4>2
    <3>2. CASE Right(kind, comp, windows, "open", v)
      <4>1. win # None /\ win.id = v => v \in DOMAIN comp.wins
        BY <1>1, <1>3, <1>9, <2>3, <2>9 DEF Spoils, Update
      <4>2. CASE win # None /\ win.id = v
        BY <2>6, <2>9, <4>1, <4>2
      <4>3. CASE ~(win # None /\ win.id = v)
        BY <2>2, <2>5, <2>9, <3>2, <4>3
      <4> QED
        BY <4>2, <4>3
    <3> QED
      BY <1>9, <2>9, <3>1, <3>2
  <2>10. CASE t = "attributes"
    <3>1. f \notin Mends(kind, comp, t, v)
      BY <1>3, <2>10 DEF Mends, Update
    <3>2. Right(kind, comp, ws, "attributes", v)
      BY <1>9, <2>2, <2>10, <3>1
    <3> QED
      BY <2>4, <2>5, <2>6, <2>7, <2>8, <2>10, <3>2 DEF Kinds
  <2>11. CASE t = "float"
    <3>1. f \notin Mends(kind, comp, t, v)
      BY <1>1, <1>3, <2>11 DEF Mends, Update
    <3>2. Right(kind, comp, ws, "float", v)
      BY <1>9, <2>2, <2>11, <3>1
    <3>3. kind = "hyprland"
      BY <1>9, <2>11 DEF Topics
    <3> QED
      BY <2>5, <2>7, <2>11, <3>2, <3>3
  <2>12. CASE t = "focus"
    <3> SUFFICES ASSUME comp.focus # None PROVE Right(kind, comp, windows', t, v)
      BY <2>12 DEF Right
    <3>1. kind # "mango"
      BY <1>9, <2>12 DEF Topics
    <3>2. CASE z # None
      <4>1. z = v <=> v = comp.focus
        BY <1>1, <1>3, <1>9, <2>12, <3>2 DEF Spoils, Update
      <4>2. Right(kind, comp, ws, "focus", v)
        BY <1>7, <3>2, <4>1 DEF Right, AsBefore
      <4>3. CASE kind = "hyprland"
        BY <2>5, <2>7, <2>12, <4>2, <4>3
      <4>4. CASE kind = "niri"
        <5>1. CASE win = None
          BY <2>5, <2>12, <4>2, <5>1
        <5>2. CASE win # None
          <6>1. win.id = v => (win.focused <=> v = comp.focus)
            BY <1>6, <3>2, <4>1, <4>4, <5>2
          <6> QED
            BY <2>6, <2>12, <4>2, <5>2, <6>1
        <5> QED
          BY <5>1, <5>2
      <4> QED
        BY <2>8, <3>1, <4>3, <4>4 DEF Kinds
    <3>3. CASE z = None
      <4>1. f \notin Mends(kind, comp, t, v)
        BY <1>1, <1>3, <2>12, <3>3 DEF Mends, Update
      <4>2. Right(kind, comp, ws, "focus", v)
        BY <1>9, <2>2, <2>12, <3>3, <4>1
      <4>3. CASE kind = "hyprland"
        BY <2>5, <2>7, <2>12, <4>2, <4>3
      <4>4. CASE kind = "niri"
        <5>1. CASE win = None
          BY <2>5, <2>12, <4>2, <5>1
        <5>2. CASE win # None
          <6>1. win.id = v => v # comp.focus
            BY <1>1, <1>3, <1>9, <2>3, <2>12, <3>3, <5>2 DEF Spoils, Update
          <6>2. win.id = v => (win.focused <=> v = comp.focus)
            BY <1>6, <3>3, <4>4, <5>2, <6>1
          <6> QED
            BY <2>6, <2>12, <4>2, <5>2, <6>2
        <5> QED
          BY <5>1, <5>2
      <4> QED
        BY <2>8, <3>1, <4>3, <4>4 DEF Kinds
    <3> QED
      BY <3>2, <3>3
  <2> QED
    BY <1>9, <2>9, <2>10, <2>11, <2>12 DEF Topics
<1> QED
  BY <1>9 DEF Improves, f

\* The event that is handled is no longer to come.
LEMMA HandledGoes ==
    ASSUME StateOK, StreamOK, pc = "handle", pc' # "handle", UNCHANGED <<kind, channel, wire>>, NEW B, NEW F
    PROVE  /\ Mended(Pending, B, F) => Mended(Pending', B, F)
           /\ Mended(Pending, B, F) /\ EffectOf(event) \in B => Comes(Pending', F)
           /\ Comes(Pending, F) /\ EffectOf(event) \notin F => Comes(Pending', F)
<1>1. channel \in Seq(Events) /\ event \in Events /\ wire \in Seq(LinesOf(kind))
  BY AheadIs DEF StreamOK, LinesOf
<1> DEFINE q == Effects(kind, <<event>> \o channel, wire)
           p == Effects(kind, channel, wire)
           n == Len(channel) + Len(wire)
<1>2. Pending = q /\ Pending' = p
  BY DEF Pending, Ahead
<1>3. /\ n \in Nat /\ DOMAIN q = 1..n + 1 /\ DOMAIN p = 1..n
      /\ \A i \in 1..n : p[i] = q[i + 1]
      /\ q[1] = EffectOf(event)
  BY <1>1, FirstEffect
<1> HIDE DEF q, p, n
<1>4. /\ Mended(q, B, F) => Mended(p, B, F)
      /\ Mended(q, B, F) /\ q[1] \in B => Comes(p, F)
      /\ Comes(q, F) /\ q[1] \notin F => Comes(p, F)
  BY <1>3, FirstGoes
<1> QED
  BY <1>2, <1>3, <1>4

\* Handling an update keeps what is to come enough to mend the cache.
LEMMA UpdateConverges ==
    ASSUME CacheAssumption, StateOK, HandedOut, StreamOK, PlainStream, HandleUpdate
    PROVE  (StreamMends => StreamMends') /\ (StreamMends /\ CacheMends => CacheMends')
<1> DEFINE f == EffectOf(event)
<1>1. /\ pc = "handle" /\ pc' = "receive" /\ UNCHANGED <<kind, comp, channel, wire, spaces, monitors>>
      /\ HandleClosed \/ HandleFocused \/ HandleTitle \/ HandleFloating
  BY Zenon DEF HandleUpdate, streamVars
<1>2. kind \in Kinds /\ f \in Effect /\ Plain(kind, event)
  BY <1>1, WindowsAre DEF StateOK, PlainStream
<1>3. Improves(f)
  BY <1>1, <1>2, ClosedImproves, AddingImproves, FloatingImproves
<1>4. ~f.refresh
  <2>1. HandleFloating => event.type \notin Refreshing
    BY NoType DEF HandleFloating
  <2>2. event.type \in Updating => event.type \notin Refreshing
    BY Types
  <2>3. event.type \notin Refreshing
    BY <1>1, <2>1, <2>2 DEF HandleClosed, HandleFocused, HandleTitle, Updating
  <2> QED
    BY <2>3, EffectFields
<1>5. \A B, F : /\ Mended(Pending, B, F) => Mended(Pending', B, F)
                /\ Mended(Pending, B, F) /\ f \in B => Comes(Pending', F)
                /\ Comes(Pending, F) /\ f \notin F => Comes(Pending', F)
  BY <1>1, HandledGoes
<1> HIDE DEF f
<1>6. ASSUME StreamMends PROVE StreamMends'
  BY <1>1, <1>5, <1>6 DEF StreamMends
<1>7. ASSUME StreamMends, CacheMends PROVE CacheMends'
  <2>1. \A F : F \in {Refreshes} => f \notin F
    BY <1>4 DEF Refreshes
  <2>2. (spaces' = comp'.active \/ Comes(Pending', Refreshes)) /\ (monitors' = comp'.mons \/ Comes(Pending', Refreshes))
    BY <1>1, <1>5, <1>7, <2>1 DEF CacheMends
  <2>3. ~Unmarked /\ ~Unmarked'
    BY <1>1 DEF Unmarked
  <2>4. ASSUME NEW t \in Topics(kind), NEW v \in Win
        PROVE  Right(kind, comp, windows', t, v) \/ Comes(Pending', Mends(kind, comp, t, v))
    <3> DEFINE M == Mends(kind, comp, t, v)
               S == Spoils(kind, comp, t, v)
    <3>1. Mended(Pending, S, M) /\ (Right(kind, comp, windows, t, v) \/ Comes(Pending, M))
      BY <1>7, <2>3, <2>4 DEF StreamMends, CacheMends
    <3>2. CASE f \in S
      BY <1>5, <3>1, <3>2
    <3>3. CASE f \notin S /\ (kind = "mango" /\ f.adds = v => Has(windows, v))
      <4>1. f \in M \/ Right(kind, comp, windows, t, v) => Right(kind, comp, windows', t, v)
        BY <1>3, <3>3 DEF Improves
      <4> HIDE DEF M
      <4>2. f \notin M /\ Comes(Pending, M) => Comes(Pending', M)
        BY <1>5
      <4> QED
        BY <3>1, <4>1, <4>2 DEF M
    <3>4. CASE kind = "mango" /\ f.adds = v /\ ~Has(windows, v)
      <4> DEFINE O == Mends(kind, comp, "open", v)
                 P == Spoils(kind, comp, "open", v)
      <4>1. Mended(Pending, P, O) /\ (Right(kind, comp, windows, "open", v) \/ Comes(Pending, O))
        BY <1>7, <2>3 DEF StreamMends, CacheMends, Topics
      <4>2. Comes(Pending', O)
        <5>1. CASE v \in DOMAIN comp.wins
          <6>1. ~Right(kind, comp, windows, "open", v)
            BY <3>4, <5>1 DEF Right
          <6>2. f \notin O
            BY <1>4, <3>4, <5>1 DEF Mends
          <6> QED
            BY <1>5, <4>1, <6>1, <6>2
        <5>2. CASE v \notin DOMAIN comp.wins
          <6>1. f \in P
            BY <1>2, <1>4, <3>4, <5>2 DEF Spoils
          <6> QED
            BY <1>5, <4>1, <6>1
        <5> QED
          BY <5>1, <5>2
      <4>3. O \subseteq M
        BY <3>4, <2>4 DEF Mends
      <4> HIDE DEF O, M
      <4>4. Comes(Pending', M)
        BY <4>2, <4>3 DEF Comes
      <4> QED
        BY <4>4 DEF M
    <3> QED
      BY <3>2, <3>3, <3>4
  <2> QED
    BY <1>1, <2>2, <2>3, <2>4 DEF CacheMends
<1> QED
  BY <1>6, <1>7
----------------------------------------------------------------------------
(* Every step keeps the stream and the cache mending. *)

Mending == (lost # "dropped" => StreamMends) /\ (Trusted => CacheMends)

\* Nothing is to come.
LEMMA NoEffects ==
    ASSUME NEW k PROVE DOMAIN Effects(k, << >>, << >>) = {}
<1>1. DOMAIN Effects(k, << >>, << >>) = 1..Len(<< >>) + Len(<< >>)
  BY DEF Effects
<1> QED
  BY <1>1

\* With no event and no line left, nothing can be spoilt or mended.
LEMMA NothingComes ==
    ASSUME channel = << >>, wire = << >>, pc # "handle"
    PROVE  StreamMends /\ \A F : ~Comes(Pending, F)
<1>1. Pending = Effects(kind, << >>, << >>)
  BY DEF Pending, Ahead
<1> QED
  BY <1>1, NoEffects DEF StreamMends, Mended, Comes

\* Nothing changes that they are about.
LEMMA QuietConverges ==
    ASSUME Mending, UNCHANGED <<kind, comp, windows, spaces, monitors, pc, event, channel, wire, intact, lost>>
    PROVE  Mending'
<1>1. Pending' = Pending
  BY DEF Pending, Ahead
<1>2. StreamMends' = StreamMends
  BY <1>1 DEF StreamMends
<1>3. CacheMends' = CacheMends
  BY <1>1 DEF CacheMends, Unmarked
<1>4. Trusted' = Trusted
  BY DEF Trusted
<1> QED
  BY <1>2, <1>3, <1>4 DEF Mending

\* The first query finds the windows as they are.
LEMMA StartConverges ==
    ASSUME CacheAssumption, CacheInv, PlainStream, Start PROVE Mending'
<1>1. /\ pc = "start" /\ pc' = "active" /\ QueryWindows /\ UNCHANGED <<kind, comp, spaces, monitors, wire, channel>>
  BY DEF Start
<1>2. wire' = << >> /\ channel' = << >>
  BY <1>1 DEF CacheInv, StreamOK
<1>3. StreamMends'
  <2>1. Pending' = Effects(kind', << >>, << >>)
    BY <1>1, <1>2 DEF Pending, Ahead
  <2> QED
    BY <2>1, NoEffects DEF StreamMends, Mended
<1>4. Trusted' => CacheMends'
  BY <1>1, QueriedRight DEF CacheInv, PlainStream
<1> QED
  BY <1>3, <1>4 DEF Mending

\* A refresh begins: whatever it was to mend is queried anew.
LEMMA RefreshConverges ==
    ASSUME CacheAssumption, CacheInv, PlainStream, Mending, HandleRefresh PROVE Mending'
<1>1. /\ pc = "handle" /\ pc' = "active" /\ QueryWindows /\ UNCHANGED <<kind, comp, spaces, monitors, wire, channel>>
  BY DEF HandleRefresh
<1>2. \A B, F : Mended(Pending, B, F) => Mended(Pending', B, F)
  BY <1>1, HandledGoes DEF CacheInv
<1>3. StreamMends => StreamMends'
  BY <1>1, <1>2 DEF StreamMends
<1>4. lost' # "dropped" => lost # "dropped"
  BY <1>1 DEF QueryWindows, Missed
<1>5. Trusted' => CacheMends'
  BY <1>1, QueriedRight DEF CacheInv, PlainStream
<1> QED
  BY <1>3, <1>4, <1>5 DEF Mending

\* An update keeps the cache mending.
LEMMA UpdateMends ==
    ASSUME CacheAssumption, CacheInv, PlainStream, Mending, HandleUpdate PROVE Mending'
<1>1. pc = "handle" /\ pc' = "receive" /\ lost' = lost
  BY Zenon DEF HandleUpdate
<1>2. (StreamMends => StreamMends') /\ (StreamMends /\ CacheMends => CacheMends')
  BY UpdateConverges DEF CacheInv
<1>3. Trusted' => lost = "no" /\ Trusted
  BY <1>1 DEF Trusted
<1> QED
  BY <1>1, <1>2, <1>3 DEF Mending

\* The lines a compositor greets its subscriber with make for refreshes.
LEMMA GreetingMends ==
    ASSUME CacheAssumption, NEW k \in Kinds, NEW c \in Compositors
    PROVE  /\ Greeting(k, c) \in Seq(Said(k))
           /\ \A i \in 1..Len(Greeting(k, c)) : LineEffect(k, Greeting(k, c)[i]).refresh
<1> DEFINE g == Greeting(k, c)
<1>1. g \in Seq(Said(k))
  BY GreetingSaid
<1>2. \A i \in 1..Len(g) : g[i].ev \in {"WorkspacesChanged", "WindowsChanged", "all-clients"}
                           /\ (k = "niri" => g[i].ev \in {"WorkspacesChanged", "WindowsChanged"})
                           /\ (k = "mango" => g[i].ev = "all-clients") /\ k # "hyprland"
  <2>1. CASE k = "hyprland"
    <3>1. Len(g) = 0
      BY <2>1 DEF Greeting
    <3> HIDE DEF g
    <3> QED
      BY <3>1
  <2>2. CASE k = "niri"
    <3> DEFINE a == Line("WorkspacesChanged", None, c)
               b == Line("WindowsChanged", None, c)
    <3>1. g = <<a, b>>
      BY <2>2 DEF Greeting
    <3>2. a.ev = "WorkspacesChanged" /\ b.ev = "WindowsChanged"
      BY DEF Line
    <3> HIDE DEF a, b, g
    <3>3. Len(g) = 2 /\ g[1] = a /\ g[2] = b /\ \A i \in 1..2 : i = 1 \/ i = 2
      BY <3>1
    <3> QED
      BY <2>2, <3>2, <3>3
  <2>3. CASE k = "mango"
    <3> DEFINE a == Line("all-clients", None, c)
    <3>1. g = <<a>>
      BY <2>3 DEF Greeting
    <3>2. a.ev = "all-clients"
      BY DEF Line
    <3> HIDE DEF a, g
    <3>3. Len(g) = 1 /\ g[1] = a /\ \A i \in 1..1 : i = 1
      BY <3>1
    <3> QED
      BY <2>3, <3>2, <3>3
  <2> QED
    BY <2>1, <2>2, <2>3 DEF Kinds
<1> HIDE DEF g
<1>3. ASSUME NEW i \in 1..Len(g) PROVE LineEffect(k, g[i]).refresh
  <2>1. g[i] \in Said(k)
    BY <1>1
  <2>2. LineEffect(k, g[i]) = EffectOf(EventOf(k, g[i]))
    BY <2>1, LineIsEffect
  <2>3. CASE k = "niri"
    <3> DEFINE z == [v \in Win |-> None]
    <3>1. EventOf(k, g[i]) = NiriEvent(g[i], z, FALSE) /\ z \in [Win -> BOOLEAN \union {None}]
      BY <2>3 DEF EventOf
    <3> HIDE DEF z
    <3>2. Refresh(EffectOf(NiriEvent(g[i], z, FALSE)))
      BY <1>2, <2>1, <2>3, <3>1, NiriSays
    <3> QED
      BY <2>2, <3>1, <3>2 DEF Refresh
  <2>4. CASE k = "mango"
    <3>1. EventOf(k, g[i]) = MangoEvent(g[i])
      BY <2>4 DEF EventOf
    <3>2. Refresh(EffectOf(MangoEvent(g[i])))
      <4>1. g[i].ev # "focusing-client"
        BY <1>2, <2>4
      <4> QED
        BY <2>1, <2>4, <4>1, MangoSays
    <3> QED
      BY <2>2, <3>1, <3>2 DEF Refresh
  <2> QED
    BY <1>2, <2>3, <2>4 DEF Kinds
<1> QED
  BY <1>1, <1>3 DEF g

\* The subscription begins with lines that make for refreshes.
LEMMA SubscribeConverges ==
    ASSUME CacheAssumption, CacheInv, Mending, Subscribe PROVE Mending'
<1> DEFINE g == Greeting(kind, comp)
<1>1. /\ pc = "subscribe" /\ pc' = "receive" /\ wire' = g
      /\ UNCHANGED <<kind, comp, windows, spaces, monitors, channel, lost>>
  BY DEF Subscribe, cacheVars
<1>2. wire = << >> /\ channel = << >>
  BY <1>1 DEF CacheInv, StreamOK
<1>3. /\ g \in Seq(Said(kind)) /\ \A i \in 1..Len(g) : LineEffect(kind, g[i]).refresh
  BY GreetingMends DEF CacheInv, StateOK
<1> HIDE DEF g
<1>4. Pending' = Effects(kind, << >>, g)
  BY <1>1, <1>2 DEF Pending, Ahead
<1>5. /\ DOMAIN Pending' = 1..Len(g)
      /\ \A i \in 1..Len(g) : Pending'[i] = LineEffect(kind, g[i])
  <2>1. Len(<< >>) = 0 /\ Len(g) \in Nat
    BY <1>3
  <2>2. /\ DOMAIN Effects(kind, << >>, g) = 1..Len(<< >>) + Len(g)
        /\ \A i \in 1..Len(g) : Effects(kind, << >>, g)[Len(<< >>) + i] = LineEffect(kind, g[i])
    BY <2>1, EffectsAre
  <2>3. 0 + Len(g) = Len(g) /\ \A i \in 1..Len(g) : 0 + i = i
    BY <2>1
  <2> QED
    BY <1>4, <2>1, <2>2, <2>3
<1>6. StreamMends'
  <2>1. \A i \in DOMAIN Pending' : Pending'[i].refresh
    BY <1>3, <1>5
  <2> QED
    BY <2>1 DEF StreamMends, Mended, Spoils
<1>7. ASSUME Trusted' PROVE CacheMends'
  <2>1. CacheMends
    BY <1>1, <1>7 DEF Trusted, Mending
  <2>2. \A F : ~Comes(Pending, F)
    BY <1>1, <1>2, NothingComes
  <2> QED
    BY <1>1, <2>1, <2>2 DEF CacheMends, Unmarked
<1> QED
  BY <1>6, <1>7 DEF Mending

\* An event that is received is still to come.
LEMMA ReceiveConverges ==
    ASSUME CacheAssumption, CacheInv, CacheInv', Mending, Receive PROVE Mending'
<1>1. /\ pc = "receive" /\ channel # << >> /\ event' = Head(channel) /\ channel' = Tail(channel)
      /\ pc' = IF event'.type = "closed" THEN "closed" ELSE "handle"
      /\ UNCHANGED <<kind, comp, windows, spaces, monitors, wire, lost>>
  BY DEF Receive, cacheVars
<1>2. CASE pc' = "closed"
  <2>1. StreamMends'
    <3>1. Pending' = Effects(kind', << >>, << >>)
      BY <1>2 DEF CacheInv, StreamOK, Pending, Ahead
    <3> QED
      BY <3>1, NoEffects DEF StreamMends, Mended
  <2> QED
    BY <1>2, <2>1 DEF Mending, Trusted
<1>3. CASE pc' = "handle"
  <2>1. channel \in Seq(Events)
    BY AheadIs DEF CacheInv
  <2>2. <<Head(channel)>> \o Tail(channel) = channel
    BY <1>1, <2>1
  <2>3. Pending' = Pending
    BY <1>1, <1>3, <2>2 DEF Pending, Ahead
  <2>4. Trusted' => Trusted
    BY <1>1, <1>3 DEF Trusted
  <2>5. StreamMends' = StreamMends
    BY <1>1, <2>3 DEF StreamMends
  <2>6. CacheMends => CacheMends'
    BY <1>1, <1>3, <2>3 DEF CacheMends, Unmarked
  <2> QED
    BY <1>1, <2>4, <2>5, <2>6 DEF Mending
<1> QED
  BY <1>1, <1>2, <1>3

\* The query for the active window marks the one that has the focus.
LEMMA MarkedRight ==
    ASSUME CacheAssumption, CacheInv, CacheMends, comp.focus # None, windows' = Marked(comp.focus),
           UNCHANGED <<kind, comp>>
    PROVE  \A t \in Topics(kind), w \in Win :
             Right(kind, comp, windows', t, w) \/ Comes(Pending, Mends(kind, comp, t, w))
<1> DEFINE ws == Marked(comp.focus)
<1>1. windows \in Seq(Window) /\ NoTwo(windows)
  BY DEF CacheInv, HandedOut
<1>2. /\ Len(windows) \in Nat /\ AsBefore(ws, windows) /\ SameIn({"title", "ws", "full", "floating"}, ws, windows)
      /\ \A i \in 1..Len(windows) : ws[i].focused <=> windows[i].id = comp.focus
  BY <1>1, UpdatesAre
<1> HIDE DEF ws
<1>3. /\ SameIn({"ws", "full"}, ws, windows) /\ SameIn({"title", "floating"}, ws, windows)
      /\ SameIn({"floating"}, ws, windows)
  BY <1>2 DEF SameIn
<1>4. ASSUME NEW w \in Win
      PROVE  /\ Right(kind, comp, windows, "open", w) => Right(kind, comp, ws, "open", w)
             /\ Right(kind, comp, windows, "attributes", w) => Right(kind, comp, ws, "attributes", w)
             /\ Right(kind, comp, windows, "float", w) => Right(kind, comp, ws, "float", w)
  BY <1>2, <1>3, AsRight
<1>5. ASSUME NEW w \in Win PROVE Right(kind, comp, ws, "focus", w)
  BY <1>2 DEF Right, AsBefore
<1>6. \A t \in Topics(kind) : t # "focus" => t \in {"open", "attributes", "float"}
  BY DEF Topics
<1>7. ASSUME NEW t \in Topics(kind), NEW w \in Win
      PROVE  Right(kind, comp, ws, t, w) \/ Comes(Pending, Mends(kind, comp, t, w))
  <2>1. CASE t = "focus"
    BY <1>5, <2>1
  <2>2. CASE t # "focus"
    <3>1. Right(kind, comp, windows, t, w) \/ Comes(Pending, Mends(kind, comp, t, w))
      BY <2>2 DEF CacheMends
    <3>2. Right(kind, comp, windows, t, w) => Right(kind, comp, ws, t, w)
      BY <1>4, <1>6, <2>2
    <3> QED
      BY <3>1, <3>2
  <2> QED
    BY <2>1, <2>2
<1> QED
  BY <1>7 DEF ws

\* The query for the active window brings the focus.
LEMMA ActiveConverges ==
    ASSUME CacheAssumption, CacheInv, PlainStream, Mending, QueryActiveWindow PROVE Mending'
<1>1. /\ pc = "active" /\ pc' = "workspaces"
      /\ UNCHANGED <<kind, comp, spaces, monitors, event, wire, channel>>
  BY DEF QueryActiveWindow, streamVars
<1>2. Pending' = Pending
  BY <1>1 DEF Pending, Ahead
<1>3. StreamMends' = StreamMends
  BY <1>1, <1>2 DEF StreamMends
<1>4. CASE Missed /\ intact' = FALSE
  BY <1>1, <1>3, <1>4 DEF Mending, Missed, Trusted
<1>5. CASE /\ IF comp.focus = None THEN UNCHANGED <<windows, reply>> ELSE MarkWindowFocused(comp.focus)
           /\ UNCHANGED <<lost, intact>>
  <2>1. Trusted' => Trusted
    BY <1>1, <1>5 DEF Trusted
  <2>2. ASSUME CacheMends PROVE CacheMends'
    <3>1. \A t \in Topics(kind), w \in Win :
            Right(kind, comp, windows', t, w) \/ Comes(Pending, Mends(kind, comp, t, w))
      <4>1. CASE comp.focus # None
        <5>1. windows' = Marked(comp.focus)
          BY <1>5, <4>1 DEF MarkWindowFocused, InPlace
        <5> QED
          BY <1>1, <2>2, <4>1, <5>1, MarkedRight
      <4>2. CASE comp.focus = None
        <5>1. windows' = windows
          BY <1>5, <4>2
        <5>2. CASE Unmarked
          <6>1. \A i \in 1..Len(windows) : ~windows[i].focused
            BY <2>2, <5>2 DEF CacheMends
          <6>2. \A w \in Win : w # comp.focus
            BY <4>2 DEF CacheAssumption
          <6>3. \A w \in Win : Right(kind, comp, windows, "focus", w)
            BY <6>1, <6>2 DEF Right
          <6> QED
            BY <2>2, <5>1, <6>3 DEF CacheMends
        <5>3. CASE ~Unmarked
          BY <2>2, <5>1, <5>3 DEF CacheMends
        <5> QED
          BY <5>2, <5>3
      <4> QED
        BY <4>1, <4>2
    <3>2. ~Unmarked'
      BY <1>1 DEF Unmarked
    <3>3. monitors = comp.mons \/ Comes(Pending, Refreshes) \/ pc' \in {"active", "workspaces", "monitors"}
      BY <1>1
    <3> QED
      BY <1>1, <1>2, <3>1, <3>2, <3>3 DEF CacheMends
  <2> QED
    BY <1>3, <1>5, <2>1, <2>2 DEF Mending
<1> QED
  BY <1>4, <1>5 DEF QueryActiveWindow

\* The query for the workspaces brings the active one.
LEMMA WorkspacesConverges ==
    ASSUME Mending, QueryWorkspaces PROVE Mending'
<1>1. /\ pc = "workspaces" /\ pc' = "monitors"
      /\ UNCHANGED <<kind, comp, windows, monitors, event, wire, channel>>
  BY DEF QueryWorkspaces, streamVars
<1>2. Pending' = Pending
  BY <1>1 DEF Pending, Ahead
<1>3. StreamMends' = StreamMends
  BY <1>1, <1>2 DEF StreamMends
<1>4. CASE Missed /\ intact' = FALSE
  BY <1>1, <1>3, <1>4 DEF Mending, Missed, Trusted
<1>5. CASE spaces' = comp.active /\ UNCHANGED <<lost, intact>>
  <2>1. Trusted' => Trusted
    BY <1>1, <1>5 DEF Trusted
  <2>2. CacheMends => CacheMends'
    BY <1>1, <1>2, <1>5 DEF CacheMends, Unmarked
  <2> QED
    BY <1>3, <1>5, <2>1, <2>2 DEF Mending
<1> QED
  BY <1>4, <1>5 DEF QueryWorkspaces

\* The query for the monitors completes a refresh.
LEMMA MonitorsConverges ==
    ASSUME Mending, QueryMonitors PROVE Mending'
<1>1. /\ pc = "monitors" /\ pc' \in {"subscribe", "receive"}
      /\ UNCHANGED <<kind, comp, windows, spaces, wire, channel>>
  BY DEF QueryMonitors, streamVars
<1>2. Pending' = Pending
  BY <1>1 DEF Pending, Ahead
<1>3. StreamMends' = StreamMends
  BY <1>1, <1>2 DEF StreamMends
<1>4. CASE Missed /\ intact' = FALSE
  BY <1>1, <1>3, <1>4 DEF Mending, Missed, Trusted
<1>5. CASE /\ monitors' = comp.mons
           /\ lost' = IF intact /\ lost = "missed" /\ event.type # "start" THEN "no" ELSE lost
  <2>1. Trusted' => Trusted
    BY <1>1, <1>5 DEF Trusted
  <2>2. CacheMends => CacheMends'
    BY <1>1, <1>2, <1>5 DEF CacheMends, Unmarked
  <2>3. lost' # "dropped" => lost # "dropped"
    BY <1>5
  <2> QED
    BY <1>3, <2>1, <2>2, <2>3 DEF Mending
<1> QED
  BY <1>4, <1>5 DEF QueryMonitors

\* Decoding a line takes nothing from what is to come, or loses an event.
LEMMA DecodeConverges ==
    ASSUME CacheAssumption, CacheInv, PlainStream, Mending, Decode PROVE Mending'
<1>1. /\ UNCHANGED <<kind, comp, windows, spaces, monitors, intact>>
      /\ (UNCHANGED <<pc, event>>) \/ (pc = "receive" /\ pc' = "handle")
      /\ lost' = "dropped" \/ lost' = lost
  BY DecodeServes DEF CacheInv
<1>2. CASE lost' = "dropped"
  BY <1>2 DEF Mending, Trusted
<1>3. CASE lost' # "dropped"
  <2>1. lost' = lost
    BY <1>1, <1>3
  <2>2. None \notin Win
    BY DEF CacheAssumption
  <2>3. ASSUME NEW t, NEW w \in Win
        PROVE  LET B == Spoils(kind, comp, t, w)
                   F == Mends(kind, comp, t, w)
               IN  (Mended(Pending, B, F) => Mended(Pending', B, F)) /\ (Comes(Pending, F) => Comes(Pending', F))
    <3> DEFINE B == Spoils(kind, comp, t, w)
               F == Mends(kind, comp, t, w)
    <3>1. \A f, g : Serves(f, g) => (f \in B => g \in B) /\ (g \in F => f \in F)
      BY <2>2, ServesIs
    <3>2. \A g : Idle(g) => g \notin F
      BY <2>2, IdleIs
    <3> HIDE DEF B, F
    <3>3. (Mended(Pending, B, F) => Mended(Pending', B, F)) /\ (Comes(Pending, F) => Comes(Pending', F))
      BY <1>3, <3>1, <3>2, DecodeMends DEF CacheInv
    <3> QED
      BY <3>3 DEF B, F
  <2>4. Comes(Pending, Refreshes) => Comes(Pending', Refreshes)
    <3>1. PICK w : w \in Win
      BY DEF CacheAssumption
    <3> DEFINE B == {}
               F == Refreshes
    <3>2. \A f, g : Serves(f, g) => (f \in B => g \in B) /\ (g \in F => f \in F)
      BY <2>2, <3>1, ServesIs
    <3>3. \A g : Idle(g) => g \notin F
      BY <2>2, <3>1, IdleIs
    <3> HIDE DEF B, F
    <3>4. Comes(Pending, F) => Comes(Pending', F)
      BY <1>3, <3>2, <3>3, DecodeMends DEF CacheInv
    <3> QED
      BY <3>4 DEF F
  <2>5. StreamMends => StreamMends'
    BY <1>1, <2>3 DEF StreamMends
  <2>6. Trusted' => Trusted
    BY <1>1, <2>1 DEF Trusted
  <2>7. Unmarked' <=> Unmarked
    BY <1>1 DEF Unmarked
  <2>8. ASSUME CacheMends PROVE CacheMends'
    <3>1. \A t \in Topics(kind), w \in Win : (t = "focus" => ~Unmarked) =>
            Right(kind, comp, windows, t, w) \/ Comes(Pending', Mends(kind, comp, t, w))
      BY <2>3, <2>8 DEF CacheMends
    <3>2. /\ Unmarked => \A i \in 1..Len(windows) : ~windows[i].focused
          /\ pc' \in {"active", "workspaces"} \/ spaces = comp.active \/ Comes(Pending', Refreshes)
          /\ pc' \in {"active", "workspaces", "monitors"} \/ monitors = comp.mons \/ Comes(Pending', Refreshes)
      BY <1>1, <2>4, <2>8 DEF CacheMends
    <3> QED
      BY <1>1, <2>7, <3>1, <3>2 DEF CacheMends
  <2> QED
    BY <2>1, <2>5, <2>6, <2>8 DEF Mending
<1> QED
  BY <1>2, <1>3

\* A change that the stream tells of: its lines mend what it spoils.
LEMMA ToldConverges ==
    ASSUME CacheAssumption, CacheInv, Mending, Streaming, NEW x \in Changes(comp),
           comp' = x.to, wire' = wire \o Lines(kind, x.what, x.w, x.to),
           UNCHANGED <<kind, windows, spaces, monitors, pc, event, channel, intact, lost>>
    PROVE  Mending'
<1> DEFINE new == Lines(kind, x.what, x.w, x.to)
           q == Effects(kind, Ahead, wire)
           p == Effects(kind, Ahead, wire \o new)
           n == Len(Ahead) + Len(wire)
           E == Tells(kind, x)
<1>1. kind \in Kinds /\ comp \in Compositors
  BY DEF CacheInv, StateOK
<1>2. new \in Seq(LinesOf(kind))
  <2>1. x.to \in Compositors /\ x.what \in Changing \union {"close", "switch", "plug", "blur"}
        /\ (x.what \in Changing => x.w \in DOMAIN x.to.wins) /\ x.w \in Win \union {None}
    BY <1>1, ChangesLead DEF CacheAssumption
  <2>2. new \in Seq(Said(kind))
    BY <1>1, <2>1, LinesSaid
  <2> QED
    BY <2>2, SeqMonotonic DEF LinesOf
<1>3. Ahead \in Seq(Events) /\ wire \in Seq(LinesOf(kind))
  BY AheadIs DEF CacheInv, StreamOK, LinesOf
<1>4. /\ n \in Nat /\ Len(new) \in Nat /\ DOMAIN q = 1..n /\ DOMAIN p = 1..n + Len(new)
      /\ \A i \in 1..n : p[i] = q[i]
      /\ \A i \in 1..Len(new) : p[n + i] = LineEffect(kind, new[i])
  <2> HIDE DEF new
  <2> QED
    BY <1>2, <1>3, MoreEffects
<1>5. Pending = q /\ Pending' = p
  BY DEF Pending, Ahead
<1>6. /\ \A i \in 1..Len(new) : LineEffect(kind, new[i]) \in E
      /\ \A f \in E : \E i \in 1..Len(new) : LineEffect(kind, new[i]) = f
  BY DEF Tells, Among
<1> HIDE DEF new, q, p, n, E
<1>7. /\ \A i \in 1..Len(new) : p[n + i] \in E
      /\ \A f \in E : \E i \in 1..Len(new) : p[n + i] = f
  BY <1>4, <1>6
<1>8. \A B, F, B2, F2 :
        /\ (\E f \in E : f \in F2) => Comes(p, F2)
        /\ Comes(q, F) /\ F \subseteq F2 => Comes(p, F2)
        /\ /\ \A f \in E : f \notin B2
           /\ (\E f \in E : f \in F2) \/ (F \subseteq F2 /\ B2 \subseteq B /\ Mended(q, B, F))
           => Mended(p, B2, F2)
  <2> TAKE B, F, B2, F2
  <2>1. /\ (\E i \in 1..Len(new) : p[n + i] \in F2) => Comes(p, F2)
        /\ Comes(q, F) /\ F \subseteq F2 => Comes(p, F2)
        /\ /\ \A i \in 1..Len(new) : p[n + i] \notin B2
           /\ \/ \E i \in 1..Len(new) : p[n + i] \in F2
              \/ F \subseteq F2 /\ B2 \subseteq B /\ Mended(q, B, F)
           => Mended(p, B2, F2)
    BY <1>4, GoesOn
  <2>2. (\E f \in E : f \in F2) => \E i \in 1..Len(new) : p[n + i] \in F2
    BY <1>7
  <2>3. (\A f \in E : f \notin B2) => \A i \in 1..Len(new) : p[n + i] \notin B2
    BY <1>7
  <2> QED
    BY <2>1, <2>2, <2>3
<1>9. ASSUME NEW t \in Topics(kind), NEW v \in Win
      PROVE  /\ Mended(q, Spoils(kind, comp, t, v), Mends(kind, comp, t, v))
                  => Mended(p, Spoils(kind, x.to, t, v), Mends(kind, x.to, t, v))
             /\ \A ws : Right(kind, comp, ws, t, v) \/ Comes(q, Mends(kind, comp, t, v))
                  => Right(kind, x.to, ws, t, v) \/ Comes(p, Mends(kind, x.to, t, v))
  <2> DEFINE B == Spoils(kind, comp, t, v)
             F == Mends(kind, comp, t, v)
             B2 == Spoils(kind, x.to, t, v)
             F2 == Mends(kind, x.to, t, v)
  <2>1. \A f \in E : f \notin B2
    BY <1>1, TellingSpoilsNothing DEF E
  <2>2. \/ \E f \in E : f \in F2
        \/ /\ F \subseteq F2 /\ B2 \subseteq B
           /\ \A ws : Right(kind, comp, ws, t, v) => Right(kind, x.to, ws, t, v)
    BY <1>1, StillMends DEF E
  <2> HIDE DEF B, F, B2, F2
  <2>3. Mended(q, B, F) => Mended(p, B2, F2)
    BY <1>8, <2>1, <2>2
  <2>4. \A ws : Right(kind, comp, ws, t, v) \/ Comes(q, F) => Right(kind, x.to, ws, t, v) \/ Comes(p, F2)
    BY <1>8, <2>2
  <2> QED
    BY <2>3, <2>4 DEF B, F, B2, F2
<1>10. /\ Comes(q, Refreshes) => Comes(p, Refreshes)
       /\ (x.to.active = comp.active /\ x.to.mons = comp.mons) \/ Comes(p, Refreshes)
  <2>1. (x.to.active = comp.active /\ x.to.mons = comp.mons) \/ \E f \in E : f \in Refreshes
    BY <1>1, RefreshTold DEF E
  <2> DEFINE F == Refreshes
  <2>2. F \subseteq F
    OBVIOUS
  <2> HIDE DEF F
  <2>3. Comes(q, F) => Comes(p, F)
    BY <1>8, <2>2
  <2>4. (\E f \in E : f \in F) => Comes(p, F)
    BY <1>8
  <2> QED
    BY <2>1, <2>3, <2>4 DEF F
<1>11. StreamMends => StreamMends'
  BY <1>5, <1>9 DEF StreamMends
<1>12. Trusted' => Trusted
  BY DEF Trusted
<1>13. ASSUME CacheMends PROVE CacheMends'
  <2>1. Unmarked' <=> Unmarked
    BY DEF Unmarked
  <2>2. \A t \in Topics(kind), v \in Win : (t = "focus" => ~Unmarked) =>
          Right(kind, x.to, windows, t, v) \/ Comes(p, Mends(kind, x.to, t, v))
    BY <1>5, <1>9, <1>13 DEF CacheMends
  <2>3. /\ pc \in {"active", "workspaces"} \/ spaces = x.to.active \/ Comes(p, Refreshes)
        /\ pc \in {"active", "workspaces", "monitors"} \/ monitors = x.to.mons \/ Comes(p, Refreshes)
        /\ Unmarked => \A i \in 1..Len(windows) : ~windows[i].focused
    BY <1>5, <1>10, <1>13 DEF CacheMends
  <2> QED
    BY <1>5, <2>1, <2>2, <2>3 DEF CacheMends
<1> QED
  BY <1>11, <1>12, <1>13 DEF Mending

\* A change that no stream tells of is missed, or found by the first query.
LEMMA ChangeConverges ==
    ASSUME CacheAssumption, CacheInv, PlainStream, Mending, Change PROVE Mending'
<1>1. /\ changes # MaxChanges /\ UNCHANGED <<kind, windows, spaces, monitors, pc, event, channel, intact>>
      /\ \E x \in Changes(comp) :
           comp' = x.to /\ wire' = IF Streaming THEN wire \o Lines(kind, x.what, x.w, x.to) ELSE wire
      /\ IF Streaming \/ pc = "start" THEN UNCHANGED lost ELSE Missed
  BY DEF Change, cacheVars, CacheAssumption
<1>2. CASE Streaming
  BY <1>1, <1>2, ToldConverges
<1>3. CASE ~Streaming
  <2>1. /\ pc # "closed" /\ \A i \in 1..Len(channel) : channel[i].type # "closed"
        /\ \A i \in 1..Len(wire) : wire[i].ev # "eof"
    BY <1>1 DEF PlainStream
  <2>2. /\ \A l \in Range(wire) : l.ev # "eof"
        /\ \A e \in Range(channel) : e.type # "closed"
    <3>1. wire \in Seq(LinesOf(kind)) /\ channel \in Seq(Events)
      BY AheadIs DEF CacheInv, StreamOK, LinesOf
    <3>2. DOMAIN wire = 1..Len(wire) /\ DOMAIN channel = 1..Len(channel)
      BY <3>1
    <3> QED
      BY <2>1, <3>2 DEF Range
  <2>3. pc \in {"start", "subscribe"} \/ event.type = "start"
    BY <1>3, <2>1, <2>2 DEF Streaming
  <2>4. wire = << >> /\ channel = << >> /\ pc # "handle"
    <3>1. event.type = "start" => event.type \notin Told
      BY Zenon DEF Told, Refreshing
    <3> QED
      BY <2>3, <3>1 DEF CacheInv, StreamOK
  <2>5. StreamMends'
    <3>1. Pending' = Effects(kind', << >>, << >>)
      BY <1>1, <1>3, <2>4 DEF Pending, Ahead
    <3> QED
      BY <3>1, NoEffects DEF StreamMends, Mended
  <2>6. ~Trusted'
    <3>1. CASE pc = "start"
      BY <1>1, <3>1 DEF Trusted
    <3>2. CASE pc # "start"
      <4>1. lost' # "no"
        BY <1>1, <1>3, <3>2 DEF Missed, PlainStream
      <4> QED
        BY <1>1, <2>3, <3>2, <4>1 DEF Trusted
    <3> QED
      BY <3>1, <3>2
  <2> QED
    BY <2>5, <2>6 DEF Mending
<1> QED
  BY <1>2, <1>3

\* The end of the stream spoils nothing.
LEMMA EndConverges ==
    ASSUME CacheAssumption, CacheInv, Mending, StreamEnds PROVE Mending'
<1> DEFINE end == Line("eof", None, comp)
           new == <<end>>
           q == Effects(kind, Ahead, wire)
           p == Effects(kind, Ahead, wire \o new)
           n == Len(Ahead) + Len(wire)
<1>1. /\ wire' = Append(wire, end)
      /\ UNCHANGED <<kind, comp, windows, spaces, monitors, pc, event, channel, intact, lost>>
  BY DEF StreamEnds, cacheVars
<1>2. Ahead \in Seq(Events) /\ wire \in Seq(LinesOf(kind)) /\ comp \in Compositors /\ kind \in Kinds
  BY AheadIs DEF CacheInv, StateOK, StreamOK, LinesOf
<1>3. end \in LinesOf(kind) /\ end.ev = "eof"
  BY <1>2 DEF Line, LinesOf, Ends
<1> HIDE DEF end
<1>4. new \in Seq(LinesOf(kind)) /\ wire' = wire \o new /\ Len(new) = 1 /\ new[1] = end
  BY <1>1, <1>2, <1>3
<1> HIDE DEF new
<1>5. /\ n \in Nat /\ DOMAIN q = 1..n /\ DOMAIN p = 1..n + 1
      /\ \A i \in 1..n : p[i] = q[i]
      /\ \A i \in 1..1 : p[n + i] = LineEffect(kind, new[i])
  <2>1. /\ n \in Nat /\ DOMAIN q = 1..n /\ DOMAIN p = 1..n + Len(new)
        /\ \A i \in 1..n : p[i] = q[i]
        /\ \A i \in 1..Len(new) : p[n + i] = LineEffect(kind, new[i])
    <3>1. new \in Seq(LinesOf(kind))
      BY <1>4
    <3> QED
      BY <1>2, <3>1, MoreEffects
  <2> HIDE DEF n, p, q
  <2> QED
    BY <1>4, <2>1
<1>6. \A i \in 1..1 : p[n + i] = Nothing
  <2>1. \A i \in 1..1 : i = 1
    OBVIOUS
  <2> QED
    BY <1>3, <1>4, <1>5, <2>1 DEF LineEffect
<1>7. Pending = q /\ Pending' = p
  BY <1>1, <1>4 DEF Pending, Ahead
<1> HIDE DEF q, p, n
<1>8. \A B, F : Nothing \notin B => /\ Comes(q, F) => Comes(p, F)
                                    /\ Mended(q, B, F) => Mended(p, B, F)
  <2> TAKE B, F
  <2>1. 1 \in Nat /\ F \subseteq F /\ B \subseteq B
    OBVIOUS
  <2>2. /\ Comes(q, F) /\ F \subseteq F => Comes(p, F)
        /\ /\ \A i \in 1..1 : p[n + i] \notin B
           /\ \/ \E i \in 1..1 : p[n + i] \in F
              \/ F \subseteq F /\ B \subseteq B /\ Mended(q, B, F)
           => Mended(p, B, F)
    BY <1>5, <2>1, GoesOn
  <2> QED
    BY <1>6, <2>1, <2>2
<1>9. \A t \in Topics(kind), w \in Win : Nothing \notin Spoils(kind, comp, t, w)
  <2>1. Idle(Nothing)
    BY DEF Idle, Nothing, Effect, Update
  <2> QED
    BY <2>1, IdleIs DEF CacheAssumption
<1>10. \A F : Comes(q, F) => Comes(p, F)
  <2> TAKE F
  <2>1. Nothing \notin {}
    OBVIOUS
  <2> QED
    BY <1>8, <2>1
<1>11. StreamMends => StreamMends'
  BY <1>1, <1>7, <1>8, <1>9 DEF StreamMends
<1>12. CacheMends => CacheMends'
  BY <1>1, <1>7, <1>10 DEF CacheMends, Unmarked
<1>13. Trusted' => Trusted
  BY <1>1 DEF Trusted
<1> QED
  BY <1>1, <1>11, <1>12, <1>13 DEF Mending

\* Every step keeps the stream and the cache mending.
LEMMA MendingStep ==
    ASSUME CacheAssumption, CacheInv, CacheInv', PlainStream, Mending, [Next]_vars PROVE Mending'
<1>1. CASE UNCHANGED vars
  BY <1>1, QuietConverges DEF vars, cacheVars, streamVars, bounds
<1>2. CASE FetchOutputs \/ GetWindows \/ Encode
  BY <1>2, QuietConverges DEF FetchOutputs, GetWindows, Encode, cacheVars, streamVars, bounds
<1>3. CASE Start \/ Subscribe \/ Receive
  BY <1>3, StartConverges, SubscribeConverges, ReceiveConverges
<1>4. CASE HandleRefresh \/ HandleUpdate
  BY <1>4, RefreshConverges, UpdateMends
<1>5. CASE QueryActiveWindow \/ QueryWorkspaces \/ QueryMonitors
  BY <1>5, ActiveConverges, WorkspacesConverges, MonitorsConverges
<1>6. CASE Decode \/ Change \/ StreamEnds
  BY <1>6, DecodeConverges, ChangeConverges, EndConverges
<1> QED
  BY <1>1, <1>2, <1>3, <1>4, <1>5, <1>6 DEF Next, Daemon, Watcher

\* At every time the stream that is to come leaves the cache right, unless
\* an event was dropped or an answer missed.
THEOREM Converges == Spec => [](CacheInv /\ Convergence)
<1>1. Convergence <=> PlainStream /\ Mending
  BY DEF Convergence, Mending
<1>2. Init => CacheInv
  BY CacheAssumption, CacheStart
<1>3. Init => PlainStream /\ Mending
  <2> SUFFICES ASSUME Init PROVE PlainStream /\ Mending
    OBVIOUS
  <2>1. /\ pc = "start" /\ wire = << >> /\ channel = << >> /\ lost = "no" /\ intact \in BOOLEAN
    BY DEF Init
  <2>2. PlainStream
    <3>1. 1..Len(<< >>) = {}
      OBVIOUS
    <3> QED
      BY <2>1, <3>1 DEF PlainStream
  <2>3. StreamMends
    BY <2>1, NothingComes
  <2> QED
    BY <2>1, <2>2, <2>3 DEF Mending, Trusted
<1>4. CacheInv /\ [Next]_vars => CacheInv'
  BY CacheAssumption, CacheStep
<1>5. CacheInv /\ PlainStream /\ Mending /\ [Next]_vars => PlainStream' /\ Mending'
  <2> SUFFICES ASSUME CacheInv, PlainStream, Mending, [Next]_vars PROVE PlainStream' /\ Mending'
    OBVIOUS
  <2>1. CacheInv'
    BY <1>4
  <2>2. PlainStream'
    <3>1. CASE Next
      BY <3>1, CacheAssumption, PlainStep
    <3>2. CASE UNCHANGED vars
      BY <3>2 DEF vars, cacheVars, streamVars, bounds, PlainStream
    <3> QED
      BY <3>1, <3>2
  <2> QED
    BY <2>1, <2>2, CacheAssumption, MendingStep
<1> QED
  BY <1>1, <1>2, <1>3, <1>4, <1>5, PTL DEF Spec

\* Once everything is handled and nothing was lost, the cache is right.
LEMMA SettledRight ==
    ASSUME CacheInv, Convergence, Settled
    PROVE  /\ \A t \in Topics(kind), w \in Win : Right(kind, comp, windows, t, w)
           /\ spaces = comp.active /\ monitors = comp.mons
<1>1. pc = "receive" /\ wire = << >> /\ channel = << >> /\ lost = "no"
  BY DEF Settled
<1>2. \A F : ~Comes(Pending, F)
  BY <1>1, NothingComes
<1>3. CacheMends /\ ~Unmarked
  BY <1>1 DEF Convergence, Trusted, Unmarked
<1> QED
  BY <1>1, <1>2, <1>3 DEF CacheMends

\* Once the events of the stream are handled, and none was lost, the cache
\* holds the windows, the active workspace and the monitors of the
\* compositor, although the queries of initCache and the events that
\* watchEvents applies were taken at different times.
THEOREM CacheIsRight == Spec => []CacheConverges
<1>1. CacheInv /\ Convergence => CacheConverges
  <2> SUFFICES ASSUME CacheInv, Convergence, Settled
               PROVE  /\ Range(Ids(windows)) = DOMAIN comp.wins
                      /\ \A i \in DOMAIN windows : \A a \in Followed :
                            windows[i][a] = comp.wins[windows[i].id][a]
                      /\ spaces = comp.active /\ monitors = comp.mons
    BY DEF CacheConverges
  <2>1. /\ \A t \in Topics(kind), w \in Win : Right(kind, comp, windows, t, w)
        /\ spaces = comp.active /\ monitors = comp.mons
    BY SettledRight
  <2>2. /\ windows \in Seq(Window) /\ Len(windows) \in Nat /\ DOMAIN windows = 1..Len(windows)
        /\ kind \in Kinds /\ DOMAIN comp.wins \subseteq Win
    BY CompositorIs DEF CacheInv, HandedOut, StateOK
  <2>3. \A i \in 1..Len(windows) : windows[i].id \in Win
    <3>1. \A i \in 1..Len(windows) : windows[i] \in Window
      BY <2>2
    <3> QED
      BY <3>1 DEF Window
  <2>4. \A w \in Win : Has(windows, w) <=> w \in DOMAIN comp.wins
    BY <2>1 DEF Topics, Right
  <2>5. Range(Ids(windows)) = DOMAIN comp.wins
    <3>1. DOMAIN Ids(windows) = 1..Len(windows) /\ \A i \in 1..Len(windows) : Ids(windows)[i] = windows[i].id
      BY <2>2 DEF Ids
    <3>2. Range(Ids(windows)) = {windows[i].id : i \in 1..Len(windows)}
      BY <3>1 DEF Range
    <3> QED
      BY <2>2, <2>3, <2>4, <3>2 DEF Has
  <2>6. ASSUME NEW i \in 1..Len(windows), NEW a \in Followed
        PROVE  windows[i][a] = comp.wins[windows[i].id][a]
    <3> DEFINE w == windows[i].id
    <3>1. w \in Win /\ w \in DOMAIN comp.wins
      BY <2>3, <2>4 DEF Has
    <3>2. Brought(kind, windows[i], comp.wins[w])
      BY <2>1, <3>1 DEF Topics, Right
    <3>3. kind = "hyprland" => windows[i].floating = comp.wins[w].floating
      BY <2>1, <3>1 DEF Topics, Right
    <3> HIDE DEF w
    <3>4. CASE kind = "hyprland"
      BY <3>2, <3>3, <3>4 DEF Followed, Brought, w
    <3>5. CASE kind = "niri"
      BY <2>6, <3>5 DEF Followed
    <3>6. CASE kind = "mango"
      BY <3>2, <3>6 DEF Followed, Brought, w
    <3> QED
      BY <2>2, <3>4, <3>5, <3>6 DEF Kinds
  <2> QED
    BY <2>1, <2>2, <2>5, <2>6
<1> QED
  BY <1>1, Converges, PTL

\* On Hyprland and niri it then also marks the window that has the focus, if
\* one has it, and no other, although ListWindows and ActiveWindow are two
\* queries.
THEOREM FocusIsRight == Spec => []FocusConverges
<1>1. CacheInv /\ Convergence => FocusConverges
  <2> SUFFICES ASSUME CacheInv, Convergence, Settled, kind # "mango", comp.focus # None,
                      NEW i \in DOMAIN windows
               PROVE  windows[i].focused = (windows[i].id = comp.focus)
    BY DEF FocusConverges
  <2>1. \A w \in Win : Right(kind, comp, windows, "focus", w)
    BY SettledRight DEF Topics
  <2>2. i \in 1..Len(windows) /\ windows[i] \in Window
    BY DEF CacheInv, HandedOut
  <2>3. windows[i].focused <=> windows[i].id = comp.focus
    BY <2>1, <2>2 DEF Right, Window
  <2>4. windows[i].focused \in BOOLEAN
    BY <2>2 DEF Window
  <2> DEFINE b == windows[i].id = comp.focus
             x == windows[i].focused
  <2>5. x \in BOOLEAN /\ (x <=> b) /\ b \in BOOLEAN
    BY <2>3, <2>4
  <2> HIDE DEF b, x
  <2>6. x = b
    <3>1. (x = TRUE \/ x = FALSE) /\ (b = TRUE \/ b = FALSE)
      BY <2>5
    <3> QED
      BY <2>5, <3>1
  <2> QED
    BY <2>6 DEF b, x
<1> QED
  BY <1>1, Converges, PTL

=============================================================================
