--------------------------- MODULE WaylandSession ---------------------------
(***************************************************************************)
(* The Wayland connection of pkg/server/idle.go's IdleManager: the         *)
(* dispatchLoop goroutine, and connectWayland, which that goroutine calls  *)
(* when its connection fails and which request goroutines call when a      *)
(* write meets a broken pipe.  A connection is named by a number, in the   *)
(* order they are opened; 0 stands for Go's nil.                           *)
(*                                                                         *)
(* The fields im.display and the bound globals (compositor, seat, the      *)
(* managers) are not under a lock.  The globals are set one by one while   *)
(* the registry's events are dispatched; the model sets them together.     *)
(* The actions say nothing of the idle monitors and inhibitors: the        *)
(* modules that extend this one add what a step does to those.             *)
(***************************************************************************)
EXTENDS Naturals, FiniteSets

CONSTANTS
    Dispatcher,   \* the dispatchLoop goroutine
    Requests,     \* request goroutines that use the connection
    MaxConns,     \* bound: connections opened
    MaxRestarts   \* bound: compositor exits

ASSUME SessionAssumption ==
    /\ Dispatcher \notin Requests
    /\ MaxConns \in Nat \ {0} /\ MaxRestarts \in Nat

VARIABLES
    up,        \* a compositor accepts connections (environment)
    restarts,  \* compositor exits so far
    opened,    \* connections opened so far
    alive,     \* connections whose other end is open
    display,   \* connection of im.display, 0 = nil
    globals,   \* connection the globals in im are bound on, 0 = nil
    synced,    \* connections whose sync callback was dispatched
    pc,        \* process: what it does next
    gen        \* process: connection it works with

sessionVars == <<up, restarts, opened, alive, display, globals, synced, pc, gen>>

Procs       == {Dispatcher} \cup Requests
Connections == 1..MaxConns

Go(p, label) == pc' = [pc EXCEPT ![p] = label]

SessionTypeOK(RequestLabels) ==
    /\ up \in BOOLEAN
    /\ restarts \in 0..MaxRestarts
    /\ opened \in Connections
    /\ alive \subseteq 1..opened
    /\ display \in 0..opened
    /\ globals \in 0..opened
    /\ synced \subseteq 1..opened
    /\ gen \in [Procs -> 0..opened]
    /\ pc[Dispatcher] \in {"top", "read", "event", "callback", "connect",
                         "handshake", "bound"}
    /\ pc \in [Procs -> {"top", "read", "event", "callback", "connect", "handshake",
                        "bound"} \cup RequestLabels]

\* NewIdleManager connected once and started dispatchLoop.
SessionInit(start) ==
    /\ up = TRUE
    /\ restarts = 0
    /\ opened = 1
    /\ alive = {1}
    /\ display = 1
    /\ globals = 1
    /\ synced = {1}
    /\ pc = [p \in Procs |-> IF p = Dispatcher THEN "top" ELSE start]
    /\ gen = [p \in Procs |-> 0]

----------------------------------------------------------------------------
(* The compositor (environment) *)

\* The compositor exits: every connection to it is dead.
CompositorExit ==
    /\ up
    /\ restarts < MaxRestarts
    /\ restarts' = restarts + 1
    /\ up' = FALSE
    /\ alive' = {}
    /\ UNCHANGED <<opened, display, globals, synced, pc, gen>>

CompositorStart ==
    /\ ~up
    /\ up' = TRUE
    /\ UNCHANGED <<restarts, opened, alive, display, globals, synced, pc, gen>>

----------------------------------------------------------------------------
(* connectWayland, called by process p *)

\* client.Connect and the assignments before the registry's events: the new
\* display is published and the globals are cleared at once.
Connect(p) ==
    /\ pc[p] = "connect"
    /\ up
    /\ opened < MaxConns
    /\ opened' = opened + 1
    /\ alive' = alive \cup {opened + 1}
    /\ display' = opened + 1
    /\ globals' = 0
    /\ gen' = [gen EXCEPT ![p] = opened + 1]
    /\ Go(p, "handshake")
    /\ UNCHANGED <<up, restarts, synced>>

\* client.Connect fails: tryReconnectWithBackoff sleeps and tries again, a
\* request gives up.
ConnectRefused(p) ==
    /\ pc[p] = "connect"
    /\ p # Dispatcher
    /\ ~up
    /\ Go(p, "refused")
    /\ UNCHANGED <<up, restarts, opened, alive, display, globals, synced, gen>>

\* The caller dispatches the registry's events, which bind the globals, and
\* the sync callback.
Handshake(p) ==
    /\ pc[p] = "handshake"
    /\ gen[p] \in alive \ synced
    /\ globals' = gen[p]
    /\ synced' = synced \cup {gen[p]}
    /\ Go(p, "bound")
    /\ UNCHANGED <<up, restarts, opened, alive, display, gen>>

\* dispatchLoop reads from a display that a request published before its
\* handshake was over and dispatches the callback in the request's stead.
HandshakeStolen ==
    LET g == gen[Dispatcher] IN
    /\ pc[Dispatcher] = "read"
    /\ g \in alive \ synced
    /\ globals' = g
    /\ synced' = synced \cup {g}
    /\ Go(Dispatcher, "top")
    /\ UNCHANGED <<up, restarts, opened, alive, display, gen>>

\* The caller, which blocks in a read, only sees that the callback ran after
\* another event came its way.
HandshakeResumed(p) ==
    /\ pc[p] = "handshake"
    /\ gen[p] \in alive \cap synced
    /\ Go(p, "bound")
    /\ UNCHANGED <<up, restarts, opened, alive, display, globals, synced, gen>>

\* The connection fails during the handshake.
HandshakeFails(p) ==
    /\ pc[p] = "handshake"
    /\ gen[p] \notin alive
    /\ Go(p, IF p = Dispatcher THEN "connect" ELSE "refused")
    /\ UNCHANGED <<up, restarts, opened, alive, display, globals, synced, gen>>

\* invalidateStaleProxies; what it clears is added by the modules that
\* extend this one.
Invalidate(p) ==
    /\ pc[p] = "bound"
    /\ Go(p, IF p = Dispatcher THEN "top" ELSE "connected")
    /\ UNCHANGED <<up, restarts, opened, alive, display, globals, synced, gen>>

----------------------------------------------------------------------------
(* dispatchLoop *)

\* The head of the loop: reconnect, or block in Dispatch on im.display.
LoopTop ==
    /\ pc[Dispatcher] = "top"
    /\ IF display = 0
       THEN Go(Dispatcher, "connect") /\ UNCHANGED gen
       ELSE Go(Dispatcher, "read") /\ gen' = [gen EXCEPT ![Dispatcher] = display]
    /\ UNCHANGED <<up, restarts, opened, alive, display, globals, synced>>

\* Mutant of ReadFails: the failed display stays in im.display.
ReadFailsKeepsDisplay ==
    /\ pc[Dispatcher] = "read"
    /\ gen[Dispatcher] \notin alive
    /\ Go(Dispatcher, "top")
    /\ UNCHANGED <<up, restarts, opened, alive, display, globals, synced, gen>>

\* Dispatch fails: im.display is forgotten, whichever connection it holds by
\* now.
ReadFails ==
    /\ pc[Dispatcher] = "read"
    /\ gen[Dispatcher] \notin alive
    /\ display' = 0
    /\ Go(Dispatcher, "top")
    /\ UNCHANGED <<up, restarts, opened, alive, globals, synced, gen>>

\* Dispatch reads an event on connection g.
Reads(g) == pc[Dispatcher] = "read" /\ gen[Dispatcher] = g /\ g \in alive

Steps(p) ==
    Connect(p) \/ ConnectRefused(p) \/ Handshake(p) \/ HandshakeFails(p)
=============================================================================
