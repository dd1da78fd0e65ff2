--------------------------- MODULE IdleInhibitors ---------------------------
(***************************************************************************)
(* The idle inhibitors of pkg/server/idle.go on top of the Wayland         *)
(* session: CreateIdleInhibitor, SetIdleInhibitorEnabled,                  *)
(* DestroyIdleInhibitor and the legacy Inhibit, all of which hold im.mu    *)
(* from beginning to end and call setInhibitorEnabledLocked, which creates *)
(* the surface, maps it, creates the inhibitor and reconnects once when    *)
(* the connection turns out to be dead.                                    *)
(*                                                                         *)
(* Since im.mu serialises the requests, one process Request stands for the *)
(* goroutine that holds it; its pc is "idle" when im.mu is free.  The      *)
(* dispatch loop takes im.mu when an event calls setMonitorIdle.  The      *)
(* compositor's side is the number of inhibitor objects per connection.    *)
(***************************************************************************)
EXTENDS WaylandSession

CONSTANTS
    Request,   \* the goroutine in the inhibitor operation
    MaxIds,    \* bound: inhibitors created
    MaxOps     \* bound: requests

ASSUME InhibitorAssumption ==
    /\ Requests = {Request}
    /\ MaxIds \in Nat \ {0} /\ MaxOps \in Nat

VARIABLES
    ids,       \* nextInhibitorID: inhibitors allocated so far
    legacy,    \* legacyInhibitorID, 0 = none
    table,     \* ids in im.inhibitors
    enabled,   \* inhibitor: its enabled field
    proxy,     \* inhibitor: connection of its inhibitor object, 0 = nil
    live,      \* compositor: inhibitor objects of an inhibitor, per connection
    target,    \* request: inhibitor being enabled
    fresh,     \* request: it is CreateIdleInhibitor
    attempt,   \* request: attempt of setInhibitorEnabledLocked's loop
    ops,       \* requests started so far
    crashed    \* a nil pointer was dereferenced: the daemon is gone

inhVars == <<ids, legacy, table, enabled, proxy, live>>
reqVars == <<target, fresh, attempt, ops>>
vars    == <<sessionVars, inhVars, reqVars, crashed>>

Inhs   == 1..MaxIds
RequestLabels == {"idle", "create", "map", "inhibit", "assign", "connected", "refused"}

TypeOK ==
    /\ SessionTypeOK(RequestLabels)
    /\ ids \in 0..MaxIds
    /\ legacy \in 0..MaxIds
    /\ table \subseteq 1..ids
    /\ enabled \in [Inhs -> BOOLEAN]
    /\ proxy \in [Inhs -> 0..MaxConns]
    /\ live \in [Inhs -> [Connections -> Nat]]
    /\ target \in 0..MaxIds
    /\ fresh \in BOOLEAN
    /\ attempt \in 0..2
    /\ ops \in 0..MaxOps
    /\ crashed \in BOOLEAN

Init ==
    /\ SessionInit("idle")
    /\ ids = 0
    /\ legacy = 0
    /\ table = {}
    /\ enabled = [i \in Inhs |-> FALSE]
    /\ proxy = [i \in Inhs |-> 0]
    /\ live = [i \in Inhs |-> [g \in Connections |-> 0]]
    /\ target = 0
    /\ fresh = FALSE
    /\ attempt = 0
    /\ ops = 0
    /\ crashed = FALSE

----------------------------------------------------------------------------
(* Requests that end at once *)

Begin == pc[Request] = "idle" /\ ops < MaxOps /\ ops' = ops + 1

\* The compositor's objects after i's inhibitor proxy was destroyed: a
\* request on a dead connection is lost.
Destroyed(i) ==
    IF proxy[i] \in alive THEN [live EXCEPT ![i][proxy[i]] = @ - 1] ELSE live

\* Mutant of Release: the field is cleared and the object kept.
ReleaseForgets(i) ==
    /\ proxy' = [proxy EXCEPT ![i] = 0]
    /\ UNCHANGED live

\* Mutant of Release: the object is destroyed and the field is not cleared.
ReleaseKeepsProxy(i) ==
    /\ live' = Destroyed(i)
    /\ UNCHANGED proxy

\* setInhibitorEnabledLocked(inh, false).
Release(i) ==
    /\ live' = Destroyed(i)
    /\ proxy' = [proxy EXCEPT ![i] = 0]

\* CreateIdleInhibitor(false).
CreateDisabled ==
    /\ Begin
    /\ ids < MaxIds
    /\ ids' = ids + 1
    /\ table' = table \cup {ids + 1}
    /\ UNCHANGED <<sessionVars, legacy, enabled, proxy, live, target, fresh,
                   attempt, crashed>>

\* SetIdleInhibitorEnabled, and Inhibit once it has its inhibitor, return at
\* once when the enabled field already is what the request asks for.
SetUnchanged(i, on) ==
    /\ Begin
    /\ i \in table
    /\ enabled[i] = on
    /\ UNCHANGED <<sessionVars, inhVars, target, fresh, attempt, crashed>>

\* Both, when they turn an inhibitor off.
Disable(i) ==
    /\ Begin
    /\ i \in table
    /\ enabled[i]
    /\ Release(i)
    /\ enabled' = [enabled EXCEPT ![i] = FALSE]
    /\ UNCHANGED <<sessionVars, ids, legacy, table, target, fresh, attempt, crashed>>

\* Mutant of DestroyInhibitor: the inhibitor is forgotten while it is on.
DestroyWithoutRelease(i) ==
    /\ Begin
    /\ i \in table
    /\ table' = table \ {i}
    /\ legacy' = IF legacy = i THEN 0 ELSE legacy
    /\ UNCHANGED <<sessionVars, ids, enabled, proxy, live, target, fresh,
                   attempt, crashed>>

\* DestroyIdleInhibitor.  The enabled field of the forgotten inhibitor is
\* not read again.
DestroyInhibitor(i) ==
    /\ Begin
    /\ i \in table
    /\ table' = table \ {i}
    /\ legacy' = IF legacy = i THEN 0 ELSE legacy
    /\ Release(i)
    /\ UNCHANGED <<sessionVars, ids, enabled, target, fresh, attempt, crashed>>

\* The first Inhibit(false): it makes the legacy inhibitor and finds it off.
InhibitOffFirst ==
    /\ Begin
    /\ legacy = 0
    /\ ids < MaxIds
    /\ ids' = ids + 1
    /\ legacy' = ids + 1
    /\ table' = table \cup {ids + 1}
    /\ UNCHANGED <<sessionVars, enabled, proxy, live, target, fresh, attempt, crashed>>

----------------------------------------------------------------------------
(* Requests that enable an inhibitor *)

\* The request goes on with setInhibitorEnabledLocked(i, true), which is
\* done if the inhibitor object exists.
Enabling(i, new) ==
    /\ target' = i
    /\ fresh' = new
    /\ IF proxy[i] # 0
       THEN Go(Request, "assign") /\ attempt' = 0
       ELSE Go(Request, "create") /\ attempt' = 1
    /\ gen' = [gen EXCEPT ![Request] = proxy[i]]
    /\ UNCHANGED <<up, restarts, opened, alive, display, globals, synced,
                   enabled, proxy, live, crashed>>

\* CreateIdleInhibitor(true).
CreateEnabled ==
    /\ Begin
    /\ ids < MaxIds
    /\ ids' = ids + 1
    /\ table' = table \cup {ids + 1}
    /\ Enabling(ids + 1, TRUE)
    /\ UNCHANGED legacy

\* SetIdleInhibitorEnabled(i, true), and Inhibit(true) of the legacy one.
Enable(i) ==
    /\ Begin
    /\ i \in table
    /\ ~enabled[i]
    /\ Enabling(i, FALSE)
    /\ UNCHANGED <<ids, legacy, table>>

\* The first Inhibit(true); an error leaves the legacy inhibitor there.
InhibitOnFirst ==
    /\ Begin
    /\ legacy = 0
    /\ ids < MaxIds
    /\ ids' = ids + 1
    /\ legacy' = ids + 1
    /\ table' = table \cup {ids + 1}
    /\ Enabling(ids + 1, FALSE)

\* Mutant of Fail: what the request enabled is removed, whoever added it.
FailRemoves ==
    /\ table' = table \ {target}
    /\ target' = 0
    /\ fresh' = FALSE
    /\ attempt' = 0
    /\ UNCHANGED <<ids, legacy, enabled, proxy, live, ops, crashed>>

\* The request returns an error and releases im.mu; CreateIdleInhibitor
\* removes what it added.
Fail ==
    /\ table' = IF fresh THEN table \ {target} ELSE table
    /\ target' = 0
    /\ fresh' = FALSE
    /\ attempt' = 0
    /\ UNCHANGED <<ids, legacy, enabled, proxy, live, ops, crashed>>

\* The head of the loop: the globals are missing, or a surface is created on
\* their connection.
CreateSurface ==
    /\ pc[Request] = "create"
    /\ \/ /\ globals = 0
          /\ Go(Request, "idle")
          /\ gen' = [gen EXCEPT ![Request] = 0]
          /\ Fail
       \/ /\ globals # 0
          /\ Go(Request, "map")
          /\ gen' = [gen EXCEPT ![Request] = globals]
          /\ UNCHANGED <<inhVars, reqVars, crashed>>
    /\ UNCHANGED <<up, restarts, opened, alive, display, globals, synced>>

\* mapInhibitorSurface: the dispatch loop reads the configure event on the
\* surface's connection, and the surface is mapped.
Configured ==
    /\ pc[Request] = "map"
    /\ Reads(gen[Request])
    /\ pc' = [pc EXCEPT ![Request] = "inhibit", ![Dispatcher] = "top"]
    /\ UNCHANGED <<up, restarts, opened, alive, display, globals, synced, gen,
                   inhVars, reqVars, crashed>>

\* Mutant of Unmapped: the wait for the configure event has no timeout, only
\* a write that fails ends it.
UnmappedNoTimeout ==
    /\ pc[Request] = "map"
    /\ gen[Request] \notin alive
    /\ Go(Request, "inhibit")
    /\ UNCHANGED <<up, restarts, opened, alive, display, globals, synced, gen,
                   inhVars, reqVars, crashed>>

\* mapInhibitorSurface fails, after two seconds or at a write, or there is no
\* layer shell: go on with the bare surface.
Unmapped ==
    /\ pc[Request] = "map"
    /\ Go(Request, "inhibit")
    /\ UNCHANGED <<up, restarts, opened, alive, display, globals, synced, gen,
                   inhVars, reqVars, crashed>>

\* im.inhibitorMgr, read again, is nil: the method call on it panics.
ManagerGone ==
    /\ pc[Request] = "inhibit"
    /\ globals = 0
    /\ crashed' = TRUE
    /\ UNCHANGED <<sessionVars, inhVars, reqVars>>

\* Mutant of CreateBroken: reconnect however often the pipe was broken.
CreateBrokenUncapped ==
    /\ pc[Request] = "inhibit"
    /\ globals \notin alive \cup {0}
    /\ gen' = [gen EXCEPT ![Request] = 0]
    /\ attempt' = attempt + 1
    /\ Go(Request, "connect")
    /\ UNCHANGED <<up, restarts, opened, alive, display, globals, synced,
                   inhVars, target, fresh, ops, crashed>>

\* CreateInhibitor meets a broken pipe: the surfaces are dropped; reconnect
\* after the first attempt, give up after the second.
CreateBroken ==
    /\ pc[Request] = "inhibit"
    /\ globals \notin alive \cup {0}
    /\ gen' = [gen EXCEPT ![Request] = 0]
    /\ \/ /\ attempt = 1
          /\ attempt' = 2
          /\ Go(Request, "connect")
          /\ UNCHANGED <<inhVars, target, fresh, ops, crashed>>
       \/ /\ attempt = 2
          /\ Go(Request, "idle")
          /\ Fail
    /\ UNCHANGED <<up, restarts, opened, alive, display, globals, synced>>

\* CreateInhibitor succeeds.  A manager bound on another connection than the
\* surface names a surface that connection does not have, a protocol error
\* for which the compositor closes it.
CreateInhibitor ==
    /\ pc[Request] = "inhibit"
    /\ globals \in alive
    /\ gen' = [gen EXCEPT ![Request] = globals]
    /\ Go(Request, "assign")
    /\ IF globals = gen[Request]
       THEN /\ live' = [live EXCEPT ![target][globals] = @ + 1]
            /\ UNCHANGED alive
       ELSE /\ alive' = alive \ {globals}
            /\ UNCHANGED live
    /\ UNCHANGED <<up, restarts, opened, display, globals, synced, ids, legacy,
                   table, enabled, proxy, reqVars, crashed>>

\* The fields of the inhibitor are set and im.mu is released.
Assign ==
    /\ pc[Request] = "assign"
    /\ proxy' = [proxy EXCEPT ![target] = gen[Request]]
    /\ enabled' = [enabled EXCEPT ![target] = TRUE]
    /\ target' = 0
    /\ fresh' = FALSE
    /\ attempt' = 0
    /\ Go(Request, "idle")
    /\ gen' = [gen EXCEPT ![Request] = 0]
    /\ UNCHANGED <<up, restarts, opened, alive, display, globals, synced, ids,
                   legacy, table, live, ops, crashed>>

\* connectWayland returned to the request.
Reconnected ==
    /\ \/ /\ pc[Request] = "connected"
          /\ Go(Request, "create")
          /\ UNCHANGED <<inhVars, reqVars, crashed>>
       \/ /\ pc[Request] = "refused"
          /\ Go(Request, "idle")
          /\ Fail
    /\ gen' = [gen EXCEPT ![Request] = 0]
    /\ UNCHANGED <<up, restarts, opened, alive, display, globals, synced>>

----------------------------------------------------------------------------
(* The session *)

\* invalidateStaleProxies forgets the proxies of every inhibitor in the map.
InvalidateStaleProxies(p) ==
    /\ Invalidate(p)
    /\ proxy' = [i \in Inhs |-> IF i \in table THEN 0 ELSE proxy[i]]
    /\ UNCHANGED <<ids, legacy, table, enabled, live, reqVars, crashed>>

\* An idle or resume event calls setMonitorIdle, which needs im.mu.
IdleEvent ==
    /\ Reads(gen[Dispatcher])
    /\ Go(Dispatcher, "event")
    /\ UNCHANGED <<up, restarts, opened, alive, display, globals, synced, gen,
                   inhVars, reqVars, crashed>>

IdleEventHandled ==
    /\ pc[Dispatcher] = "event"
    /\ pc[Request] = "idle"
    /\ Go(Dispatcher, "top")
    /\ UNCHANGED <<up, restarts, opened, alive, display, globals, synced, gen,
                   inhVars, reqVars, crashed>>

Session(A) == A /\ UNCHANGED <<inhVars, reqVars, crashed>>

DispatcherStep ==
    \/ Session(LoopTop)
    \/ Session(ReadFails)
    \/ Session(Steps(Dispatcher))
    \/ InvalidateStaleProxies(Dispatcher)
    \/ IdleEventHandled

RequestStep ==
    \/ CreateSurface
    \/ Unmapped
    \/ ManagerGone
    \/ CreateBroken
    \/ CreateInhibitor
    \/ Assign
    \/ Reconnected
    \/ Session(Steps(Request))
    \/ InvalidateStaleProxies(Request)

RequestStart ==
    \/ CreateDisabled
    \/ CreateEnabled
    \/ InhibitOnFirst
    \/ InhibitOffFirst
    \/ \E i \in Inhs :
          \/ Enable(i) \/ Disable(i) \/ DestroyInhibitor(i)
          \/ \E on \in BOOLEAN : SetUnchanged(i, on)

Next ==
    /\ ~crashed
    /\ \/ DispatcherStep
       \/ RequestStep
       \/ RequestStart
       \/ Configured
       \/ IdleEvent
       \/ Session(HandshakeStolen)
       \/ \E p \in Procs : Session(HandshakeResumed(p))
       \/ Session(CompositorExit)
       \/ Session(CompositorStart)

\* The two goroutines are scheduled, a wait of two seconds ends, and the
\* compositor answers a handshake.  Requests, idle events, further events
\* that resume a stolen handshake and compositor exits need not happen.
Fairness ==
    /\ WF_vars(~crashed /\ DispatcherStep)
    /\ WF_vars(~crashed /\ RequestStep)

Spec == Init /\ [][Next]_vars /\ Fairness

----------------------------------------------------------------------------
(* Properties *)

\* What the map says and what the fields say agree: an inhibitor object is
\* only referenced by an inhibitor the clients can still name and have on.
ReferencedMeansOn == \A i \in Inhs : proxy[i] # 0 => i \in table /\ enabled[i]

\* While the first connection lasts, the compositor holds one object for
\* each inhibitor that is on and none for the others, whatever the requests
\* were and whichever failed: idling is blocked exactly while a client wants
\* it blocked.
InhibitsExactlyEnabled ==
    1 \in alive => \A i \in Inhs :
        live[i][1] = IF \/ i \in table /\ enabled[i]
                        \/ i = target /\ pc[Request] = "assign"
                     THEN 1 ELSE 0

\* Across reconnects: the object an inhibitor references on a live
\* connection exists there, so destroying it is no protocol error.
ReferencedObjectExists ==
    \A i \in Inhs : proxy[i] \in alive => live[i][proxy[i]] > 0

\* The requests are atomic to the clients: the table of inhibitors changes as
\* InhibitorTable says, through failures, reconnects and the steps that a
\* request to turn one on takes.
Table == INSTANCE InhibitorTable WITH
    Ids     <- Inhs,
    used    <- 1..ids,
    known   <- IF fresh THEN table \ {target} ELSE table,
    on      <- {i \in table : enabled[i]},
    pending <- target

RequestsAreAtomic == Table!Spec

\* The handshake of process p was finished by the dispatch loop, p waits for
\* one more event.
StolenFrom(p) == pc[p] = "handshake" /\ gen[p] \in synced

\* Every request returns and releases im.mu, even one that waits for a
\* configure event while the dispatch loop waits for im.mu, unless the
\* dispatch loop took the end of its handshake.
RequestReturns ==
    pc[Request] # "idle" ~>
        \/ pc[Request] = "idle"
        \/ crashed
        \/ StolenFrom(Request)

\* dispatchLoop's claim: when the compositor comes back, and a connection
\* failed, it reads from a live connection again.
DispatchResumes ==
    (pc[Dispatcher] = "read" /\ gen[Dispatcher] \notin alive) ~>
        \/ pc[Dispatcher] = "read" /\ gen[Dispatcher] \in alive
        \/ ~up
        \/ crashed
        \/ StolenFrom(Dispatcher) \/ StolenFrom(Request)

\* invalidateStaleProxies' comment: the proxies it cleared are lazily
\* recreated on next use.  A request to enable an inhibitor that is answered
\* at once, while the globals are bound on a live connection, finds an
\* inhibitor object to exist.
RecreatedOnNextUse ==
    [][\A i \in Inhs : SetUnchanged(i, TRUE) /\ globals \in alive => proxy[i] # 0]_vars

\* The same comment: only proxies of a dead display are cleared.  A reference
\* to an object on a live connection is only given up by destroying it.
ClearedOnlyIfDead ==
    [][\A i \in Inhs : proxy[i] \in alive' /\ proxy'[i] = 0 =>
          live'[i][proxy[i]] < live[i][proxy[i]]]_vars
=============================================================================
