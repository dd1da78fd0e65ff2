---------------------------- MODULE IdleMonitors ----------------------------
(***************************************************************************)
(* The idle monitors of pkg/server/idle.go on top of the Wayland session:  *)
(* CreateIdleMonitor, UpdateIdleMonitor and DestroyIdleMonitor, which      *)
(* several request goroutines run at the same time, refreshMonitor, and    *)
(* setMonitorIdle, which they and the dispatch loop call.                  *)
(*                                                                         *)
(* im.mu is only held for the short sections that are single actions here; *)
(* between them refreshMonitor works on what it has copied.  The timeout   *)
(* and the respectInhibitors flag are data that no property looks at.      *)
(* The ext_idle_notification_v1 objects are numbered as they are created.  *)
(***************************************************************************)
EXTENDS WaylandSession

CONSTANTS
    MaxIds,    \* bound: monitors created
    MaxOps,    \* bound: requests
    MaxNotifs  \* bound: notification objects created

ASSUME MonitorAssumption ==
    /\ MaxIds \in Nat \ {0}
    /\ MaxOps \in Nat /\ MaxNotifs \in Nat \ {0}

VARIABLES
    ids,        \* nextMonitorID: monitors allocated so far
    table,      \* ids in im.monitors
    enabled,    \* monitor: its enabled field
    deleted,    \* monitor: its deleted field
    isIdle,     \* monitor: its isIdle field
    ref,        \* monitor: its notification field, 0 = nil
    notifs,     \* notification objects created so far
    owner,      \* notification: monitor its handlers refer to
    conn,       \* notification: connection it lives on
    live,       \* notifications the clients have not destroyed
    event,      \* dispatch loop: monitor and state of the event in hand
    ops,        \* requests started so far
    target,     \* request: monitor it works on, 0 = none
    fresh,      \* request: it is CreateIdleMonitor
    old,        \* request: notification it is about to destroy, 0 = none
    new,        \* request: notification it has created, 0 = none
    want,       \* request: the enabled flag it copied
    attempt,    \* request: attempt of refreshMonitor's loop
    told,       \* history, monitor: state in the last callback
    overlapped, \* history, monitor: two refreshes of it ran at the same time
    raced       \* history, monitor: an event and a refresh met

monVars == <<ids, table, enabled, deleted, isIdle, ref>>
objVars == <<notifs, owner, conn, live>>
reqVars == <<ops, target, fresh, old, new, want, attempt>>
history == <<told, overlapped, raced>>
vars    == <<sessionVars, monVars, objVars, event, reqVars, history>>

Mons   == 1..MaxIds
Notifs == 1..MaxNotifs
NoEvent == [mon |-> 0, idle |-> FALSE]
RequestLabels == {"idle", "refresh", "drop", "clear", "callback", "create",
                  "install", "kill", "error", "connected", "refused"}

TypeOK ==
    /\ SessionTypeOK(RequestLabels)
    /\ ids \in 0..MaxIds
    /\ table \subseteq 1..ids
    /\ enabled \in [Mons -> BOOLEAN]
    /\ deleted \in [Mons -> BOOLEAN]
    /\ isIdle \in [Mons -> BOOLEAN]
    /\ ref \in [Mons -> 0..MaxNotifs]
    /\ notifs \in 0..MaxNotifs
    /\ owner \in [Notifs -> 0..MaxIds]
    /\ conn \in [Notifs -> 0..MaxConns]
    /\ live \subseteq 1..notifs
    /\ event \in [mon : 0..MaxIds, idle : BOOLEAN]
    /\ ops \in 0..MaxOps
    /\ target \in [Requests -> 0..MaxIds]
    /\ fresh \in [Requests -> BOOLEAN]
    /\ old \in [Requests -> 0..MaxNotifs]
    /\ new \in [Requests -> 0..MaxNotifs]
    /\ want \in [Requests -> BOOLEAN]
    /\ attempt \in [Requests -> 0..2]
    /\ told \in [Mons -> BOOLEAN]
    /\ overlapped \in [Mons -> BOOLEAN]
    /\ raced \in [Mons -> BOOLEAN]

Init ==
    /\ SessionInit("idle")
    /\ ids = 0
    /\ table = {}
    /\ enabled = [m \in Mons |-> FALSE]
    /\ deleted = [m \in Mons |-> FALSE]
    /\ isIdle = [m \in Mons |-> FALSE]
    /\ ref = [m \in Mons |-> 0]
    /\ notifs = 0
    /\ owner = [n \in Notifs |-> 0]
    /\ conn = [n \in Notifs |-> 0]
    /\ live = {}
    /\ event = NoEvent
    /\ ops = 0
    /\ target = [r \in Requests |-> 0]
    /\ fresh = [r \in Requests |-> FALSE]
    /\ old = [r \in Requests |-> 0]
    /\ new = [r \in Requests |-> 0]
    /\ want = [r \in Requests |-> FALSE]
    /\ attempt = [r \in Requests |-> 0]
    /\ told = [m \in Mons |-> FALSE]
    /\ overlapped = [m \in Mons |-> FALSE]
    /\ raced = [m \in Mons |-> FALSE]

Refreshing(r, m) == target[r] = m /\ pc[r] # "kill"

----------------------------------------------------------------------------
(* Requests *)

Done(r) ==
    /\ Go(r, "idle")
    /\ target' = [target EXCEPT ![r] = 0]
    /\ fresh' = [fresh EXCEPT ![r] = FALSE]
    /\ old' = [old EXCEPT ![r] = 0]
    /\ new' = [new EXCEPT ![r] = 0]
    /\ want' = [want EXCEPT ![r] = FALSE]
    /\ attempt' = [attempt EXCEPT ![r] = 0]
    /\ UNCHANGED ops

Begin(r, m) ==
    /\ pc[r] = "idle"
    /\ ops < MaxOps
    /\ ops' = ops + 1
    /\ target' = [target EXCEPT ![r] = m]

\* The part of the session a request's own step leaves alone.
SessionRest == <<up, restarts, opened, alive, display, globals, synced, gen>>

\* Mutant of CreateMonitor: nextMonitorID is not incremented.
CreateMonitorSameId(r, on) ==
    /\ ids < MaxIds
    /\ Begin(r, ids + 1)
    /\ table' = table \cup {ids + 1}
    /\ enabled' = [enabled EXCEPT ![ids + 1] = on]
    /\ fresh' = [fresh EXCEPT ![r] = TRUE]
    /\ Go(r, "refresh")
    /\ UNCHANGED <<SessionRest, ids, deleted, isIdle, ref, objVars, event, old,
                   new, want, attempt, history>>

\* CreateIdleMonitor, the section that puts the monitor into the map.
CreateMonitor(r, on) ==
    /\ ids < MaxIds
    /\ Begin(r, ids + 1)
    /\ ids' = ids + 1
    /\ table' = table \cup {ids + 1}
    /\ enabled' = [enabled EXCEPT ![ids + 1] = on]
    /\ fresh' = [fresh EXCEPT ![r] = TRUE]
    /\ Go(r, "refresh")
    /\ UNCHANGED <<SessionRest, deleted, isIdle, ref, objVars, event, old, new,
                   want, attempt, history>>

\* UpdateIdleMonitor, the section that sets the monitor's fields.
UpdateMonitor(r, m, on) ==
    /\ m \in table
    /\ Begin(r, m)
    /\ enabled' = [enabled EXCEPT ![m] = on]
    /\ overlapped' = [overlapped EXCEPT ![m] = @ \/ \E q \in Requests : Refreshing(q, m)]
    /\ raced' = [raced EXCEPT ![m] = @ \/ event.mon = m]
    /\ Go(r, "refresh")
    /\ UNCHANGED <<SessionRest, ids, table, deleted, isIdle, ref, objVars, event,
                   fresh, old, new, want, attempt, told>>

\* DestroyIdleMonitor, the section under im.mu.
DestroyMonitor(r, m) ==
    /\ m \in table
    /\ Begin(r, m)
    /\ deleted' = [deleted EXCEPT ![m] = TRUE]
    /\ table' = table \ {m}
    /\ ref' = [ref EXCEPT ![m] = 0]
    /\ old' = [old EXCEPT ![r] = ref[m]]
    /\ Go(r, "kill")
    /\ UNCHANGED <<SessionRest, ids, enabled, isIdle, objVars, event, fresh, new,
                   want, attempt, history>>

\* The notification that DestroyIdleMonitor took, or that refreshMonitor
\* created for a monitor that was destroyed meanwhile, is destroyed.
Kill(r) ==
    /\ pc[r] = "kill"
    /\ live' = live \ {old[r]}
    /\ Done(r)
    /\ UNCHANGED <<SessionRest, monVars, notifs, owner, conn, event, history>>

\* Mutant of Snapshot: the field keeps the notification that is about to be
\* destroyed.
SnapshotKeepsField(r) ==
    LET m == target[r] IN
    /\ pc[r] = "refresh"
    /\ ~deleted[m]
    /\ old' = [old EXCEPT ![r] = ref[m]]
    /\ want' = [want EXCEPT ![r] = enabled[m]]
    /\ Go(r, "drop")
    /\ UNCHANGED <<SessionRest, monVars, objVars, event, ops, target, fresh, new,
                   attempt, history>>

\* refreshMonitor, the first section: take the notification out of the
\* monitor and copy its fields.
Snapshot(r) ==
    LET m == target[r] IN
    /\ pc[r] = "refresh"
    /\ ~deleted[m]
    /\ old' = [old EXCEPT ![r] = ref[m]]
    /\ ref' = [ref EXCEPT ![m] = 0]
    /\ want' = [want EXCEPT ![r] = enabled[m]]
    /\ Go(r, "drop")
    /\ UNCHANGED <<SessionRest, ids, table, enabled, deleted, isIdle, objVars,
                   event, ops, target, fresh, new, attempt, history>>

\* The monitor was destroyed before its refresh began.
SnapshotDeleted(r) ==
    /\ pc[r] = "refresh"
    /\ deleted[target[r]]
    /\ Go(r, "error")
    /\ UNCHANGED <<SessionRest, monVars, objVars, event, reqVars, history>>

\* The old notification is destroyed.
Drop(r) ==
    /\ pc[r] = "drop"
    /\ live' = live \ {old[r]}
    /\ old' = [old EXCEPT ![r] = 0]
    /\ Go(r, "clear")
    /\ UNCHANGED <<SessionRest, monVars, notifs, owner, conn, event, ops, target,
                   fresh, new, want, attempt, history>>

\* After setMonitorIdle: a disabled monitor is done.
Proceed(r) ==
    IF want[r]
    THEN /\ Go(r, "create")
         /\ attempt' = [attempt EXCEPT ![r] = 1]
         /\ UNCHANGED <<ops, target, fresh, old, new, want>>
    ELSE Done(r)

\* Mutant of Clear: the idle flag of the old notification stays.
ClearSkipped(r) ==
    /\ pc[r] = "clear"
    /\ Proceed(r)
    /\ UNCHANGED <<SessionRest, monVars, objVars, event, history>>

\* setMonitorIdle(mon, false), the section under im.mu.
Clear(r) ==
    LET m == target[r] IN
    /\ pc[r] = "clear"
    /\ IF isIdle[m] /\ ~deleted[m]
       THEN /\ isIdle' = [isIdle EXCEPT ![m] = FALSE]
            /\ Go(r, "callback")
            /\ UNCHANGED reqVars
       ELSE /\ Proceed(r)
            /\ UNCHANGED isIdle
    /\ UNCHANGED <<SessionRest, ids, table, enabled, deleted, ref, objVars, event,
                   history>>

\* Its callback, after im.mu was released.
Callback(r) ==
    /\ pc[r] = "callback"
    /\ told' = [told EXCEPT ![target[r]] = FALSE]
    /\ Proceed(r)
    /\ UNCHANGED <<SessionRest, monVars, objVars, event, overlapped, raced>>

\* The globals are missing: no notification.
Unsupported(r) ==
    /\ pc[r] = "create"
    /\ globals = 0
    /\ Go(r, "error")
    /\ UNCHANGED <<SessionRest, monVars, objVars, event, reqVars, history>>

\* A notification is created, with handlers that refer to the monitor.
CreateNotification(r) ==
    LET n == notifs + 1 IN
    /\ pc[r] = "create"
    /\ globals \in alive
    /\ notifs < MaxNotifs
    /\ notifs' = n
    /\ owner' = [owner EXCEPT ![n] = target[r]]
    /\ conn' = [conn EXCEPT ![n] = globals]
    /\ live' = live \cup {n}
    /\ new' = [new EXCEPT ![r] = n]
    /\ Go(r, "install")
    /\ UNCHANGED <<SessionRest, monVars, event, ops, target, fresh, old, want,
                   attempt, history>>

\* The pipe is broken: reconnect once.
CreateBroken(r) ==
    /\ pc[r] = "create"
    /\ globals \notin alive \cup {0}
    /\ IF attempt[r] = 1 THEN Go(r, "connect") ELSE Go(r, "error")
    /\ attempt' = [attempt EXCEPT ![r] = 2]
    /\ UNCHANGED <<SessionRest, monVars, objVars, event, ops, target, fresh, old,
                   new, want, history>>

\* connectWayland returned to the request.
Reconnected(r) ==
    /\ \/ pc[r] = "connected" /\ Go(r, "create")
       \/ pc[r] = "refused" /\ Go(r, "error")
    /\ gen' = [gen EXCEPT ![r] = 0]
    /\ UNCHANGED <<up, restarts, opened, alive, display, globals, synced, monVars,
                   objVars, event, reqVars, history>>

\* Mutant of Install: the monitor is not looked at again.
InstallBlind(r) ==
    /\ pc[r] = "install"
    /\ ref' = [ref EXCEPT ![target[r]] = new[r]]
    /\ Done(r)
    /\ UNCHANGED <<SessionRest, ids, table, enabled, deleted, isIdle, objVars,
                   event, history>>

\* refreshMonitor, the last section: the notification becomes the monitor's,
\* whatever the field holds by now, or is destroyed if the monitor was.
Install(r) ==
    LET m == target[r] IN
    /\ pc[r] = "install"
    /\ IF deleted[m]
       THEN /\ old' = [old EXCEPT ![r] = new[r]]
            /\ new' = [new EXCEPT ![r] = 0]
            /\ Go(r, "kill")
            /\ UNCHANGED <<ref, ops, target, fresh, want, attempt>>
       ELSE /\ ref' = [ref EXCEPT ![m] = new[r]]
            /\ Done(r)
    /\ UNCHANGED <<SessionRest, ids, table, enabled, deleted, isIdle, objVars,
                   event, history>>

\* The request fails; CreateIdleMonitor takes its monitor out of the map.
Fail(r) ==
    /\ pc[r] = "error"
    /\ table' = IF fresh[r] THEN table \ {target[r]} ELSE table
    /\ Done(r)
    /\ UNCHANGED <<SessionRest, ids, enabled, deleted, isIdle, ref, objVars, event,
                   history>>

----------------------------------------------------------------------------
(* The session *)

\* The dispatch loop reads an idled or a resumed event and calls the handler
\* of notification n.
NotificationEvent(n, idle) ==
    LET m == owner[n] IN
    /\ n \in live
    /\ Reads(conn[n])
    /\ event' = [mon |-> m, idle |-> idle]
    /\ raced' = [raced EXCEPT ![m] = @ \/ \E r \in Requests : Refreshing(r, m)]
    /\ Go(Dispatcher, "event")
    /\ UNCHANGED <<SessionRest, monVars, objVars, reqVars, told, overlapped>>

\* setMonitorIdle in the handler, the section under im.mu.
EventApply ==
    LET m == event.mon IN
    /\ pc[Dispatcher] = "event"
    /\ IF deleted[m] \/ isIdle[m] = event.idle
       THEN Go(Dispatcher, "top") /\ event' = NoEvent /\ UNCHANGED isIdle
       ELSE /\ isIdle' = [isIdle EXCEPT ![m] = event.idle]
            /\ Go(Dispatcher, "callback")
            /\ UNCHANGED event
    /\ UNCHANGED <<SessionRest, ids, table, enabled, deleted, ref, objVars, reqVars,
                   history>>

\* Its callback.
EventCallback ==
    /\ pc[Dispatcher] = "callback"
    /\ told' = [told EXCEPT ![event.mon] = event.idle]
    /\ event' = NoEvent
    /\ Go(Dispatcher, "top")
    /\ UNCHANGED <<SessionRest, monVars, objVars, reqVars, overlapped, raced>>

\* invalidateStaleProxies forgets the notification of every monitor in the map.
InvalidateStaleProxies(p) ==
    /\ Invalidate(p)
    /\ ref' = [m \in Mons |-> IF m \in table THEN 0 ELSE ref[m]]
    /\ UNCHANGED <<ids, table, enabled, deleted, isIdle, objVars, event, reqVars,
                   history>>

Session(A) == A /\ UNCHANGED <<monVars, objVars, event, reqVars, history>>

Start(r) ==
    \/ \E on \in BOOLEAN : CreateMonitor(r, on)
    \/ \E m \in Mons : DestroyMonitor(r, m) \/ \E on \in BOOLEAN : UpdateMonitor(r, m, on)

RequestStep(r) ==
    \/ Snapshot(r) \/ SnapshotDeleted(r) \/ Drop(r) \/ Clear(r) \/ Callback(r)
    \/ Unsupported(r) \/ CreateNotification(r) \/ CreateBroken(r)
    \/ Reconnected(r) \/ Install(r) \/ Kill(r) \/ Fail(r)
    \/ Session(Steps(r))
    \/ InvalidateStaleProxies(r)

DispatcherStep ==
    \/ Session(LoopTop)
    \/ Session(ReadFails)
    \/ Session(Steps(Dispatcher))
    \/ InvalidateStaleProxies(Dispatcher)
    \/ EventApply
    \/ EventCallback

Next ==
    \/ \E r \in Requests : Start(r) \/ RequestStep(r)
    \/ DispatcherStep
    \/ \E n \in Notifs, idle \in BOOLEAN : NotificationEvent(n, idle)
    \/ Session(HandshakeStolen)
    \/ \E p \in Procs : Session(HandshakeResumed(p))
    \/ Session(CompositorExit)
    \/ Session(CompositorStart)

Spec == Init /\ [][Next]_vars

----------------------------------------------------------------------------
(* Properties *)

\* No request works on monitor m.
Quiet(m) == \A r \in Requests : target[r] # m

\* The notifications of m that the compositor still has.
NotificationsOf(m) == {n \in live : owner[n] = m /\ conn[n] \in alive}

\* While the first connection lasts: once the requests on a monitor are over,
\* an enabled monitor has exactly the notification it refers to and any other
\* monitor has none, even if it was destroyed in the middle of its creation
\* or of an update.  Two refreshes of one monitor at the same time are
\* excluded: the second one overwrites the first one's notification.
OneNotificationPerMonitor ==
    1 \in alive => \A m \in Mons : Quiet(m) /\ ~overlapped[m] =>
        IF m \in table /\ enabled[m]
        THEN ref[m] # 0 /\ NotificationsOf(m) = {ref[m]}
        ELSE ref[m] = 0 /\ NotificationsOf(m) = {}

\* Whoever takes a notification out of a monitor is the only one to destroy
\* it: a notification that is referred to, or about to be destroyed, or just
\* created is alive and in one hand only.  A second destroy of an object is
\* a protocol error, for which the compositor closes the connection.
SingleOwner ==
    /\ \A m \in Mons : ref[m] # 0 =>
          /\ ref[m] \in live /\ owner[ref[m]] = m /\ ~deleted[m]
          /\ \A r \in Requests : ref[m] \notin {old[r], new[r]}
    /\ \A r \in Requests : {old[r], new[r]} \subseteq live \cup {0}
    /\ \A r, q \in Requests : r # q /\ old[r] # 0 => old[r] \notin {old[q], new[q]}

\* Once nobody works on a monitor its clients have been told its state; and
\* while the first connection lasts a disabled monitor is not idle.  Excluded
\* are monitors of which events and refreshes met, or two refreshes: the
\* callbacks are called after im.mu is released, and a handler may run after
\* its notification was destroyed.  After a reconnect invalidateStaleProxies
\* may forget a notification that was created on the new connection already,
\* and its events go on when the monitor has been disabled.
ToldState ==
    \A m \in table : Quiet(m) /\ event.mon # m /\ ~overlapped[m] /\ ~raced[m] =>
        /\ told[m] = isIdle[m]
        /\ 1 \in alive /\ isIdle[m] => enabled[m]
=============================================================================
