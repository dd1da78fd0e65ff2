--------------------------- MODULE WaylandObjects ---------------------------
(***************************************************************************)
(* The objects of one Wayland connection: Context of                       *)
(* pkg/ipc/wayland/client with the goroutines of pkg/server/idle.go that   *)
(* use it.  One goroutine connects: dispatchLoop itself, or a request that *)
(* met a broken pipe, and then dispatchLoop reads from the new connection  *)
(* as soon as it is published.  Requests create and destroy objects under  *)
(* wlMu, and the compositor answers.                                       *)
(*                                                                         *)
(* An event is read in two steps, its header and its arguments, then       *)
(* looked up and handled; a request registers its new object and then      *)
(* writes.  The compositor reads a request when it is written: what it may *)
(* send before it reads a request it may send before that is written.      *)
(* What goes wrong when another goroutine uses the connection before it is *)
(* set up is told apart by the history variable shared.                    *)
(***************************************************************************)
EXTENDS WaylandProtocol

CONSTANTS
    Dispatcher,   \* the dispatchLoop goroutine
    Requesters,   \* request goroutines
    Advertised,   \* interfaces of the globals, in the order they are announced
    Created,      \* interfaces of the objects requests create and destroy
    MaxId,        \* bound: object ids
    MaxEvents     \* bound: events the compositor sends of its own accord

Free == "free"

\* The globals connectWayland binds.
Bindable == {"Compositor", "Seat", "Shm", "IdleNotifier", "IdleInhibitManager", "LayerShell"}

ObjectsAssumption ==
    /\ Dispatcher \notin Requesters /\ Free \notin Requesters
    /\ Advertised \in Seq(Bindable)
    /\ Created \subseteq DOMAIN RequestsOf \ {"Display", "Registry", "Callback"}
    /\ MaxId \in Nat /\ MaxId >= 2 /\ MaxEvents \in Nat

VARIABLES
    connector, \* the goroutine that connects
    ready,     \* its connectWayland has returned
    currentID, \* Context.currentID
    objects,   \* Context.objects: id -> the proxy's interface and zombie flag
    bound,     \* the fields of the IdleManager: interface -> proxy, 0 = nil
    done,      \* the callback of connectWayland's Sync has run
    wlMu,      \* who holds it
    pc,        \* process: what it does next
    task,      \* process: the request it writes or the event it handles
    own,       \* requester: the object it created, 0 before and after
    toClient,  \* events on their way, and what is to be read of each next
    server,    \* the compositor's objects: id -> interface
    granted,   \* the last id it accepted for a new object
    events,    \* events sent of its own accord
    failure,   \* "none" or the first thing that went wrong
    shared     \* history: another goroutine used the connection too early

ctxVars == <<currentID, objects, bound, done>>
netVars == <<toClient, server, granted, events>>
vars == <<connector, ready, ctxVars, wlMu, pc, task, own, netVars, failure, shared>>

Procs   == {Dispatcher} \union Requesters
Globals == Range(Advertised)
Msg(id, op, new, iface) == [id |-> id, op |-> op, new |-> new, iface |-> iface]
Added(f, id, v)  == [i \in DOMAIN f \union {id} |-> IF i = id THEN v ELSE f[i]]
Is(m, iface, op) == m.iface = iface /\ m.op = op

Go(p, l)   == pc' = [pc EXCEPT ![p] = l]
Uses(p)    == shared' = (shared \/ (p # connector /\ ~ready))
Fails(why) == failure' = why

TypeOK ==
    /\ currentID \in 2..MaxId
    /\ DOMAIN objects \subseteq 1..currentID
    /\ \A id \in DOMAIN objects : objects[id].iface \in DOMAIN RequestsOf
    /\ DOMAIN server \subseteq 1..granted
    /\ bound \in [Globals -> 0..currentID]
    /\ own \in [Requesters -> 0..currentID]
    /\ wlMu \in Requesters \union {Free}
    /\ \A p \in Procs :
         pc[p] \in {"registered", "forgetting"} => wlMu = p

\* An event of object id as it lies on the wire.
Message(id, iface, name, val) ==
    LET e == CHOOSE x \in EventsOf(iface) : x.name = name
    IN  [part |-> "header", size |-> MsgLen(e.args, 1), msg |-> Msg(id, name, val, iface)]

Deleted(id) == Message(1, "Display", "DeleteId", id)

\* The events that answer a request: one that destroys its object, Sync, or
\* one that creates an object.
Answer(t) ==
    IF t.new = 0 THEN <<Deleted(t.id)>>
    ELSE IF t.iface = "Callback" THEN <<Message(t.new, "Callback", "Done", 0), Deleted(t.new)>>
    ELSE << >>

Proxy(iface) == [iface |-> iface, zombie |-> FALSE]
Live(id)     == id \in DOMAIN objects /\ ~objects[id].zombie

(* client.Connect and GetRegistry: nobody else knows the connection yet.   *)
(* Requests may already have passed their tests of the old globals.        *)
Init ==
    /\ connector \in Procs
    /\ ready = FALSE
    /\ currentID = 2
    /\ objects = <<Proxy("Display"), Proxy("Registry")>>
    /\ bound = [g \in Globals |-> 0] /\ done = FALSE
    /\ wlMu = Free
    /\ pc \in {[p \in Procs |-> CASE p = connector  -> "sync"
                                  [] p # connector /\ p = Dispatcher -> "header"
                                  [] p # connector /\ p \in ch -> "checked"
                                  [] OTHER -> "idle"] : ch \in SUBSET Requesters}
    /\ task = [p \in Procs |-> Msg(0, "none", 0, "none")]
    /\ own = [r \in Requesters |-> 0]
    /\ server = <<"Display", "Registry">> /\ granted = 2
    /\ toClient = [g \in DOMAIN Advertised |-> Message(2, "Registry", "Global", g)]
    /\ events = 0 /\ failure = "none" /\ shared = FALSE

----------------------------------------------------------------------------
(* Context: objects, messages and dispatching. *)

\* Mutant: the lowest id that is free.
RegisterFree(iface) ==
    LET id == CHOOSE i \in 1..MaxId : i \notin DOMAIN objects
                                      /\ \A j \in 1..(i - 1) : j \in DOMAIN objects
    IN  /\ \E i \in 1..MaxId : i \notin DOMAIN objects
        /\ currentID' = IF id > currentID THEN id ELSE currentID
        /\ objects' = Added(objects, id, Proxy(iface))

Register(iface) ==
    /\ currentID < MaxId
    /\ currentID' = currentID + 1
    /\ objects' = Added(objects, currentID + 1, Proxy(iface))

\* Mutant: zombies are kept, for events still to come.
DeleteLiveID(id) ==
    objects' = [i \in {j \in DOMAIN objects : j # id \/ objects[j].zombie} |-> objects[i]]

DeleteID(id) == objects' = [i \in DOMAIN objects \ {id} |-> objects[i]]

New == CHOOSE id \in DOMAIN objects' : id \notin DOMAIN objects

\* WriteMsg.  The compositor takes the ids of new objects only in sequence, and
\* reports the objects it destroys with delete_id.
Write(t) ==
    IF t.id \notin DOMAIN server
    THEN Fails("invalid object") /\ UNCHANGED <<server, granted, toClient>>
    ELSE IF t.new \notin {0, granted + 1}
    THEN Fails("invalid id") /\ UNCHANGED <<server, granted, toClient>>
    ELSE /\ toClient' = toClient \o Answer(t)
         /\ granted' = IF t.new = 0 THEN granted ELSE t.new
         /\ server' = IF t.new = 0 THEN [id \in DOMAIN server \ {t.id} |-> server[id]]
                      ELSE IF t.iface = "Callback" THEN server
                      ELSE Added(server, t.new, t.iface)
         /\ UNCHANGED failure

\* An event without arguments is all header.
ReadHeader(p) ==
    /\ pc[p] = "header" /\ toClient # << >> /\ Uses(p)
    /\ task' = [task EXCEPT ![p] = Head(toClient).msg]
    /\ IF Head(toClient).part # "header"
       THEN Fails("torn message") /\ toClient' = Tail(toClient) /\ UNCHANGED pc
       ELSE /\ UNCHANGED failure
            /\ IF Head(toClient).size = 8
               THEN Go(p, "lookup") /\ toClient' = Tail(toClient)
               ELSE Go(p, "arguments") /\ toClient' = [toClient EXCEPT ![1].part = "arguments"]
    /\ UNCHANGED <<connector, ready, ctxVars, wlMu, own, server, granted, events>>

ReadArguments(p) ==
    /\ pc[p] = "arguments" /\ toClient # << >>
    /\ toClient' = Tail(toClient) /\ Uses(p)
    /\ IF Head(toClient).part = "arguments" /\ Head(toClient).msg = task[p]
       THEN Go(p, "lookup") /\ UNCHANGED failure
       ELSE Fails("torn message") /\ UNCHANGED pc
    /\ UNCHANGED <<connector, ready, ctxVars, wlMu, task, own, server, granted,
                   events>>

\* After an event connectWayland returns if its callback has run, and the
\* request that called it gives up here; others read the next event.
Goes(p, ran) ==
    IF p = connector /\ ~ready /\ ran
    THEN ready' = TRUE /\ Go(p, IF p = Dispatcher THEN "header" ELSE "end")
    ELSE UNCHANGED ready /\ Go(p, "header")

\* The function GetDispatch returns: an unknown sender or a zombie is skipped,
\* an interface without Dispatch is an error.
Lookup(p) ==
    /\ pc[p] = "lookup"
    /\ LET id == task[p].id IN
       IF ~Live(id)
       THEN Goes(p, done) /\ UNCHANGED <<task, failure>>
       ELSE IF objects[id].iface \in Silent
       THEN Fails("no Dispatch method") /\ UNCHANGED <<pc, task, ready>>
       ELSE /\ Go(p, "handle") /\ UNCHANGED <<failure, ready>>
            /\ IF objects[id].iface = task[p].iface THEN UNCHANGED task
               ELSE task' = [task EXCEPT ![p].op = "misread"]
    /\ UNCHANGED <<connector, ctxVars, wlMu, own, netVars, shared>>

\* The handlers.  That of a global registers a proxy and publishes it in the
\* IdleManager before the caller binds it.
HandleDeleteId(p) ==
    /\ Is(task[p], "Display", "DeleteId")
    /\ DeleteID(task[p].new)
    /\ Goes(p, done) /\ UNCHANGED <<currentID, bound, done, task, shared>>

HandleDone(p) ==
    /\ Is(task[p], "Callback", "Done")
    /\ done' = TRUE
    /\ Goes(p, TRUE) /\ UNCHANGED <<currentID, objects, bound, task, shared>>

HandleGlobal(p) ==
    LET iface == Advertised[task[p].new] IN
    /\ Is(task[p], "Registry", "Global")
    /\ Register(iface) /\ Uses(p)
    /\ bound' = [bound EXCEPT ![iface] = New]
    /\ task' = [task EXCEPT ![p] = Msg(2, "Bind", New, iface)]
    /\ Go(p, "bind") /\ UNCHANGED <<done, ready>>

Handled(m) == Is(m, "Display", "DeleteId") \/ Is(m, "Callback", "Done") \/ Is(m, "Registry", "Global")

Handle(p) ==
    /\ pc[p] = "handle"
    /\ \/ HandleDeleteId(p) \/ HandleDone(p) \/ HandleGlobal(p)
       \/ ~Handled(task[p]) /\ Goes(p, done) /\ UNCHANGED <<ctxVars, task, shared>>
    /\ UNCHANGED <<connector, wlMu, own, netVars, failure>>

Bind(p) ==
    /\ pc[p] = "bind"
    /\ Write(task[p]) /\ Uses(p) /\ Goes(p, done)
    /\ UNCHANGED <<connector, ctxVars, wlMu, task, own, events>>

----------------------------------------------------------------------------
(* connectWayland and dispatchLoop. *)

SyncRegister ==
    /\ pc[connector] = "sync"
    /\ Register("Callback")
    /\ task' = [task EXCEPT ![connector] = Msg(1, "Sync", New, "Callback")]
    /\ Go(connector, "synced")
    /\ UNCHANGED <<connector, ready, bound, done, wlMu, own, netVars, failure, shared>>

SyncWrite ==
    /\ pc[connector] = "synced"
    /\ Write(task[connector]) /\ Go(connector, "header")
    /\ UNCHANGED <<connector, ready, ctxVars, wlMu, task, own, events, shared>>

----------------------------------------------------------------------------
(* Requests: create an object on a bound global, later destroy it.  They   *)
(* test the fields first and lock wlMu afterwards.                         *)

Check(r) ==
    /\ pc[r] = "idle" /\ own[r] = 0
    /\ \A g \in Globals : bound[g] # 0
    /\ Go(r, "checked")
    /\ UNCHANGED <<connector, ready, ctxVars, wlMu, task, own, netVars, failure, shared>>

\* Mutant: nobody is kept out.
LockAnyway(r) == wlMu' = r

Lock(r) == wlMu = Free /\ wlMu' = r

\* The requests that make an object and need no others than the globals.
Creations(g) == {q \in RequestsOf[g] :
                   /\ Makes(q) \cap Created # {}
                   /\ \A a \in Range(q.args) : a.kind = "object" => a.iface \in Globals}

CreateRegister(r) ==
    /\ pc[r] = "checked" /\ Lock(r) /\ Uses(r)
    /\ \E g \in Globals : \E q \in Creations(g) :
         IF bound[g] = 0 \/ \E a \in Range(q.args) : a.kind = "object" /\ bound[a.iface] = 0
         THEN /\ Fails("nil proxy")
              /\ UNCHANGED <<currentID, objects, task, pc>>
         ELSE LET iface == CHOOSE i \in Makes(q) \cap Created : TRUE IN
              /\ Register(iface)
              /\ task' = [task EXCEPT ![r] = Msg(bound[g], q.name, New, iface)]
              /\ Go(r, "registered") /\ UNCHANGED failure
    /\ UNCHANGED <<connector, ready, bound, done, own, netVars>>

CreateWrite(r) ==
    /\ pc[r] = "registered" /\ Uses(r)
    /\ Write(task[r]) /\ own' = [own EXCEPT ![r] = task[r].new]
    /\ wlMu' = Free /\ Go(r, "idle")
    /\ UNCHANGED <<connector, ready, ctxVars, task, events>>

DestroyWrite(r) ==
    /\ pc[r] = "idle" /\ own[r] # 0 /\ Lock(r) /\ Uses(r)
    /\ \E q \in RequestsOf[objects[own[r]].iface] :
         q.ends /\ Write(Msg(own[r], q.name, 0, "none"))
    /\ Go(r, "forgetting")
    /\ UNCHANGED <<connector, ready, ctxVars, task, own, events>>

\* The deferred Unregister or MarkZombie.
Forget(r) ==
    /\ pc[r] = "forgetting"
    /\ objects' = IF own[r] \notin DOMAIN objects THEN objects
                  ELSE IF objects[own[r]].iface \in Unregisters
                  THEN [id \in DOMAIN objects \ {own[r]} |-> objects[id]]
                  ELSE [objects EXCEPT ![own[r]].zombie = TRUE]
    /\ own' = [own EXCEPT ![r] = 0] /\ wlMu' = Free /\ Go(r, "end")
    /\ UNCHANGED <<connector, ready, currentID, bound, done, task, netVars, failure, shared>>

----------------------------------------------------------------------------
(* The compositor (environment). *)

\* Events of the objects in use that carry no other object.
SendEvent ==
    /\ events < MaxEvents /\ events' = events + 1
    /\ \E id \in DOMAIN server \ {1, 2} : \E e \in EventsOf(server[id]) :
         /\ \A a \in Range(e.args) : a.kind \notin {"object", "new"}
         /\ toClient' = Append(toClient, Message(id, server[id], e.name, 0))
    /\ UNCHANGED <<connector, ready, ctxVars, wlMu, pc, task, own, server, granted,
                   failure, shared>>

----------------------------------------------------------------------------
Reader(p)    == ReadHeader(p) \/ ReadArguments(p) \/ Lookup(p) \/ Handle(p) \/ Bind(p)
Goroutines   == \/ SyncRegister \/ SyncWrite
                \/ \E p \in Procs : Reader(p)
                \/ \E r \in Requesters : CreateWrite(r) \/ Forget(r)

Next ==
    /\ failure = "none"
    /\ \/ Goroutines
       \/ \E r \in Requesters : Check(r) \/ CreateRegister(r) \/ DestroyWrite(r)
       \/ SendEvent

Spec == Init /\ [][Next]_vars

----------------------------------------------------------------------------
(* Properties. *)

(* The compositor ends the connection for a request on an object it does   *)
(* not know and for ids out of sequence, and two readers tear an event     *)
(* apart.  wlMu and the one dispatchLoop exclude all of it, and a nil      *)
(* proxy, unless another goroutine used the connection before              *)
(* connectWayland was done with it.                                        *)
OnlyEarlyUseFails == failure # "none" => shared

(* An event is decoded as an event of the interface it was sent for: ids   *)
(* are not used again, so an event that crosses a destroy meets the old    *)
(* proxy, a zombie or nothing.                                             *)
NothingMisread ==
    \A p \in Procs : pc[p] = "lookup" /\ Live(task[p].id) => objects[task[p].id].iface = task[p].iface

(* Proxies whose Destroy only marks them leave the table when the          *)
(* compositor has deleted them: once no event is on its way or being       *)
(* handled none is left, in whatever order the mark and the deletion came. *)
Quiet == failure = "none" /\ toClient = << >> /\ \A p \in Procs : pc[p] \notin {"lookup", "arguments", "handle"}
ZombiesLeave == Quiet => \A id \in DOMAIN objects : ~objects[id].zombie
=============================================================================
