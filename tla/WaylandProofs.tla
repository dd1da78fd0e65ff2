--------------------------- MODULE WaylandProofs ---------------------------
(***************************************************************************)
(* The Wayland connection of Parts, for any callers, globals, interfaces   *)
(* and bounds.  The invariant, WaylandInv, has                             *)
(*   - the types, and what does not change (Permanent);                    *)
(*   - which ids the client and the compositor have given to what, and     *)
(*     that the events on the wire fit them (IdsFit);                      *)
(*   - that a destroyed proxy is waiting for the deletion of its id, which *)
(*     is on the wire (ZombiesGo);                                         *)
(*   - and, as long as connectWayland and the dispatcher take turns        *)
(*     (Orderly): one goroutine uses the connection, the wire holds whole  *)
(*     events after a part that was read, ids are given in sequence, the   *)
(*     objects of the events are there, and the globals come first.        *)
(***************************************************************************)
EXTENDS PartsProofs

----------------------------------------------------------------------------
(* What the wire carries, and the invariant. *)

\* What is on the wire: the events a connection may carry.
Ifaces == {"Display", "Registry", "Callback"} \union W!Bindable \union Created
EventNames == {"DeleteId", "Done", "Global"} \union UNION {{e.name : e \in W!EventsOf(i)} : i \in Ifaces}
SizeOf(i, n) == W!MsgLen((CHOOSE e \in W!EventsOf(i) : e.name = n).args, 1)
Sizes  == UNION {{SizeOf(i, n) : n \in EventNames} : i \in Ifaces}
Messages == [id : Nat, op : EventNames, new : Nat, iface : Ifaces]
Wires  == [part : {"header", "arguments"}, size : Sizes, msg : Messages]

Reading == {"arguments", "lookup", "handle"}
Writing == {"synced", "bind", "registered"}
Labels  == {"sync", "header", "idle", "checked", "forgetting", "end"} \union Reading \union Writing

\* An event is for the object it was sent for, if that is still there.
EventFits(m) ==
    /\ m.id \in 1..currentID
    /\ m.id \in DOMAIN objects => objects[m.id].iface = m.iface
    /\ W!EventsOf(m.iface) # {}
    /\ m.iface = "Display" => m.id = 1 /\ m.op = "DeleteId" /\ m.new \in 3..currentID
    /\ m.iface = "Registry" => m.id = 2 /\ m.op = "Global" /\ m.new \in DOMAIN Advertised
    /\ m.iface = "Callback" => m.op = "Done"

\* Event m is on its way or being handled.
Carried(m) ==
    \/ \E i \in DOMAIN toClient : toClient[i].msg = m
    \/ \E p \in W!Procs : pc[p] \in Reading /\ task[p] = m

\* The deletion of an object, and the announcement of a global.
Deletion(id)    == W!Msg(1, "DeleteId", id, "Display")
Announcement(k) == W!Msg(2, "Global", k, "Registry")

FlagsTyped == connector \in W!Procs /\ ready \in BOOLEAN /\ done \in BOOLEAN /\ shared \in BOOLEAN

TablesTyped ==
    /\ currentID \in 2..MaxId /\ granted \in Nat
    /\ DOMAIN objects \subseteq 1..currentID /\ DOMAIN server \subseteq 1..currentID
    /\ DOMAIN server \subseteq 1..granted
    /\ \A id \in DOMAIN objects : objects[id] \in [iface : Ifaces, zombie : BOOLEAN]
    /\ bound \in [W!Globals -> 0..currentID]
    /\ own \in [Clients -> {0} \union 3..currentID]
    /\ wlMu \in Clients \union {W!Free}
    /\ pc \in [W!Procs -> Labels]
    /\ DOMAIN task = W!Procs
    /\ toClient \in Seq(Wires)
    /\ \A p \in W!Procs : pc[p] \in {"registered", "forgetting"} => p \in Clients /\ wlMu = p

WaylandTyped == FlagsTyped /\ TablesTyped

\* The display and the registry stay.
Permanent == \A id \in {1, 2} : id \in DOMAIN objects /\ objects[id] = W!Proxy(IF id = 1 THEN "Display" ELSE "Registry")

\* The compositor's objects, the events and the requests about to be written
\* are about the proxies with their ids.
IdsFit ==
    /\ \A id \in DOMAIN server :
         /\ id \in DOMAIN objects => objects[id].iface = server[id]
         /\ id > 2 => server[id] \in W!Bindable \union Created
    /\ \A i \in DOMAIN toClient : EventFits(toClient[i].msg)
    /\ \A p \in W!Procs : pc[p] \in Reading => task[p] \in Messages /\ EventFits(task[p])
    /\ \A p \in W!Procs : pc[p] \in Writing =>
         /\ task[p].id \in Nat /\ task[p].new \in 3..currentID
         /\ task[p].new \in DOMAIN objects => objects[task[p].new].iface = task[p].iface
         /\ task[p].iface \in W!Bindable \union Created \union {"Callback"}

\* What is or will be marked has been deleted by the compositor.
ZombiesGo ==
    failure = "none" =>
      \A id \in DOMAIN objects :
        objects[id].zombie \/ (\E r \in Clients : pc[r] = "forgetting" /\ own[r] = id) => Carried(Deletion(id))

\* Who reads from the connection.
TheReader == IF ready THEN Dispatcher ELSE connector

\* One goroutine reads, and before ready nobody else uses the connection.
OneUses ==
    /\ \A p \in W!Procs :
         /\ pc[p] \in {"sync", "synced"} => ~ready /\ p = connector
         /\ pc[p] \in Reading \union {"bind"} => p = TheReader
         /\ pc[p] = "bind" => ~ready
         /\ pc[p] = "header" => p = Dispatcher \/ (p = connector /\ ~ready)
    /\ ~ready =>
         /\ \A p \in W!Procs : p # connector => pc[p] \in {"idle", "checked", "header"}
         /\ pc[connector] \in {"sync", "synced", "header", "bind"} \union Reading
         /\ \A r \in Clients : own[r] = 0

\* An event is read whole.
EventsWhole ==
    /\ \A i \in DOMAIN toClient : toClient[i].part = "arguments" => i = 1 /\ pc[TheReader] = "arguments"
    /\ \A p \in W!Procs : pc[p] = "arguments" =>
         toClient # << >> /\ toClient[1].part = "arguments" /\ toClient[1].msg = task[p]

\* New objects are written in the order of their ids.
IdsInSequence ==
    /\ \A p \in W!Procs : pc[p] \in Writing =>
         /\ granted + 1 = currentID /\ task[p].new = currentID
         /\ \A q \in W!Procs : pc[q] \in Writing => q = p
    /\ (\A p \in W!Procs : pc[p] \notin Writing) => granted = currentID

\* The compositor has the objects that requests are for, and nobody destroys
\* what is not its own.
ObjectsThere ==
    /\ {1, 2} \subseteq DOMAIN server
    /\ \A g \in W!Globals : bound[g] # 0 =>
         bound[g] \in DOMAIN server \/ \E p \in W!Procs : pc[p] = "bind" /\ task[p].new = bound[g]
    /\ \A g \in W!Globals : bound[g] \in {0} \union 3..currentID
    /\ \A r \in Clients : own[r] # 0 /\ pc[r] # "forgetting" => own[r] \in DOMAIN server
    /\ \A r \in Clients, s \in Clients : own[r] = own[s] /\ own[r] # 0 => r = s
    /\ \A r \in Clients, g \in W!Globals : own[r] # 0 => own[r] # bound[g]
    /\ \A p \in W!Procs :
         /\ pc[p] = "synced" => task[p].id = 1
         /\ pc[p] = "bind" => task[p].id = 2
         /\ pc[p] = "registered" => task[p].id \in DOMAIN server
         /\ pc[p] \in {"bind", "registered"} => task[p].iface # "Callback"

\* A global is announced before the callback runs, and bound by then.
GlobalsFirst ==
    /\ \A k \in DOMAIN Advertised : bound[Advertised[k]] # 0 \/ Carried(Announcement(k))
    /\ \A i \in DOMAIN toClient, j \in DOMAIN toClient :
         i < j /\ toClient[i].msg.iface = "Callback" => toClient[j].msg.iface # "Registry"
    /\ done \/ (\E p \in W!Procs : pc[p] \in Reading /\ task[p].iface = "Callback") =>
         \A i \in DOMAIN toClient : toClient[i].msg.iface # "Registry"
    /\ done => \A p \in W!Procs : pc[p] \in Reading => task[p].iface # "Registry"
    /\ ready => done

Orderly == failure = "none" /\ OneUses /\ EventsWhole /\ IdsInSequence /\ ObjectsThere /\ GlobalsFirst

WaylandInv ==
    /\ WaylandTyped /\ Permanent /\ IdsFit /\ ZombiesGo
    /\ shared \/ Orderly


\* The constants of the connection.
LEMMA ConnectionConstants ==
    ASSUME PartsAssumption
    PROVE  /\ Dispatcher \notin Clients /\ W!Free \notin Clients
           /\ Advertised \in Seq(W!Bindable) /\ W!Globals \subseteq W!Bindable
           /\ \A k \in DOMAIN Advertised : Advertised[k] \in W!Globals
           /\ Created \intersect {"Display", "Registry", "Callback"} = {}
           /\ W!Bindable \intersect {"Display", "Registry", "Callback"} = {}
           /\ MaxId \in Nat /\ MaxId >= 2
<1>1. W!ObjectsAssumption
  BY DEF PartsAssumption
<1>2. W!Bindable \intersect {"Display", "Registry", "Callback"} = {}
  BY DEF W!Bindable
<1>3. W!Globals \subseteq W!Bindable /\ \A k \in DOMAIN Advertised : Advertised[k] \in W!Globals
  BY <1>1 DEF W!ObjectsAssumption, W!Globals, W!Range
<1> QED
  BY <1>1, <1>2, <1>3 DEF W!ObjectsAssumption

\* The interfaces of connectWayland have events.
LEMMA TheyHaveEvents ==
    W!EventsOf("Display") # {} /\ W!EventsOf("Registry") # {} /\ W!EventsOf("Callback") # {}
<1>1. W!EventsOf("Display") # {}
  BY DEF W!EventsOf, W!DisplayEvents
<1>2. W!EventsOf("Registry") # {}
  BY DEF W!EventsOf, W!RegistryEvents
<1>3. W!EventsOf("Callback") # {}
  BY DEF W!EventsOf, W!CallbackEvents
<1> QED
  BY <1>1, <1>2, <1>3

\* What a message is.
LEMMA MessageIs ==
    ASSUME NEW id \in Nat, NEW iface \in Ifaces, NEW name \in EventNames, NEW val \in Nat
    PROVE  /\ W!Message(id, iface, name, val) \in Wires
           /\ W!Message(id, iface, name, val).part = "header"
           /\ W!Message(id, iface, name, val).msg = W!Msg(id, name, val, iface)
<1>1. SizeOf(iface, name) \in Sizes
  BY DEF Sizes
<1>2. W!Message(id, iface, name, val) = [part |-> "header", size |-> SizeOf(iface, name), msg |-> W!Msg(id, name, val, iface)]
  BY DEF W!Message, SizeOf
<1>3. W!Msg(id, name, val, iface) \in Messages
  BY DEF W!Msg, Messages
<1> QED
  BY <1>1, <1>2, <1>3 DEF Wires

\* Two sequences, one after the other.
LEMMA Joined ==
    ASSUME NEW S, NEW p \in Seq(S), NEW q \in Seq(S)
    PROVE  /\ p \o q \in Seq(S) /\ Len(p) \in Nat /\ Len(q) \in Nat
           /\ DOMAIN p = 1..Len(p) /\ DOMAIN q = 1..Len(q) /\ DOMAIN (p \o q) = 1..(Len(p) + Len(q))
           /\ \A i \in 1..Len(p) : (p \o q)[i] = p[i]
           /\ \A i \in 1..Len(q) : (p \o q)[Len(p) + i] = q[i]
OBVIOUS

\* A step sends events: they are complete, and for no registry.
Emits(q) ==
    /\ q \in Seq(Wires) /\ toClient' = toClient \o q
    /\ \A i \in DOMAIN q : q[i].part = "header" /\ q[i].msg.iface # "Registry"

\* Whatever is in toClient' was there or has been sent.
LEMMA EmitsMore ==
    ASSUME toClient \in Seq(Wires), NEW q, Emits(q)
    PROVE  /\ toClient' \in Seq(Wires)
           /\ DOMAIN toClient = 1..Len(toClient) /\ Len(toClient) \in Nat
           /\ DOMAIN toClient' = 1..(Len(toClient) + Len(q)) /\ DOMAIN q = 1..Len(q) /\ Len(q) \in Nat
           /\ \A i \in DOMAIN toClient : i \in DOMAIN toClient' /\ toClient'[i] = toClient[i]
           /\ \A i \in DOMAIN q : Len(toClient) + i \in DOMAIN toClient' /\ toClient'[Len(toClient) + i] = q[i]
           /\ \A i \in DOMAIN toClient' : \/ i \in DOMAIN toClient /\ toClient'[i] = toClient[i]
                                          \/ /\ i > Len(toClient)
                                             /\ i - Len(toClient) \in DOMAIN q
                                             /\ toClient'[i] = q[i - Len(toClient)]
<1>1. /\ toClient \o q \in Seq(Wires) /\ Len(toClient) \in Nat /\ Len(q) \in Nat
      /\ DOMAIN toClient = 1..Len(toClient) /\ DOMAIN q = 1..Len(q)
      /\ DOMAIN (toClient \o q) = 1..(Len(toClient) + Len(q))
      /\ \A i \in 1..Len(toClient) : (toClient \o q)[i] = toClient[i]
      /\ \A i \in 1..Len(q) : (toClient \o q)[Len(toClient) + i] = q[i]
  BY Joined DEF Emits
<1>2. toClient' = toClient \o q
  BY DEF Emits
<1>3. \A i \in 1..(Len(toClient) + Len(q)) :
        i \in 1..Len(toClient) \/ (i > Len(toClient) /\ i - Len(toClient) \in 1..Len(q)
                                   /\ i = Len(toClient) + (i - Len(toClient)))
  BY <1>1
<1> QED
  BY <1>1, <1>2, <1>3

\* What the compositor answers to a request it accepts.
LEMMA AnswerIs ==
    ASSUME NEW t, t.id \in Nat, t.new \in Nat
    PROVE  /\ W!Answer(t) \in Seq(Wires)
           /\ \A i \in DOMAIN W!Answer(t) :
                /\ W!Answer(t)[i].part = "header"
                /\ \/ t.new = 0 /\ W!Answer(t)[i].msg = W!Msg(1, "DeleteId", t.id, "Display")
                   \/ /\ t.new # 0 /\ t.iface = "Callback"
                      /\ \/ W!Answer(t)[i].msg = W!Msg(t.new, "Done", 0, "Callback")
                         \/ W!Answer(t)[i].msg = W!Msg(1, "DeleteId", t.new, "Display")
           /\ t.new = 0 => 1 \in DOMAIN W!Answer(t) /\ W!Answer(t)[1].msg = W!Msg(1, "DeleteId", t.id, "Display")
<1>1. ASSUME NEW id \in Nat
      PROVE  /\ W!Deleted(id) \in Wires /\ W!Deleted(id).part = "header"
             /\ W!Deleted(id).msg = W!Msg(1, "DeleteId", id, "Display")
  <2>1. "Display" \in Ifaces /\ "DeleteId" \in EventNames /\ 1 \in Nat
    BY DEF Ifaces, EventNames
  <2> QED
    BY <2>1, MessageIs DEF W!Deleted
<1> DEFINE m == W!Message(t.new, "Callback", "Done", 0)
           d == W!Deleted(t.id)
           n == W!Deleted(t.new)
<1>2. m \in Wires /\ m.part = "header" /\ m.msg = W!Msg(t.new, "Done", 0, "Callback")
  <2>1. "Callback" \in Ifaces /\ "Done" \in EventNames /\ 0 \in Nat
    BY DEF Ifaces, EventNames
  <2> QED
    BY <2>1, MessageIs
<1>3. W!Answer(t) = IF t.new = 0 THEN <<d>> ELSE IF t.iface = "Callback" THEN <<m, n>> ELSE << >>
  BY DEF W!Answer
<1>4. /\ d \in Wires /\ d.part = "header" /\ d.msg = W!Msg(1, "DeleteId", t.id, "Display")
      /\ n \in Wires /\ n.part = "header" /\ n.msg = W!Msg(1, "DeleteId", t.new, "Display")
  BY <1>1
<1> HIDE DEF m, d, n
<1>5. CASE t.new = 0
  <2>1. W!Answer(t) = <<d>> /\ <<d>> \in Seq(Wires) /\ DOMAIN <<d>> = {1} /\ <<d>>[1] = d
    BY <1>3, <1>4, <1>5
  <2> QED
    BY <1>4, <1>5, <2>1
<1>6. CASE t.new # 0 /\ t.iface = "Callback"
  <2>1. W!Answer(t) = <<m, n>> /\ <<m, n>> \in Seq(Wires) /\ DOMAIN <<m, n>> = {1, 2}
        /\ <<m, n>>[1] = m /\ <<m, n>>[2] = n
    BY <1>2, <1>3, <1>4, <1>6
  <2> QED
    BY <1>2, <1>4, <1>6, <2>1
<1>7. CASE t.new # 0 /\ t.iface # "Callback"
  <2>1. W!Answer(t) = << >> /\ << >> \in Seq(Wires) /\ DOMAIN << >> = {}
    BY <1>3, <1>7
  <2> QED
    BY <1>7, <2>1
<1> QED
  BY <1>5, <1>6, <1>7

\* A new object takes the next id.
LEMMA RegisterIs ==
    ASSUME WaylandTyped, PartsAssumption, NEW iface, W!Register(iface)
    PROVE  /\ currentID' = currentID + 1 /\ currentID' \in 2..MaxId
           /\ DOMAIN objects' = DOMAIN objects \union {currentID'} /\ currentID' \notin DOMAIN objects
           /\ \A id \in DOMAIN objects : objects'[id] = objects[id]
           /\ objects'[currentID'] = W!Proxy(iface)
           /\ W!New = currentID'
<1>1. currentID \in Nat /\ currentID < MaxId /\ MaxId \in Nat /\ currentID >= 2 /\ DOMAIN objects \subseteq 1..currentID
  BY ConnectionConstants DEF WaylandTyped, TablesTyped, W!Register
<1>2. /\ currentID' = currentID + 1
      /\ objects' = W!Added(objects, currentID + 1, W!Proxy(iface))
  BY DEF W!Register
<1> QED
  BY <1>1, <1>2 DEF W!New, W!Added

\* A request that ends the connection, one that destroys its object, and one
\* with a new object.
Refused(t) == /\ failure' \in {"invalid object", "invalid id"}
              /\ t.id \notin DOMAIN server \/ t.new \notin {0, granted + 1}
              /\ UNCHANGED <<toClient, server, granted>>
Destroyed(t) == /\ failure' = failure /\ t.id \in DOMAIN server /\ t.new = 0
                /\ Emits(W!Answer(t)) /\ granted' = granted
                /\ DOMAIN server' = DOMAIN server \ {t.id}
                /\ \A id \in DOMAIN server' : server'[id] = server[id]
Granted(t) == /\ failure' = failure /\ t.id \in DOMAIN server /\ t.new = granted + 1
              /\ Emits(W!Answer(t)) /\ granted' = t.new
              /\ \A id \in DOMAIN server : id \in DOMAIN server' /\ server'[id] = server[id]
              /\ \A id \in DOMAIN server' : id \in DOMAIN server \/ (id = t.new /\ t.iface # "Callback")
              /\ t.iface # "Callback" => t.new \in DOMAIN server' /\ server'[t.new] = t.iface

LEMMA WriteIs ==
    ASSUME WaylandTyped, NEW t, t.id \in Nat, t.new \in Nat, W!Write(t)
    PROVE  Refused(t) \/ Destroyed(t) \/ Granted(t)
<1>1. toClient \in Seq(Wires) /\ granted \in Nat /\ DOMAIN server \subseteq 1..granted
  BY DEF WaylandTyped, TablesTyped
<1>2. ASSUME toClient' = toClient \o W!Answer(t) PROVE Emits(W!Answer(t))
  <2>1. \A i \in DOMAIN W!Answer(t) : W!Answer(t)[i].part = "header" /\ W!Answer(t)[i].msg.iface # "Registry"
    <3>1. \A m \in {W!Msg(1, "DeleteId", t.id, "Display"), W!Msg(1, "DeleteId", t.new, "Display"),
                     W!Msg(t.new, "Done", 0, "Callback")} : m.iface # "Registry"
      BY DEF W!Msg
    <3> QED
      BY <3>1, AnswerIs
  <2> QED
    BY <1>2, <2>1, AnswerIs DEF Emits
<1>3. CASE t.id \notin DOMAIN server
  BY <1>3 DEF W!Write, W!Fails, Refused
<1>4. CASE t.id \in DOMAIN server /\ t.new \notin {0, granted + 1}
  BY <1>4 DEF W!Write, W!Fails, Refused
<1>5. CASE t.id \in DOMAIN server /\ t.new \in {0, granted + 1}
  <2>1. /\ toClient' = toClient \o W!Answer(t) /\ UNCHANGED failure
        /\ granted' = IF t.new = 0 THEN granted ELSE t.new
        /\ server' = IF t.new = 0 THEN [id \in DOMAIN server \ {t.id} |-> server[id]]
                     ELSE IF t.iface = "Callback" THEN server
                     ELSE W!Added(server, t.new, t.iface)
    BY <1>5 DEF W!Write
  <2>2. Emits(W!Answer(t))
    BY <1>2, <2>1
  <2>3. CASE t.new = 0
    BY <1>5, <2>1, <2>2, <2>3 DEF Destroyed
  <2>4. CASE t.new # 0 /\ t.iface = "Callback"
    <3>1. t.new = granted + 1 /\ granted' = t.new /\ server' = server
      BY <1>5, <2>1, <2>4
    <3> QED
      BY <1>5, <2>1, <2>2, <2>4, <3>1 DEF Granted
  <2>5. CASE t.new # 0 /\ t.iface # "Callback"
    <3>1. t.new = granted + 1 /\ granted' = t.new /\ t.new \notin DOMAIN server
      BY <1>1, <1>5, <2>1, <2>5
    <3>2. /\ \A id \in DOMAIN server : id \in DOMAIN server' /\ server'[id] = server[id]
          /\ \A id \in DOMAIN server' : id \in DOMAIN server \/ id = t.new
          /\ t.new \in DOMAIN server' /\ server'[t.new] = t.iface
      BY <2>1, <2>5, <3>1 DEF W!Added
    <3> QED
      BY <1>5, <2>1, <2>2, <2>5, <3>1, <3>2 DEF Granted
  <2> QED
    BY <2>3, <2>4, <2>5
<1> QED
  BY <1>3, <1>4, <1>5

\* After an event: the next one, or connectWayland returns.
LEMMA GoesIs ==
    ASSUME NEW p, NEW ran, W!Goes(p, ran)
    PROVE  \/ ready' = ready /\ W!Go(p, "header") /\ ~(p = connector /\ ~ready /\ ran)
           \/ /\ p = connector /\ ~ready /\ ran /\ ready' = TRUE
              /\ \/ p = Dispatcher /\ W!Go(p, "header")
                 \/ p # Dispatcher /\ W!Go(p, "end")
BY DEF W!Goes

\* An event sent of the compositor's own accord.
LEMMA EmissionIs ==
    ASSUME WaylandTyped, IdsFit, PartsAssumption, W!SendEvent
    PROVE  /\ UNCHANGED <<connector, ready, currentID, objects, bound, done, wlMu, pc, task, own,
                          server, granted, failure, shared>>
           /\ \E q : /\ Emits(q) /\ DOMAIN q = {1}
                     /\ q[1].msg.id \in DOMAIN server /\ q[1].msg.id > 2
                     /\ q[1].msg.iface = server[q[1].msg.id]
                     /\ W!EventsOf(q[1].msg.iface) # {}
<1>1. PICK id \in DOMAIN server \ {1, 2} : \E e \in W!EventsOf(server[id]) :
             toClient' = Append(toClient, W!Message(id, server[id], e.name, 0))
  BY DEF W!SendEvent
<1>2. PICK e \in W!EventsOf(server[id]) : toClient' = Append(toClient, W!Message(id, server[id], e.name, 0))
  BY <1>1
<1>3. id \in Nat /\ id > 2 /\ server[id] \in W!Bindable \union Created /\ granted \in Nat
  BY <1>1 DEF WaylandTyped, TablesTyped, IdsFit
<1>4. server[id] \in Ifaces /\ server[id] # "Registry"
  BY <1>3, ConnectionConstants DEF Ifaces
<1>5. e.name \in EventNames
  BY <1>2, <1>4 DEF EventNames
<1> DEFINE m == W!Message(id, server[id], e.name, 0)
<1>6. m \in Wires /\ m.part = "header" /\ m.msg = W!Msg(id, e.name, 0, server[id])
  BY <1>3, <1>4, <1>5, MessageIs
<1>7. m.msg.id = id /\ m.msg.iface = server[id]
  BY <1>6 DEF W!Msg
<1>8. toClient' = Append(toClient, m)
  BY <1>2
<1> HIDE DEF m
<1>9. <<m>> \in Seq(Wires) /\ DOMAIN <<m>> = {1} /\ <<m>>[1] = m /\ toClient' = toClient \o <<m>>
  <2>1. toClient \in Seq(Wires)
    BY DEF WaylandTyped, TablesTyped
  <2> QED
    BY <1>6, <1>8, <2>1
<1>10. Emits(<<m>>)
  BY <1>4, <1>6, <1>7, <1>9 DEF Emits
<1>11. UNCHANGED <<connector, ready, currentID, objects, bound, done, wlMu, pc, task, own, server, granted, failure, shared>>
  BY DEF W!SendEvent, W!ctxVars
<1> QED
  BY <1>1, <1>2, <1>3, <1>7, <1>9, <1>10, <1>11

\* The steps of the connection.
LEMMA WaylandSteps ==
    ASSUME W!Next
    PROVE  /\ failure = "none"
           /\ \/ W!SyncRegister \/ W!SyncWrite \/ W!SendEvent
              \/ \E p \in W!Procs : \/ W!ReadHeader(p) \/ W!ReadArguments(p) \/ W!Lookup(p)
                                    \/ W!Handle(p) \/ W!Bind(p)
              \/ \E r \in Clients : \/ W!CreateWrite(r) \/ W!Forget(r) \/ W!Check(r)
                                    \/ W!CreateRegister(r) \/ W!DestroyWrite(r)
BY DEF W!Next, W!Goroutines, W!Reader

LEMMA FlagsStay ==
    ASSUME FlagsTyped, W!Next PROVE FlagsTyped' /\ connector' = connector
<1> USE DEF FlagsTyped
<1>1. CASE W!SyncRegister \/ W!SyncWrite \/ W!SendEvent
  BY <1>1 DEF W!SyncRegister, W!SyncWrite, W!SendEvent, W!ctxVars
<1>2. ASSUME NEW p \in W!Procs, W!ReadHeader(p) \/ W!ReadArguments(p) PROVE FlagsTyped' /\ connector' = connector
  BY <1>2 DEF W!ReadHeader, W!ReadArguments, W!ctxVars, W!Uses
<1>3. ASSUME NEW p \in W!Procs, W!Lookup(p) PROVE FlagsTyped' /\ connector' = connector
  BY <1>3 DEF W!Lookup, W!ctxVars, W!Goes
<1>4. ASSUME NEW p \in W!Procs, W!Handle(p) PROVE FlagsTyped' /\ connector' = connector
  BY <1>4 DEF W!Handle, W!HandleDeleteId, W!HandleDone, W!HandleGlobal, W!ctxVars, W!Goes, W!Uses
<1>5. ASSUME NEW p \in W!Procs, W!Bind(p) PROVE FlagsTyped' /\ connector' = connector
  BY <1>5 DEF W!Bind, W!ctxVars, W!Goes, W!Uses
<1>6. ASSUME NEW r \in Clients, W!CreateWrite(r) \/ W!Forget(r) \/ W!Check(r) PROVE FlagsTyped' /\ connector' = connector
  BY <1>6 DEF W!CreateWrite, W!Forget, W!Check, W!ctxVars, W!Uses
<1>7. ASSUME NEW r \in Clients, W!CreateRegister(r) \/ W!DestroyWrite(r) PROVE FlagsTyped' /\ connector' = connector
  BY <1>7 DEF W!CreateRegister, W!DestroyWrite, W!ctxVars, W!Uses
<1> QED
  BY <1>1, <1>2, <1>3, <1>4, <1>5, <1>6, <1>7, WaylandSteps

\* p puts a new object into the table and is about to write the request.
Registers(p) ==
    /\ p \in W!Procs /\ pc[p] \in {"sync", "handle", "checked"}
    /\ currentID' = currentID + 1 /\ currentID' \in 2..MaxId
    /\ DOMAIN objects' = DOMAIN objects \union {currentID'} /\ currentID' \notin DOMAIN objects
    /\ \A id \in DOMAIN objects : objects'[id] = objects[id]
    /\ task' = [task EXCEPT ![p] = task'[p]]
    /\ task'[p].id \in 0..currentID /\ task'[p].new = currentID'
    /\ task'[p].iface \in W!Bindable \union Created \union {"Callback"}
    /\ objects'[currentID'] = W!Proxy(task'[p].iface)
    /\ pc' = [pc EXCEPT ![p] = pc'[p]]
    /\ pc'[p] = CASE pc[p] = "sync" -> "synced" [] pc[p] = "handle" -> "bind" [] OTHER -> "registered"
    /\ UNCHANGED <<connector, ready, done, own, toClient, server, granted, failure>>

LEMMA SyncRegisters ==
    ASSUME WaylandTyped, PartsAssumption, W!SyncRegister, NEW p, p = connector
    PROVE  /\ Registers(p) /\ UNCHANGED <<bound, wlMu, shared>>
           /\ pc[p] = "sync" /\ task'[p].id = 1
<1>1. W!Register("Callback") /\ p \in W!Procs /\ pc \in [W!Procs -> Labels] /\ DOMAIN task = W!Procs
  BY DEF W!SyncRegister, WaylandTyped, TablesTyped, FlagsTyped
<1>2. /\ currentID' = currentID + 1 /\ currentID' \in 2..MaxId
      /\ DOMAIN objects' = DOMAIN objects \union {currentID'} /\ currentID' \notin DOMAIN objects
      /\ \A id \in DOMAIN objects : objects'[id] = objects[id]
      /\ objects'[currentID'] = W!Proxy("Callback")
      /\ W!New = currentID'
  BY <1>1, RegisterIs
<1>3. task' = [task EXCEPT ![p] = W!Msg(1, "Sync", currentID', "Callback")]
      /\ pc' = [pc EXCEPT ![p] = "synced"] /\ pc[p] = "sync"
      /\ UNCHANGED <<connector, ready, bound, done, wlMu, own, toClient, server, granted, failure, shared>>
  BY <1>2 DEF W!SyncRegister, W!Go, W!netVars
<1>4. /\ task'[p] = W!Msg(1, "Sync", currentID', "Callback") /\ pc'[p] = "synced"
      /\ task' = [task EXCEPT ![p] = task'[p]]
      /\ pc' = [pc EXCEPT ![p] = pc'[p]]
  BY <1>1, <1>3
<1>5. W!Msg(1, "Sync", currentID', "Callback").id = 1 /\ W!Msg(1, "Sync", currentID', "Callback").new = currentID'
      /\ W!Msg(1, "Sync", currentID', "Callback").iface = "Callback" /\ 1 \in 0..currentID
  BY DEF W!Msg, WaylandTyped, TablesTyped
<1> QED
  BY <1>1, <1>2, <1>3, <1>4, <1>5 DEF Registers

LEMMA GlobalRegisters ==
    ASSUME WaylandTyped, IdsFit, PartsAssumption, NEW p \in W!Procs, W!Handle(p), W!HandleGlobal(p)
    PROVE  /\ Registers(p) /\ pc[p] = "handle" /\ wlMu' = wlMu /\ W!Uses(p) /\ task'[p].id = 2
           /\ task[p].new \in DOMAIN Advertised /\ task[p].iface = "Registry" /\ task[p].op = "Global"
           /\ task'[p].iface = Advertised[task[p].new] /\ Advertised[task[p].new] \in W!Globals
           /\ bound' = [bound EXCEPT ![Advertised[task[p].new]] = currentID']
<1> DEFINE g == Advertised[task[p].new]
<1>1. /\ W!Register(g) /\ p \in W!Procs /\ pc \in [W!Procs -> Labels] /\ DOMAIN task = W!Procs
      /\ task[p].iface = "Registry" /\ task[p].op = "Global" /\ pc[p] = "handle"
  BY DEF W!Handle, W!HandleGlobal, W!Is, WaylandTyped, TablesTyped
<1>2. task[p].new \in DOMAIN Advertised
  BY <1>1 DEF IdsFit, EventFits, Reading
<1>3. g \in W!Globals /\ g \in W!Bindable
  BY <1>2, ConnectionConstants
<1> HIDE DEF g
<1>4. /\ currentID' = currentID + 1 /\ currentID' \in 2..MaxId
      /\ DOMAIN objects' = DOMAIN objects \union {currentID'} /\ currentID' \notin DOMAIN objects
      /\ \A id \in DOMAIN objects : objects'[id] = objects[id]
      /\ objects'[currentID'] = W!Proxy(g)
      /\ W!New = currentID'
  BY <1>1, RegisterIs
<1>5. /\ task' = [task EXCEPT ![p] = W!Msg(2, "Bind", currentID', g)]
      /\ bound' = [bound EXCEPT ![g] = currentID']
      /\ pc' = [pc EXCEPT ![p] = "bind"] /\ W!Uses(p)
      /\ UNCHANGED <<connector, ready, done, wlMu, own, toClient, server, granted, failure>>
  BY <1>4 DEF W!Handle, W!HandleGlobal, W!Go, W!netVars, g
<1>6. /\ task'[p] = W!Msg(2, "Bind", currentID', g) /\ pc'[p] = "bind"
      /\ task' = [task EXCEPT ![p] = task'[p]] /\ pc' = [pc EXCEPT ![p] = pc'[p]]
  BY <1>1, <1>5
<1>7. W!Msg(2, "Bind", currentID', g).id = 2 /\ W!Msg(2, "Bind", currentID', g).new = currentID'
      /\ W!Msg(2, "Bind", currentID', g).iface = g /\ 2 \in 0..currentID
  BY DEF W!Msg, WaylandTyped, TablesTyped
<1>8. Registers(p)
  BY <1>1, <1>3, <1>4, <1>5, <1>6, <1>7 DEF Registers
<1> QED
  BY <1>1, <1>2, <1>3, <1>5, <1>6, <1>7, <1>8 DEF g

\* A request that meets a nil proxy.
Crashes(r) == /\ failure' = "nil proxy" /\ \E g \in W!Globals : bound[g] = 0
              /\ UNCHANGED <<currentID, objects, task, pc>>

LEMMA CreateRegisters ==
    ASSUME WaylandTyped, PartsAssumption, NEW r \in Clients, W!CreateRegister(r)
    PROVE  /\ pc[r] = "checked" /\ W!Lock(r) /\ W!Uses(r)
           /\ UNCHANGED <<connector, ready, bound, done, own, toClient, server, granted>>
           /\ \/ Crashes(r)
              \/ /\ Registers(r) /\ task'[r].iface \in Created
                 /\ \E g \in W!Globals : bound[g] # 0 /\ task'[r].id = bound[g]
<1>1. /\ pc[r] = "checked" /\ W!Lock(r) /\ W!Uses(r) /\ r \in W!Procs
      /\ UNCHANGED <<connector, ready, bound, done, own, toClient, server, granted>>
      /\ pc \in [W!Procs -> Labels] /\ DOMAIN task = W!Procs
  BY DEF W!CreateRegister, W!netVars, W!Procs, WaylandTyped, TablesTyped
<1>2. PICK g \in W!Globals : \E q \in W!Creations(g) :
         IF bound[g] = 0 \/ \E a \in W!Range(q.args) : a.kind = "object" /\ bound[a.iface] = 0
         THEN /\ W!Fails("nil proxy")
              /\ UNCHANGED <<currentID, objects, task, pc>>
         ELSE LET iface == CHOOSE i \in W!Makes(q) \cap Created : TRUE IN
              /\ W!Register(iface)
              /\ task' = [task EXCEPT ![r] = W!Msg(bound[g], q.name, W!New, iface)]
              /\ W!Go(r, "registered") /\ UNCHANGED failure
  BY DEF W!CreateRegister
<1>3. PICK q \in W!Creations(g) :
         IF bound[g] = 0 \/ \E a \in W!Range(q.args) : a.kind = "object" /\ bound[a.iface] = 0
         THEN /\ W!Fails("nil proxy")
              /\ UNCHANGED <<currentID, objects, task, pc>>
         ELSE LET iface == CHOOSE i \in W!Makes(q) \cap Created : TRUE IN
              /\ W!Register(iface)
              /\ task' = [task EXCEPT ![r] = W!Msg(bound[g], q.name, W!New, iface)]
              /\ W!Go(r, "registered") /\ UNCHANGED failure
  BY <1>2
<1> DEFINE nil == bound[g] = 0 \/ \E a \in W!Range(q.args) : a.kind = "object" /\ bound[a.iface] = 0
           made == CHOOSE i \in W!Makes(q) \cap Created : TRUE
<1>4. /\ W!Makes(q) \cap Created # {}
      /\ \A a \in W!Range(q.args) : a.kind = "object" => a.iface \in W!Globals
  BY <1>3 DEF W!Creations
<1>5. made \in Created
  BY <1>4
<1>6. CASE nil
  <2>1. \E x \in W!Globals : bound[x] = 0
    BY <1>4, <1>6
  <2>2. failure' = "nil proxy" /\ UNCHANGED <<currentID, objects, task, pc>>
    BY <1>3, <1>6 DEF W!Fails
  <2> QED
    BY <1>1, <2>1, <2>2 DEF Crashes
<1>7. CASE ~nil
  <2>1. /\ W!Register(made) /\ UNCHANGED failure
        /\ task' = [task EXCEPT ![r] = W!Msg(bound[g], q.name, W!New, made)]
        /\ pc' = [pc EXCEPT ![r] = "registered"] /\ bound[g] # 0
    BY <1>3, <1>7 DEF W!Go
  <2> HIDE DEF nil, made
  <2>2. /\ currentID' = currentID + 1 /\ currentID' \in 2..MaxId
        /\ DOMAIN objects' = DOMAIN objects \union {currentID'} /\ currentID' \notin DOMAIN objects
        /\ \A id \in DOMAIN objects : objects'[id] = objects[id]
        /\ objects'[currentID'] = W!Proxy(made)
        /\ W!New = currentID'
    BY <2>1, RegisterIs
  <2>3. /\ task'[r] = W!Msg(bound[g], q.name, currentID', made) /\ pc'[r] = "registered"
        /\ task' = [task EXCEPT ![r] = task'[r]] /\ pc' = [pc EXCEPT ![r] = pc'[r]]
    BY <1>1, <2>1, <2>2
  <2>4. task'[r].id = bound[g] /\ task'[r].new = currentID' /\ task'[r].iface = made /\ bound[g] \in 0..currentID
    BY <2>3 DEF W!Msg, WaylandTyped, TablesTyped
  <2>5. Registers(r)
    BY <1>1, <1>5, <2>1, <2>2, <2>3, <2>4 DEF Registers
  <2> QED
    BY <1>1, <1>5, <2>1, <2>4, <2>5
<1> QED
  BY <1>6, <1>7

\* The first event is taken, or its header is.
Takes == /\ toClient' \in Seq(Wires) /\ DOMAIN toClient' = 1..(Len(toClient) - 1)
         /\ \A i \in DOMAIN toClient' : i + 1 \in DOMAIN toClient /\ toClient'[i] = toClient[i + 1]
         /\ \A i \in DOMAIN toClient : i = 1 \/ (i - 1 \in DOMAIN toClient' /\ toClient'[i - 1] = toClient[i])
Marks == /\ toClient' \in Seq(Wires) /\ DOMAIN toClient' = DOMAIN toClient
         /\ \A i \in DOMAIN toClient : toClient'[i].msg = toClient[i].msg
         /\ \A i \in DOMAIN toClient : i # 1 => toClient'[i] = toClient[i]
         /\ toClient'[1].part = "arguments"

\* What is left when the first is gone.
LEMMA Rest ==
    ASSUME NEW S, NEW q \in Seq(S), q # << >>
    PROVE  /\ Len(q) \in Nat /\ DOMAIN q = 1..Len(q) /\ 1 \in DOMAIN q /\ Head(q) = q[1] /\ q[1] \in S
           /\ Tail(q) \in Seq(S) /\ DOMAIN Tail(q) = 1..(Len(q) - 1)
           /\ \A i \in 1..(Len(q) - 1) : Tail(q)[i] = q[i + 1]
OBVIOUS

\* One element is replaced.
LEMMA FirstReplaced ==
    ASSUME NEW S, NEW q \in Seq(S), q # << >>, NEW v \in S
    PROVE  /\ [q EXCEPT ![1] = v] \in Seq(S) /\ DOMAIN [q EXCEPT ![1] = v] = DOMAIN q
           /\ \A i \in DOMAIN q : [q EXCEPT ![1] = v][i] = IF i = 1 THEN v ELSE q[i]
OBVIOUS

LEMMA TailTakes ==
    ASSUME toClient \in Seq(Wires), toClient # << >>, toClient' = Tail(toClient)
    PROVE  Takes /\ 1 \in DOMAIN toClient /\ Head(toClient) = toClient[1] /\ toClient[1] \in Wires
           /\ DOMAIN toClient = 1..Len(toClient) /\ Len(toClient) \in Nat
<1> DEFINE q == Tail(toClient)
<1>1. /\ Len(toClient) \in Nat /\ DOMAIN toClient = 1..Len(toClient) /\ 1 \in DOMAIN toClient
      /\ Head(toClient) = toClient[1] /\ toClient[1] \in Wires
      /\ q \in Seq(Wires) /\ DOMAIN q = 1..(Len(toClient) - 1)
      /\ \A i \in 1..(Len(toClient) - 1) : q[i] = toClient[i + 1]
  BY Rest
<1>2. toClient' = q
  OBVIOUS
<1> HIDE DEF q
<1>3. \A i \in DOMAIN toClient' : i + 1 \in DOMAIN toClient /\ toClient'[i] = toClient[i + 1]
  BY <1>1, <1>2
<1>4. ASSUME NEW i \in DOMAIN toClient, i # 1 PROVE i - 1 \in DOMAIN toClient' /\ toClient'[i - 1] = toClient[i]
  <2>1. i - 1 \in 1..(Len(toClient) - 1) /\ (i - 1) + 1 = i
    BY <1>1, <1>4
  <2> QED
    BY <1>1, <1>2, <2>1
<1> QED
  BY <1>1, <1>2, <1>3, <1>4 DEF Takes

LEMMA HeaderRead ==
    ASSUME WaylandTyped, NEW p \in W!Procs, W!ReadHeader(p)
    PROVE  /\ pc[p] = "header" /\ 1 \in DOMAIN toClient /\ toClient[1] \in Wires
           /\ DOMAIN toClient = 1..Len(toClient) /\ Len(toClient) \in Nat
           /\ task' = [task EXCEPT ![p] = toClient[1].msg] /\ task'[p] = toClient[1].msg /\ W!Uses(p)
           /\ \/ Takes /\ failure' = "torn message" /\ toClient[1].part = "arguments" /\ pc' = pc
              \/ Takes /\ failure' = failure /\ toClient[1].part = "header" /\ W!Go(p, "lookup")
              \/ Marks /\ failure' = failure /\ toClient[1].part = "header" /\ W!Go(p, "arguments")
           /\ UNCHANGED <<connector, ready, currentID, objects, bound, done, wlMu, own, server, granted>>
<1>1. /\ pc[p] = "header" /\ toClient # << >> /\ W!Uses(p) /\ toClient \in Seq(Wires) /\ DOMAIN task = W!Procs
      /\ UNCHANGED <<connector, ready, currentID, objects, bound, done, wlMu, own, server, granted>>
  BY DEF W!ReadHeader, W!ctxVars, WaylandTyped, TablesTyped
<1>2. /\ Len(toClient) \in Nat /\ DOMAIN toClient = 1..Len(toClient) /\ 1 \in DOMAIN toClient
      /\ Head(toClient) = toClient[1] /\ toClient[1] \in Wires
  BY <1>1, Rest
<1>3. task' = [task EXCEPT ![p] = toClient[1].msg]
  BY <1>2 DEF W!ReadHeader
<1>4. CASE toClient[1].part # "header"
  <2>1. failure' = "torn message" /\ toClient' = Tail(toClient) /\ UNCHANGED pc
    BY <1>2, <1>4 DEF W!ReadHeader, W!Fails
  <2>2. Takes /\ toClient[1].part = "arguments"
    BY <1>1, <1>2, <1>4, <2>1, TailTakes DEF Wires
  <2> QED
    BY <1>1, <1>2, <1>3, <2>1, <2>2
<1>5. CASE toClient[1].part = "header" /\ toClient[1].size = 8
  <2>1. failure' = failure /\ toClient' = Tail(toClient) /\ W!Go(p, "lookup")
    BY <1>2, <1>5 DEF W!ReadHeader
  <2>2. Takes
    BY <1>1, <2>1, TailTakes
  <2> QED
    BY <1>1, <1>2, <1>3, <1>5, <2>1, <2>2
<1>6. CASE toClient[1].part = "header" /\ toClient[1].size # 8
  <2>1. failure' = failure /\ toClient' = [toClient EXCEPT ![1].part = "arguments"] /\ W!Go(p, "arguments")
    BY <1>2, <1>6 DEF W!ReadHeader
  <2> DEFINE v == [toClient[1] EXCEPT !.part = "arguments"]
             q == [toClient EXCEPT ![1] = v]
  <2>2. v \in Wires /\ v.part = "arguments" /\ v.msg = toClient[1].msg
    BY <1>2 DEF Wires
  <2>3. toClient' = q
    BY <2>1
  <2> HIDE DEF v
  <2>4. q \in Seq(Wires) /\ DOMAIN q = DOMAIN toClient /\ \A i \in DOMAIN toClient : q[i] = IF i = 1 THEN v ELSE toClient[i]
    BY <1>1, <2>2, FirstReplaced
  <2> HIDE DEF q
  <2>5. Marks
    BY <1>2, <2>2, <2>3, <2>4 DEF Marks
  <2> QED
    BY <1>1, <1>2, <1>3, <1>6, <2>1, <2>5
<1> QED
  BY <1>4, <1>5, <1>6

LEMMA ArgumentsRead ==
    ASSUME WaylandTyped, NEW p \in W!Procs, W!ReadArguments(p)
    PROVE  /\ pc[p] = "arguments" /\ 1 \in DOMAIN toClient /\ toClient[1] \in Wires
           /\ DOMAIN toClient = 1..Len(toClient) /\ Len(toClient) \in Nat
           /\ Takes /\ W!Uses(p)
           /\ \/ /\ failure' = "torn message" /\ pc' = pc
                 /\ ~(toClient[1].part = "arguments" /\ toClient[1].msg = task[p])
              \/ /\ failure' = failure /\ W!Go(p, "lookup")
                 /\ toClient[1].part = "arguments" /\ toClient[1].msg = task[p]
           /\ UNCHANGED <<connector, ready, currentID, objects, bound, done, wlMu, task, own, server, granted>>
<1>1. /\ pc[p] = "arguments" /\ toClient # << >> /\ W!Uses(p) /\ toClient \in Seq(Wires)
      /\ toClient' = Tail(toClient)
      /\ UNCHANGED <<connector, ready, currentID, objects, bound, done, wlMu, task, own, server, granted>>
  BY DEF W!ReadArguments, W!ctxVars, WaylandTyped, TablesTyped
<1>2. /\ Takes /\ 1 \in DOMAIN toClient /\ Head(toClient) = toClient[1] /\ toClient[1] \in Wires
      /\ DOMAIN toClient = 1..Len(toClient) /\ Len(toClient) \in Nat
  BY <1>1, TailTakes
<1>3. CASE toClient[1].part = "arguments" /\ toClient[1].msg = task[p]
  BY <1>1, <1>2, <1>3 DEF W!ReadArguments
<1>4. CASE ~(toClient[1].part = "arguments" /\ toClient[1].msg = task[p])
  BY <1>1, <1>2, <1>4 DEF W!ReadArguments, W!Fails
<1> QED
  BY <1>3, <1>4

\* A request with a new object is written.
LEMMA Writings ==
    ASSUME WaylandTyped, IdsFit, NEW p \in W!Procs, pc[p] \in Writing, W!Write(task[p])
    PROVE  /\ Refused(task[p]) \/ Granted(task[p])
           /\ task[p].id \in Nat /\ task[p].new \in 3..currentID /\ task[p].iface \in W!Bindable \union Created \union {"Callback"}
           /\ toClient' \in Seq(Wires) /\ granted' \in Nat
           /\ DOMAIN server' \subseteq 1..currentID /\ DOMAIN server' \subseteq 1..granted'
<1>1. /\ task[p].id \in Nat /\ task[p].new \in 3..currentID
      /\ task[p].iface \in W!Bindable \union Created \union {"Callback"}
  BY DEF IdsFit
<1>2. /\ currentID \in Nat /\ granted \in Nat /\ DOMAIN server \subseteq 1..currentID
      /\ DOMAIN server \subseteq 1..granted /\ toClient \in Seq(Wires)
  BY DEF WaylandTyped, TablesTyped
<1>3. task[p].new \in Nat /\ task[p].new # 0
  BY <1>1, <1>2
<1>4. Refused(task[p]) \/ Granted(task[p])
  BY <1>1, <1>3, WriteIs DEF Destroyed
<1>5. CASE Refused(task[p])
  BY <1>1, <1>2, <1>4, <1>5 DEF Refused
<1>6. CASE Granted(task[p])
  <2>1. toClient' \in Seq(Wires)
    BY <1>2, <1>6, EmitsMore DEF Granted
  <2>2. granted' = task[p].new /\ task[p].new = granted + 1
        /\ \A id \in DOMAIN server' : id \in DOMAIN server \/ id = task[p].new
    BY <1>6 DEF Granted
  <2> QED
    BY <1>1, <1>2, <1>4, <2>1, <2>2
<1> QED
  BY <1>4, <1>5, <1>6

\* A request destroys its object.
LEMMA Destructions ==
    ASSUME WaylandTyped, NEW r \in Clients, W!DestroyWrite(r)
    PROVE  /\ pc[r] = "idle" /\ own[r] # 0 /\ W!Lock(r) /\ W!Uses(r) /\ W!Go(r, "forgetting")
           /\ UNCHANGED <<connector, ready, currentID, objects, bound, done, task, own>>
           /\ granted' = granted /\ toClient' \in Seq(Wires) /\ DOMAIN server' \subseteq DOMAIN server
           /\ \E t : t.id = own[r] /\ t.new = 0 /\ (Refused(t) \/ Destroyed(t))
<1>1. /\ pc[r] = "idle" /\ own[r] # 0 /\ W!Lock(r) /\ W!Uses(r) /\ W!Go(r, "forgetting")
      /\ UNCHANGED <<connector, ready, currentID, objects, bound, done, task, own>>
  BY DEF W!DestroyWrite, W!ctxVars
<1>2. PICK q \in W!RequestsOf[objects[own[r]].iface] : W!Write(W!Msg(own[r], q.name, 0, "none"))
  BY DEF W!DestroyWrite
<1> DEFINE t == W!Msg(own[r], q.name, 0, "none")
<1>3. t.id = own[r] /\ t.new = 0
  BY DEF W!Msg
<1>4. own[r] \in Nat /\ granted \in Nat /\ toClient \in Seq(Wires) /\ 0 \in Nat
  BY DEF WaylandTyped, TablesTyped
<1>5. W!Write(t)
  BY <1>2
<1> HIDE DEF t
<1>6. Refused(t) \/ Destroyed(t)
  <2>1. Refused(t) \/ Destroyed(t) \/ Granted(t)
    BY <1>3, <1>4, <1>5, WriteIs
  <2>2. ~Granted(t)
    BY <1>3, <1>4 DEF Granted
  <2> QED
    BY <2>1, <2>2
<1>7. granted' = granted /\ DOMAIN server' \subseteq DOMAIN server
  BY <1>6 DEF Refused, Destroyed
<1>8. toClient' \in Seq(Wires)
  <2>1. CASE Refused(t)
    BY <1>4, <2>1 DEF Refused
  <2>2. CASE Destroyed(t)
    BY <1>4, <2>2, EmitsMore DEF Destroyed
  <2> QED
    BY <1>6, <2>1, <2>2
<1> QED
  BY <1>1, <1>3, <1>6, <1>7, <1>8

\* An event meets its object, or nothing, or a zombie.
LEMMA LookupIs ==
    ASSUME WaylandTyped, IdsFit, NEW p \in W!Procs, W!Lookup(p)
    PROVE  /\ pc[p] = "lookup" /\ failure' = failure /\ task' = task
           /\ UNCHANGED <<connector, currentID, objects, bound, done, wlMu, own, toClient, server, granted, shared>>
           /\ \/ ~W!Live(task[p].id) /\ W!Goes(p, done)
              \/ W!Live(task[p].id) /\ W!Go(p, "handle") /\ ready' = ready
<1>1. pc[p] = "lookup" /\ UNCHANGED <<connector, currentID, objects, bound, done, wlMu, own, toClient, server, granted, shared>>
  BY DEF W!Lookup, W!ctxVars, W!netVars
<1>2. task[p].id \in DOMAIN objects => objects[task[p].id].iface = task[p].iface /\ W!EventsOf(task[p].iface) # {}
  BY <1>1 DEF IdsFit, EventFits, Reading
<1>3. CASE ~W!Live(task[p].id)
  BY <1>1, <1>3 DEF W!Lookup
<1>4. CASE W!Live(task[p].id)
  <2>1. objects[task[p].id].iface = task[p].iface /\ objects[task[p].id].iface \notin W!Silent
    BY <1>2, <1>4 DEF W!Live, W!Silent
  <2> QED
    BY <1>1, <1>4, <2>1 DEF W!Lookup
<1> QED
  BY <1>3, <1>4

\* An object leaves the table, or is marked.
LEMMA Forgets ==
    ASSUME WaylandTyped, NEW r \in Clients, W!Forget(r)
    PROVE  /\ pc[r] = "forgetting" /\ own' = [own EXCEPT ![r] = 0] /\ wlMu' = W!Free /\ W!Go(r, "end")
           /\ UNCHANGED <<connector, ready, currentID, bound, done, task, toClient, server, granted, failure, shared>>
           /\ DOMAIN objects' \subseteq DOMAIN objects
           /\ DOMAIN objects \ {own[r]} \subseteq DOMAIN objects'
           /\ \A id \in DOMAIN objects' : /\ objects'[id].iface = objects[id].iface /\ objects'[id] \in [iface : Ifaces, zombie : BOOLEAN]
                                          /\ id # own[r] => objects'[id] = objects[id]
<1>1. /\ pc[r] = "forgetting" /\ own' = [own EXCEPT ![r] = 0] /\ wlMu' = W!Free /\ W!Go(r, "end")
      /\ UNCHANGED <<connector, ready, currentID, bound, done, task, toClient, server, granted, failure, shared>>
  BY DEF W!Forget, W!netVars
<1>2. \A id \in DOMAIN objects : objects[id] \in [iface : Ifaces, zombie : BOOLEAN]
  BY DEF WaylandTyped, TablesTyped
<1>3. CASE own[r] \notin DOMAIN objects
  BY <1>1, <1>2, <1>3 DEF W!Forget
<1>4. CASE own[r] \in DOMAIN objects /\ objects[own[r]].iface \in W!Unregisters
  <2>1. objects' = [id \in DOMAIN objects \ {own[r]} |-> objects[id]]
    BY <1>4 DEF W!Forget
  <2> QED
    BY <1>1, <1>2, <1>4, <2>1
<1>5. CASE own[r] \in DOMAIN objects /\ objects[own[r]].iface \notin W!Unregisters
  <2>1. objects' = [objects EXCEPT ![own[r]].zombie = TRUE]
    BY <1>5 DEF W!Forget
  <2>2. DOMAIN objects' = DOMAIN objects /\ \A id \in DOMAIN objects : id # own[r] => objects'[id] = objects[id]
    BY <2>1
  <2>3. objects'[own[r]] = [objects[own[r]] EXCEPT !.zombie = TRUE]
    BY <1>5, <2>1
  <2>4. objects'[own[r]].iface = objects[own[r]].iface /\ objects'[own[r]] \in [iface : Ifaces, zombie : BOOLEAN]
    BY <1>2, <1>5, <2>3
  <2> QED
    BY <1>1, <1>2, <2>2, <2>4
<1> QED
  BY <1>3, <1>4, <1>5

\* Every step keeps the types.
LEMMA WaylandTypes ==
    ASSUME PartsAssumption, WaylandTyped, IdsFit, W!Next PROVE WaylandTyped'
<1>1. TablesTyped /\ Clients \subseteq W!Procs /\ W!Free \notin Clients /\ MaxId \in Nat
  BY ConnectionConstants DEF WaylandTyped, TablesTyped, W!Procs
<1>0. /\ DOMAIN task = W!Procs /\ toClient \in Seq(Wires)
      /\ \A id \in DOMAIN objects : objects[id] \in [iface : Ifaces, zombie : BOOLEAN]
      /\ own \in [Clients -> {0} \union 3..currentID] /\ bound \in [W!Globals -> 0..currentID]
      /\ \A p \in W!Procs : pc[p] \in {"registered", "forgetting"} => p \in Clients /\ wlMu = p
  BY <1>1 DEF TablesTyped
<1>2. {"sync", "header", "idle", "checked", "forgetting", "end", "arguments", "lookup", "handle", "synced", "bind", "registered"} \subseteq Labels
  BY DEF Labels, Reading, Writing
<1>3. \A i \in W!Bindable \union Created \union {"Callback"} : W!Proxy(i) \in [iface : Ifaces, zombie : BOOLEAN]
  BY DEF W!Proxy, Ifaces
<1>4. ASSUME NEW p, Registers(p), bound' \in [W!Globals -> 0..currentID'],
             wlMu' = wlMu \/ (p \in Clients /\ pc[p] = "checked" /\ wlMu = W!Free /\ wlMu' = p), pc[p] = "checked" => wlMu' = p /\ p \in Clients
      PROVE  TablesTyped'
  <2>1. /\ p \in W!Procs /\ pc[p] \in {"sync", "handle", "checked"}
        /\ currentID' = currentID + 1 /\ currentID' \in 2..MaxId
        /\ DOMAIN objects' = DOMAIN objects \union {currentID'} /\ currentID' \notin DOMAIN objects
        /\ \A id \in DOMAIN objects : objects'[id] = objects[id]
        /\ objects'[currentID'] \in [iface : Ifaces, zombie : BOOLEAN]
        /\ task' = [task EXCEPT ![p] = task'[p]]
        /\ pc' = [pc EXCEPT ![p] = pc'[p]]
        /\ UNCHANGED <<own, toClient, server, granted>>
    BY <1>3, <1>4 DEF Registers
  <2>2. pc'[p] \in Labels /\ (pc'[p] \in {"registered", "forgetting"} => pc[p] = "checked")
    BY <1>2, <1>4 DEF Registers
  <2>3. currentID' \in 2..MaxId /\ granted' \in Nat /\ DOMAIN server' \subseteq 1..currentID' /\ DOMAIN server' \subseteq 1..granted'
        /\ own' \in [Clients -> {0} \union 3..currentID'] /\ toClient' \in Seq(Wires) /\ DOMAIN objects' \subseteq 1..currentID'
    BY <1>1, <2>1 DEF TablesTyped
  <2>4. \A id \in DOMAIN objects' : objects'[id] \in [iface : Ifaces, zombie : BOOLEAN]
    BY <1>1, <2>1 DEF TablesTyped
  <2>5. pc' \in [W!Procs -> Labels] /\ DOMAIN task' = W!Procs
    BY <1>1, <2>1, <2>2 DEF TablesTyped
  <2>6. wlMu' \in Clients \union {W!Free}
    BY <1>1, <1>4 DEF TablesTyped
  <2>7. \A q \in W!Procs : pc'[q] \in {"registered", "forgetting"} => q \in Clients /\ wlMu' = q
    BY <1>1, <1>4, <2>1, <2>2 DEF TablesTyped
  <2> QED
    BY <1>4, <2>3, <2>4, <2>5, <2>6, <2>7 DEF TablesTyped
<1>5. ASSUME W!SyncRegister PROVE TablesTyped'
  <2>1. PICK p : p = connector
    OBVIOUS
  <2>2. Registers(p) /\ UNCHANGED <<bound, wlMu>> /\ pc[p] = "sync"
    BY <1>5, <2>1, SyncRegisters
  <2>3. bound' \in [W!Globals -> 0..currentID']
    BY <1>1, <2>2 DEF Registers, TablesTyped
  <2>4. wlMu' = wlMu /\ pc[p] # "checked"
    BY <2>2
  <2> QED
    BY <1>4, <2>2, <2>3, <2>4
<1>6. ASSUME NEW p \in W!Procs, pc[p] \in Writing, W!Write(task[p]), NEW l \in {"header", "idle", "end"}, W!Go(p, l),
             UNCHANGED <<currentID, objects, bound, task>>,
             own' \in [Clients -> {0} \union 3..currentID], 
             (wlMu' = wlMu /\ pc[p] # "registered") \/ (wlMu' = W!Free /\ wlMu = p)
      PROVE  TablesTyped'
  <2>1. /\ toClient' \in Seq(Wires) /\ granted' \in Nat
        /\ DOMAIN server' \subseteq 1..currentID /\ DOMAIN server' \subseteq 1..granted'
    BY <1>6, Writings
  <2>2. pc' \in [W!Procs -> Labels] /\ pc'[p] = l /\ \A q \in W!Procs : q # p => pc'[q] = pc[q]
    BY <1>1, <1>2, <1>6 DEF W!Go, TablesTyped
  <2>3. \A q \in W!Procs : pc'[q] \in {"registered", "forgetting"} => q \in Clients /\ wlMu' = q
    BY <1>0, <1>6, <2>2 DEF TablesTyped
  <2> QED
    BY <1>1, <1>6, <2>1, <2>2, <2>3 DEF TablesTyped
<1>7. ASSUME W!SyncWrite PROVE TablesTyped'
  <2>1. PICK p : p = connector
    OBVIOUS
  <2>2. /\ p \in W!Procs /\ pc[p] = "synced" /\ W!Write(task[p]) /\ W!Go(p, "header")
        /\ UNCHANGED <<currentID, objects, bound, task, own, wlMu>>
    BY <1>7, <2>1 DEF W!SyncWrite, W!ctxVars, WaylandTyped, FlagsTyped, W!Go
  <2>3. own' \in [Clients -> {0} \union 3..currentID] /\ pc[p] \in Writing /\ wlMu' = wlMu /\ pc[p] # "registered"
        /\ UNCHANGED <<currentID, objects, bound, task>>
    BY <1>0, <2>2 DEF Writing
  <2> QED
    BY <1>6, <2>2, <2>3
<1>8. ASSUME W!SendEvent PROVE TablesTyped'
  <2>1. /\ UNCHANGED <<currentID, objects, bound, wlMu, pc, task, own, server, granted>>
        /\ \E q : Emits(q)
    BY <1>8, EmissionIs
  <2>2. toClient' \in Seq(Wires)
    BY <1>0, <2>1, EmitsMore
  <2>3. UNCHANGED <<currentID, objects, bound, wlMu, pc, task, own, server, granted>>
    BY <2>1
  <2> QED
    BY <1>1, <2>2, <2>3 DEF TablesTyped
\* Steps that move one goroutine and change little else.
<1>9. ASSUME NEW p \in W!Procs, NEW l \in Labels, l \notin {"registered", "forgetting"}, W!Go(p, l), pc[p] \notin {"registered", "forgetting"},
             UNCHANGED <<currentID, bound, wlMu, own, server, granted>>,
             DOMAIN task' = W!Procs, toClient' \in Seq(Wires),
             DOMAIN objects' \subseteq DOMAIN objects,
             \A id \in DOMAIN objects' : objects'[id] \in [iface : Ifaces, zombie : BOOLEAN]
      PROVE  TablesTyped'
  <2>1. pc' \in [W!Procs -> Labels] /\ pc'[p] = l /\ \A q \in W!Procs : q # p => pc'[q] = pc[q]
    BY <1>1, <1>9 DEF W!Go, TablesTyped
  <2> QED
    BY <1>1, <1>9, <2>1 DEF TablesTyped
<1>10. ASSUME NEW p \in W!Procs, W!ReadHeader(p) PROVE TablesTyped'
  <2>1. /\ pc[p] = "header" /\ UNCHANGED <<currentID, objects, bound, wlMu, own, server, granted>>
        /\ task' = [task EXCEPT ![p] = toClient[1].msg] /\ (Takes \/ Marks)
        /\ pc' = pc \/ W!Go(p, "lookup") \/ W!Go(p, "arguments")
    BY <1>10, HeaderRead
  <2>2. DOMAIN task' = W!Procs /\ toClient' \in Seq(Wires)
    BY <1>1, <2>1 DEF Takes, Marks, TablesTyped
  <2>3. CASE pc' = pc
    BY <1>1, <2>1, <2>2, <2>3 DEF TablesTyped
  <2> QED
    BY <1>0, <1>2, <1>9, <2>1, <2>2, <2>3
<1>11. ASSUME NEW p \in W!Procs, W!ReadArguments(p) PROVE TablesTyped'
  <2>1. /\ pc[p] = "arguments" /\ UNCHANGED <<currentID, objects, bound, wlMu, task, own, server, granted>>
        /\ Takes /\ (pc' = pc \/ W!Go(p, "lookup"))
    BY <1>11, ArgumentsRead
  <2>2. DOMAIN task' = W!Procs /\ toClient' \in Seq(Wires)
    BY <1>1, <2>1 DEF Takes, TablesTyped
  <2>3. CASE pc' = pc
    BY <1>1, <2>1, <2>2, <2>3 DEF TablesTyped
  <2> QED
    BY <1>0, <1>2, <1>9, <2>1, <2>2, <2>3
<1>12. ASSUME NEW p, NEW ran, W!Goes(p, ran) PROVE \E l \in {"header", "end"} : W!Go(p, l)
  BY <1>12, GoesIs
<1>13. ASSUME NEW p \in W!Procs, W!Lookup(p) PROVE TablesTyped'
  <2>1. /\ pc[p] = "lookup" /\ UNCHANGED <<currentID, objects, bound, wlMu, task, own, toClient, server, granted>>
        /\ W!Goes(p, done) \/ W!Go(p, "handle")
    BY <1>13, LookupIs
  <2>2. \E l \in {"header", "end", "handle"} : W!Go(p, l)
    BY <1>12, <2>1
  <2> QED
    BY <1>0, <1>2, <1>9, <2>1, <2>2
<1>14. ASSUME NEW p \in W!Procs, W!Handle(p) PROVE TablesTyped'
  <2>1. pc[p] = "handle" /\ UNCHANGED <<wlMu, own, toClient, server, granted>>
    BY <1>14 DEF W!Handle, W!netVars
  <2>2. CASE W!HandleDeleteId(p)
    <3>1. /\ objects' = [id \in DOMAIN objects \ {task[p].new} |-> objects[id]]
          /\ W!Goes(p, done) /\ UNCHANGED <<currentID, bound, task>>
      BY <2>2 DEF W!HandleDeleteId, W!DeleteID
    <3>2. DOMAIN objects' \subseteq DOMAIN objects /\ \A id \in DOMAIN objects' : objects'[id] \in [iface : Ifaces, zombie : BOOLEAN]
      BY <1>1, <3>1 DEF TablesTyped
    <3> QED
      BY <1>0, <1>2, <1>9, <1>12, <2>1, <3>1, <3>2
  <2>3. CASE W!HandleDone(p)
    <3>1. W!Goes(p, TRUE) /\ UNCHANGED <<currentID, objects, bound, task>>
      BY <2>3 DEF W!HandleDone
    <3> QED
      BY <1>0, <1>2, <1>9, <1>12, <2>1, <3>1
  <2>4. CASE W!HandleGlobal(p)
    <3>1. /\ Registers(p) /\ pc[p] = "handle" /\ wlMu' = wlMu
          /\ Advertised[task[p].new] \in W!Globals
          /\ bound' = [bound EXCEPT ![Advertised[task[p].new]] = currentID']
      BY <1>14, <2>4, GlobalRegisters
    <3>2. currentID' = currentID + 1
      BY <3>1 DEF Registers
    <3>3. bound' \in [W!Globals -> 0..currentID']
      BY <1>1, <3>1, <3>2 DEF TablesTyped
    <3> QED
      BY <1>4, <3>1, <3>3
  <2>5. CASE W!Goes(p, done) /\ UNCHANGED <<W!ctxVars, task, shared>>
    <3>1. W!Goes(p, done) /\ UNCHANGED <<currentID, objects, bound, task>>
      BY <2>5 DEF W!ctxVars
    <3> QED
      BY <1>0, <1>2, <1>9, <1>12, <2>1, <3>1
  <2> QED
    BY <1>14, <2>2, <2>3, <2>4, <2>5 DEF W!Handle
<1>15. ASSUME NEW p \in W!Procs, W!Bind(p) PROVE TablesTyped'
  <2>1. /\ pc[p] = "bind" /\ W!Write(task[p]) /\ W!Goes(p, done)
        /\ UNCHANGED <<currentID, objects, bound, task, own, wlMu>>
    BY <1>15 DEF W!Bind, W!ctxVars
  <2>2. \E l \in {"header", "end"} : W!Go(p, l)
    BY <1>12, <2>1
  <2>3. own' \in [Clients -> {0} \union 3..currentID] /\ pc[p] \in Writing /\ wlMu' = wlMu /\ pc[p] # "registered"
        /\ UNCHANGED <<currentID, objects, bound, task>>
    BY <1>0, <2>1 DEF Writing
  <2> QED
    BY <1>6, <2>1, <2>2, <2>3
<1>16. ASSUME NEW r \in Clients, W!CreateWrite(r) PROVE TablesTyped'
  <2>1. /\ pc[r] = "registered" /\ W!Write(task[r]) /\ W!Go(r, "idle") /\ wlMu' = W!Free
        /\ own' = [own EXCEPT ![r] = task[r].new] /\ r \in W!Procs
        /\ UNCHANGED <<currentID, objects, bound, task>>
    BY <1>16 DEF W!CreateWrite, W!ctxVars, W!Procs
  <2>2. task[r].new \in 3..currentID
    BY <2>1, Writings DEF Writing
  <2>3. own' \in [Clients -> {0} \union 3..currentID]
    BY <1>1, <2>1, <2>2 DEF TablesTyped
  <2> QED
    BY <1>0, <1>6, <2>1, <2>3 DEF Writing
<1>17. ASSUME NEW r \in Clients, W!Forget(r) PROVE TablesTyped'
  <2>1. /\ pc[r] = "forgetting" /\ own' = [own EXCEPT ![r] = 0] /\ wlMu' = W!Free /\ pc' = [pc EXCEPT ![r] = "end"] /\ r \in W!Procs
        /\ UNCHANGED <<currentID, bound, task, toClient, server, granted>>
        /\ DOMAIN objects' \subseteq DOMAIN objects
        /\ \A id \in DOMAIN objects' : objects'[id] \in [iface : Ifaces, zombie : BOOLEAN]
    BY <1>17, Forgets DEF W!Procs, W!Go
  <2>2. wlMu = r /\ own' \in [Clients -> {0} \union 3..currentID]
    BY <1>1, <2>1 DEF TablesTyped
  <2>3. pc' \in [W!Procs -> Labels] /\ pc'[r] = "end" /\ \A q \in W!Procs : q # r => pc'[q] = pc[q]
    BY <1>1, <1>2, <2>1 DEF TablesTyped
  <2> QED
    BY <1>1, <2>1, <2>2, <2>3 DEF TablesTyped
<1>18. ASSUME NEW r \in Clients, W!Check(r) PROVE TablesTyped'
  <2>1. /\ pc[r] = "idle" /\ W!Go(r, "checked") /\ r \in W!Procs
        /\ UNCHANGED <<currentID, objects, bound, wlMu, task, own, toClient, server, granted>>
    BY <1>18 DEF W!Check, W!ctxVars, W!netVars, W!Procs
  <2> QED
    BY <1>0, <1>2, <1>9, <2>1
<1>19. ASSUME NEW r \in Clients, W!CreateRegister(r) PROVE TablesTyped'
  <2>1. /\ pc[r] = "checked" /\ wlMu = W!Free /\ wlMu' = r
        /\ UNCHANGED <<bound, own, toClient, server, granted>>
        /\ Crashes(r) \/ Registers(r)
    BY <1>19, CreateRegisters DEF W!Lock
  <2>2. CASE Crashes(r)
    <3>1. UNCHANGED <<currentID, objects, task, pc>>
      BY <2>2 DEF Crashes
    <3> QED
      BY <1>1, <2>1, <3>1 DEF TablesTyped
  <2>3. CASE Registers(r)
    <3>1. bound' \in [W!Globals -> 0..currentID']
      BY <1>1, <2>1, <2>3 DEF Registers, TablesTyped
    <3> QED
      BY <1>4, <2>1, <2>3, <3>1
  <2> QED
    BY <2>1, <2>2, <2>3
<1>20. ASSUME NEW r \in Clients, W!DestroyWrite(r) PROVE TablesTyped'
  <2>1. /\ pc[r] = "idle" /\ wlMu = W!Free /\ wlMu' = r /\ pc' = [pc EXCEPT ![r] = "forgetting"] /\ r \in W!Procs
        /\ UNCHANGED <<currentID, objects, bound, task, own>>
        /\ granted' = granted /\ toClient' \in Seq(Wires) /\ DOMAIN server' \subseteq DOMAIN server
    BY <1>20, Destructions DEF W!Lock, W!Go, W!Procs
  <2>2. pc' \in [W!Procs -> Labels] /\ pc'[r] = "forgetting" /\ \A q \in W!Procs : q # r => pc'[q] = pc[q]
    BY <1>1, <1>2, <2>1 DEF TablesTyped
  <2> QED
    BY <1>1, <2>1, <2>2 DEF TablesTyped
<1>21. TablesTyped'
  <2>1. ASSUME NEW p \in W!Procs, W!ReadHeader(p) \/ W!ReadArguments(p) \/ W!Lookup(p) \/ W!Handle(p) \/ W!Bind(p)
        PROVE  TablesTyped'
    BY <1>10, <1>11, <1>13, <1>14, <1>15, <2>1
  <2>2. ASSUME NEW r \in Clients, W!CreateWrite(r) \/ W!Forget(r) \/ W!Check(r) \/ W!CreateRegister(r) \/ W!DestroyWrite(r)
        PROVE  TablesTyped'
    BY <1>16, <1>17, <1>18, <1>19, <1>20, <2>2
  <2> QED
    BY <1>5, <1>7, <1>8, <2>1, <2>2, WaylandSteps
<1>22. FlagsTyped'
  BY FlagsStay DEF WaylandTyped, TablesTyped
<1> QED
  BY <1>21, <1>22 DEF WaylandTyped

\* How the table of objects changes.
LEMMA ObjectsChange ==
    ASSUME PartsAssumption, WaylandTyped, IdsFit, W!Next
    PROVE  \/ objects' = objects /\ currentID' = currentID
           \/ \E p \in W!Procs : Registers(p)
           \/ \E p \in W!Procs : W!Handle(p) /\ W!HandleDeleteId(p)
           \/ \E r \in Clients : W!Forget(r)
<1> DEFINE Goal == \/ objects' = objects /\ currentID' = currentID
                   \/ \E p \in W!Procs : Registers(p)
                   \/ \E p \in W!Procs : W!Handle(p) /\ W!HandleDeleteId(p)
                   \/ \E r \in Clients : W!Forget(r)
<1>1. ASSUME W!SyncRegister PROVE Goal
  <2>1. PICK p : p = connector
    OBVIOUS
  <2>2. Registers(p) /\ p \in W!Procs
    BY <1>1, <2>1, SyncRegisters DEF WaylandTyped, FlagsTyped
  <2> QED
    BY <2>2
<1>2. ASSUME W!SyncWrite \/ W!SendEvent PROVE Goal
  BY <1>2 DEF W!SyncWrite, W!SendEvent, W!ctxVars
<1>3. ASSUME NEW p \in W!Procs, W!ReadHeader(p) \/ W!ReadArguments(p) \/ W!Lookup(p) \/ W!Bind(p) PROVE Goal
  BY <1>3 DEF W!ReadHeader, W!ReadArguments, W!Lookup, W!Bind, W!ctxVars
<1>4. ASSUME NEW p \in W!Procs, W!Handle(p) PROVE Goal
  <2>1. CASE W!HandleGlobal(p)
    BY <1>4, <2>1, GlobalRegisters
  <2>2. CASE W!HandleDeleteId(p)
    BY <1>4, <2>2
  <2>3. CASE W!HandleDone(p)
    BY <2>3 DEF W!HandleDone
  <2>4. CASE UNCHANGED W!ctxVars
    BY <2>4 DEF W!ctxVars
  <2> QED
    BY <1>4, <2>1, <2>2, <2>3, <2>4 DEF W!Handle
<1>5. ASSUME NEW r \in Clients, W!CreateWrite(r) \/ W!Check(r) \/ W!DestroyWrite(r) PROVE Goal
  BY <1>5 DEF W!CreateWrite, W!Check, W!DestroyWrite, W!ctxVars
<1>6. ASSUME NEW r \in Clients, W!CreateRegister(r) PROVE Goal
  <2>1. CASE Crashes(r)
    BY <2>1 DEF Crashes
  <2>2. CASE Registers(r)
    BY <2>2 DEF W!Procs
  <2> QED
    BY <1>6, <2>1, <2>2, CreateRegisters
<1> QED
  BY <1>1, <1>2, <1>3, <1>4, <1>5, <1>6, WaylandSteps

\* A proxy keeps its interface, and ids are not used again.
Agree == /\ currentID' \in Nat /\ currentID' >= currentID
         /\ \A id \in 1..currentID : id \in DOMAIN objects' =>
              id \in DOMAIN objects /\ objects'[id].iface = objects[id].iface

LEMMA DeletedIs ==
    ASSUME WaylandTyped, IdsFit, NEW p \in W!Procs, W!Handle(p), W!HandleDeleteId(p)
    PROVE  /\ pc[p] = "handle" /\ task[p].new \in 3..currentID /\ W!Goes(p, done)
           /\ task[p].op = "DeleteId" /\ task[p].iface = "Display" /\ task[p] = W!Msg(1, "DeleteId", task[p].new, "Display")
           /\ objects' = [id \in DOMAIN objects \ {task[p].new} |-> objects[id]]
           /\ UNCHANGED <<connector, currentID, bound, done, task, shared, wlMu, own, toClient, server, granted, failure>>
<1>1. /\ pc[p] = "handle" /\ task[p].iface = "Display" /\ task[p].op = "DeleteId"
      /\ W!Goes(p, done) /\ objects' = [id \in DOMAIN objects \ {task[p].new} |-> objects[id]]
      /\ UNCHANGED <<connector, currentID, bound, done, task, shared, wlMu, own, toClient, server, granted, failure>>
  BY DEF W!Handle, W!HandleDeleteId, W!Is, W!DeleteID, W!netVars
<1>2. task[p] \in Messages /\ EventFits(task[p])
  BY <1>1 DEF IdsFit, Reading
<1>3. task[p].new \in 3..currentID /\ task[p].id = 1
  BY <1>1, <1>2 DEF EventFits
<1>4. task[p] = W!Msg(1, "DeleteId", task[p].new, "Display")
  BY <1>1, <1>2, <1>3 DEF Messages, W!Msg
<1> QED
  BY <1>1, <1>3, <1>4

LEMMA ObjectsAgree ==
    ASSUME PartsAssumption, WaylandTyped, IdsFit, W!Next PROVE Agree
<1>1. currentID \in Nat /\ DOMAIN objects \subseteq 1..currentID
  BY DEF WaylandTyped, TablesTyped
<1>2. CASE objects' = objects /\ currentID' = currentID
  BY <1>1, <1>2 DEF Agree
<1>3. ASSUME NEW p, Registers(p) PROVE Agree
  <2>1. /\ currentID' = currentID + 1 /\ DOMAIN objects' = DOMAIN objects \union {currentID'}
        /\ \A id \in DOMAIN objects : objects'[id] = objects[id]
    BY <1>3 DEF Registers
  <2> QED
    BY <1>1, <2>1 DEF Agree
<1>4. ASSUME NEW p \in W!Procs, W!Handle(p), W!HandleDeleteId(p) PROVE Agree
  <2>1. objects' = [id \in DOMAIN objects \ {task[p].new} |-> objects[id]] /\ currentID' = currentID
    BY <1>4, DeletedIs
  <2> QED
    BY <1>1, <2>1 DEF Agree
<1>5. ASSUME NEW r \in Clients, W!Forget(r) PROVE Agree
  <2>1. /\ currentID' = currentID /\ DOMAIN objects' \subseteq DOMAIN objects
        /\ \A id \in DOMAIN objects' : objects'[id].iface = objects[id].iface
    BY <1>5, Forgets
  <2> QED
    BY <1>1, <2>1 DEF Agree
<1> QED
  BY <1>2, <1>3, <1>4, <1>5, ObjectsChange

\* The display and the registry are nobody's to forget.
LEMMA PermanentStays ==
    ASSUME PartsAssumption, WaylandTyped, IdsFit, Permanent, W!Next PROVE Permanent'
<1>1. CASE objects' = objects
  BY <1>1 DEF Permanent
<1>2. ASSUME NEW p, Registers(p) PROVE Permanent'
  <2>1. /\ DOMAIN objects' = DOMAIN objects \union {currentID'}
        /\ \A id \in DOMAIN objects : objects'[id] = objects[id]
    BY <1>2 DEF Registers
  <2> QED
    BY <2>1 DEF Permanent
<1>3. ASSUME NEW p \in W!Procs, W!Handle(p), W!HandleDeleteId(p) PROVE Permanent'
  <2>1. objects' = [id \in DOMAIN objects \ {task[p].new} |-> objects[id]] /\ task[p].new \in 3..currentID
    BY <1>3, DeletedIs
  <2>2. task[p].new # 1 /\ task[p].new # 2
    BY <2>1
  <2> QED
    BY <2>1, <2>2 DEF Permanent
<1>4. ASSUME NEW r \in Clients, W!Forget(r) PROVE Permanent'
  <2>1. /\ DOMAIN objects \ {own[r]} \subseteq DOMAIN objects'
        /\ \A id \in DOMAIN objects' : id # own[r] => objects'[id] = objects[id]
    BY <1>4, Forgets
  <2>2. own[r] # 1 /\ own[r] # 2
    BY DEF WaylandTyped, TablesTyped
  <2> QED
    BY <2>1, <2>2 DEF Permanent
<1> QED
  BY <1>1, <1>2, <1>3, <1>4, ObjectsChange

\* A request that destroys its object has been accepted.
Destroys(r) ==
    /\ pc[r] = "idle" /\ own[r] # 0 /\ wlMu = W!Free /\ pc' = [pc EXCEPT ![r] = "forgetting"] /\ UNCHANGED <<currentID, objects, task, own, bound>>
    /\ \E t : t.id = own[r] /\ Destroyed(t)

\* A request with a new object has been accepted.
Written(p) ==
    /\ pc[p] \in Writing /\ Granted(task[p])
    /\ \E l \in {"header", "idle", "end"} : pc' = [pc EXCEPT ![p] = l]
    /\ UNCHANGED <<currentID, objects, task>>

\* How the wire and the compositor change.
LEMMA NetChange ==
    ASSUME PartsAssumption, WaylandTyped, IdsFit, W!Next
    PROVE  \/ UNCHANGED <<toClient, server, granted>>
           \/ (\E p \in W!Procs : W!ReadHeader(p) \/ W!ReadArguments(p)) /\ UNCHANGED <<server, granted>>
           \/ \E p \in W!Procs : Written(p)
           \/ \E r \in Clients : Destroys(r)
           \/ W!SendEvent
<1> DEFINE Goal == \/ UNCHANGED <<toClient, server, granted>>
                   \/ (\E p \in W!Procs : W!ReadHeader(p) \/ W!ReadArguments(p)) /\ UNCHANGED <<server, granted>>
                   \/ \E p \in W!Procs : Written(p)
                   \/ \E r \in Clients : Destroys(r)
                   \/ W!SendEvent
<1>1. ASSUME NEW p \in W!Procs, pc[p] \in Writing, W!Write(task[p]), NEW l \in {"header", "idle", "end"}, W!Go(p, l),
             UNCHANGED <<currentID, objects, task>>
      PROVE  Goal
  <2>1. Refused(task[p]) \/ Granted(task[p])
    BY <1>1, Writings
  <2>2. CASE Refused(task[p])
    BY <2>2 DEF Refused
  <2>3. CASE Granted(task[p])
    BY <1>1, <2>3 DEF Written, W!Go
  <2> QED
    BY <2>1, <2>2, <2>3
<1>2. ASSUME W!SyncWrite PROVE Goal
  <2>1. PICK p : p = connector
    OBVIOUS
  <2>2. /\ p \in W!Procs /\ pc[p] \in Writing /\ W!Write(task[p]) /\ W!Go(p, "header")
        /\ UNCHANGED <<currentID, objects, task>>
    BY <1>2, <2>1 DEF W!SyncWrite, W!ctxVars, WaylandTyped, FlagsTyped, W!Go, Writing
  <2> HIDE DEF Goal
  <2> QED
    BY <1>1, <2>2
<1>3. ASSUME W!SyncRegister \/ W!SendEvent PROVE Goal
  BY <1>3 DEF W!SyncRegister, W!netVars
<1>4. ASSUME NEW p \in W!Procs, W!ReadHeader(p) \/ W!ReadArguments(p) PROVE Goal
  <2>1. UNCHANGED <<server, granted>>
    BY <1>4 DEF W!ReadHeader, W!ReadArguments
  <2> QED
    BY <1>4, <2>1
<1>5. ASSUME NEW p \in W!Procs, W!Lookup(p) \/ W!Handle(p) PROVE Goal
  BY <1>5 DEF W!Lookup, W!Handle, W!netVars
<1>6. ASSUME NEW p \in W!Procs, W!Bind(p) PROVE Goal
  <2>1. /\ pc[p] \in Writing /\ W!Write(task[p]) /\ W!Goes(p, done) /\ UNCHANGED <<currentID, objects, task>>
    BY <1>6 DEF W!Bind, W!ctxVars, Writing
  <2>2. \E l \in {"header", "end"} : W!Go(p, l)
    BY <2>1, GoesIs
  <2> HIDE DEF Goal
  <2> QED
    BY <1>1, <2>1, <2>2
<1>7. ASSUME NEW r \in Clients, W!CreateWrite(r) PROVE Goal
  <2>1. /\ r \in W!Procs /\ pc[r] \in Writing /\ W!Write(task[r]) /\ W!Go(r, "idle") /\ UNCHANGED <<currentID, objects, task>>
    BY <1>7 DEF W!CreateWrite, W!ctxVars, Writing, W!Procs
  <2> HIDE DEF Goal
  <2> QED
    BY <1>1, <2>1
<1>8. ASSUME NEW r \in Clients, W!Forget(r) \/ W!Check(r) \/ W!CreateRegister(r) PROVE Goal
  BY <1>8 DEF W!Forget, W!Check, W!CreateRegister, W!netVars
<1>9. ASSUME NEW r \in Clients, W!DestroyWrite(r) PROVE Goal
  <2>1. /\ pc[r] = "idle" /\ own[r] # 0 /\ wlMu = W!Free /\ W!Go(r, "forgetting") /\ UNCHANGED <<currentID, objects, task, own, bound>>
        /\ \E t : t.id = own[r] /\ t.new = 0 /\ (Refused(t) \/ Destroyed(t))
    BY <1>9, Destructions DEF W!Lock
  <2>2. PICK t : t.id = own[r] /\ t.new = 0 /\ (Refused(t) \/ Destroyed(t))
    BY <2>1
  <2>3. CASE Refused(t)
    BY <2>3 DEF Refused
  <2>4. CASE Destroyed(t)
    BY <2>1, <2>2, <2>4 DEF Destroys, W!Go
  <2> QED
    BY <2>2, <2>3, <2>4
<1> HIDE DEF Goal
<1>10. ASSUME NEW p \in W!Procs, W!ReadHeader(p) \/ W!ReadArguments(p) \/ W!Lookup(p) \/ W!Handle(p) \/ W!Bind(p) PROVE Goal
  BY <1>4, <1>5, <1>6, <1>10
<1>11. ASSUME NEW r \in Clients, W!CreateWrite(r) \/ W!Forget(r) \/ W!Check(r) \/ W!CreateRegister(r) \/ W!DestroyWrite(r) PROVE Goal
  BY <1>7, <1>8, <1>9, <1>11
<1>12. Goal
  BY <1>2, <1>3, <1>10, <1>11, WaylandSteps
<1> QED
  BY <1>12 DEF Goal

\* What the goroutines read and write.
LEMMA TasksChange ==
    ASSUME PartsAssumption, WaylandTyped, IdsFit, W!Next, NEW q \in W!Procs
    PROVE  /\ pc'[q] \in Reading => \/ pc[q] \in Reading /\ task'[q] = task[q]
                                    \/ W!ReadHeader(q)
           /\ pc'[q] \in Writing => \/ pc[q] \in Writing /\ task'[q] = task[q] /\ pc'[q] = pc[q]
                                    \/ Registers(q)
<1> DEFINE Goal == /\ pc'[q] \in Reading => \/ pc[q] \in Reading /\ task'[q] = task[q]
                                            \/ W!ReadHeader(q)
                   /\ pc'[q] \in Writing => \/ pc[q] \in Writing /\ task'[q] = task[q] /\ pc'[q] = pc[q]
                                            \/ Registers(q)
<1>1. pc \in [W!Procs -> Labels] /\ DOMAIN task = W!Procs
  BY DEF WaylandTyped, TablesTyped
<1>2. ASSUME NEW p \in W!Procs, NEW l, l \notin Reading \union Writing, pc' = [pc EXCEPT ![p] = l], task' = task PROVE Goal
  <2>1. pc'[q] = IF q = p THEN l ELSE pc[q]
    BY <1>1, <1>2
  <2> QED
    BY <1>2, <2>1
<1>3. \A l \in {"header", "idle", "end", "checked", "forgetting"} : l \notin Reading \union Writing
  BY DEF Reading, Writing
<1>4. ASSUME NEW p \in W!Procs, Registers(p) PROVE Goal
  <2>1. pc' = [pc EXCEPT ![p] = pc'[p]] /\ task' = [task EXCEPT ![p] = task'[p]] /\ pc'[p] \in Writing
    BY <1>4 DEF Registers, Writing
  <2>2. pc'[p] \notin Reading
    BY <2>1 DEF Reading, Writing
  <2>3. q # p => pc'[q] = pc[q] /\ task'[q] = task[q]
    BY <1>1, <2>1
  <2> QED
    BY <1>4, <2>1, <2>2, <2>3
<1>5. ASSUME W!SyncRegister PROVE Goal
  <2>1. PICK p : p = connector
    OBVIOUS
  <2>2. Registers(p) /\ p \in W!Procs
    BY <1>5, <2>1, SyncRegisters DEF WaylandTyped, FlagsTyped
  <2> HIDE DEF Goal
  <2> QED
    BY <1>4, <2>2
<1>6. ASSUME W!SyncWrite PROVE Goal
  <2>1. connector \in W!Procs /\ pc' = [pc EXCEPT ![connector] = "header"] /\ task' = task
    BY <1>6 DEF W!SyncWrite, W!Go, WaylandTyped, FlagsTyped
  <2> HIDE DEF Goal
  <2> QED
    BY <1>2, <1>3, <2>1
<1>7. ASSUME W!SendEvent PROVE Goal
  BY <1>7 DEF W!SendEvent
<1>8. ASSUME NEW p \in W!Procs, W!ReadHeader(p) PROVE Goal
  <2>1. /\ task' = [task EXCEPT ![p] = toClient[1].msg]
        /\ pc' = pc \/ pc' = [pc EXCEPT ![p] = "lookup"] \/ pc' = [pc EXCEPT ![p] = "arguments"]
        /\ pc[p] = "header"
    BY <1>8, HeaderRead DEF W!Go
  <2>2. q # p => pc'[q] = pc[q] /\ task'[q] = task[q]
    BY <1>1, <2>1
  <2>3. pc'[p] \in {"lookup", "arguments", "header"}
    BY <1>1, <2>1
  <2> QED
    BY <1>8, <2>2, <2>3 DEF Reading, Writing
<1>9. ASSUME NEW p \in W!Procs, W!ReadArguments(p) PROVE Goal
  <2>1. task' = task /\ pc[p] = "arguments" /\ (pc' = pc \/ pc' = [pc EXCEPT ![p] = "lookup"])
    BY <1>9, ArgumentsRead DEF W!Go
  <2>2. q # p => pc'[q] = pc[q]
    BY <1>1, <2>1
  <2>3. pc'[p] \in {"arguments", "lookup"}
    BY <1>1, <2>1
  <2> QED
    BY <2>1, <2>2, <2>3 DEF Reading, Writing
<1>10. ASSUME NEW p \in W!Procs, NEW ran, W!Goes(p, ran), task' = task PROVE Goal
  <2>1. \E l \in {"header", "end"} : pc' = [pc EXCEPT ![p] = l]
    BY <1>10, GoesIs DEF W!Go
  <2> HIDE DEF Goal
  <2> QED
    BY <1>2, <1>3, <1>10, <2>1
<1>11. ASSUME NEW p \in W!Procs, W!Lookup(p) PROVE Goal
  <2>1. pc[p] = "lookup" /\ task' = task /\ (W!Goes(p, done) \/ pc' = [pc EXCEPT ![p] = "handle"])
    BY <1>11, LookupIs DEF W!Go
  <2>2. CASE W!Goes(p, done)
    BY <1>10, <2>1, <2>2
  <2>3. CASE pc' = [pc EXCEPT ![p] = "handle"]
    <3>1. pc'[p] = "handle" /\ (q # p => pc'[q] = pc[q])
      BY <1>1, <2>3
    <3> QED
      BY <2>1, <3>1 DEF Reading, Writing
  <2> QED
    BY <2>1, <2>2, <2>3
<1>12. ASSUME NEW p \in W!Procs, W!Handle(p) PROVE Goal
  <2>1. CASE W!HandleGlobal(p)
    <3>1. Registers(p)
      BY <1>12, <2>1, GlobalRegisters
    <3> QED
      BY <1>4, <3>1
  <2>2. CASE ~W!HandleGlobal(p)
    <3>1. task' = task /\ (W!Goes(p, done) \/ W!Goes(p, TRUE))
      BY <1>12, <2>2 DEF W!Handle, W!HandleDeleteId, W!HandleDone
    <3> QED
      BY <1>10, <3>1
  <2> QED
    BY <2>1, <2>2
<1>13. ASSUME NEW p \in W!Procs, W!Bind(p) PROVE Goal
  BY <1>10, <1>13 DEF W!Bind
<1>14. ASSUME NEW r \in Clients, W!CreateWrite(r) \/ W!Forget(r) \/ W!Check(r) \/ W!DestroyWrite(r) PROVE Goal
  <2>1. task' = task /\ r \in W!Procs /\ \E l \in {"idle", "end", "checked", "forgetting"} : pc' = [pc EXCEPT ![r] = l]
    BY <1>14 DEF W!CreateWrite, W!Forget, W!Check, W!DestroyWrite, W!Go, W!Procs
  <2> HIDE DEF Goal
  <2> QED
    BY <1>2, <1>3, <2>1
<1>15. ASSUME NEW r \in Clients, W!CreateRegister(r) PROVE Goal
  <2>1. CASE Crashes(r)
    BY <2>1 DEF Crashes
  <2>2. CASE Registers(r)
    BY <1>4, <2>2 DEF W!Procs
  <2> QED
    BY <1>15, <2>1, <2>2, CreateRegisters
<1> HIDE DEF Goal
<1>16. ASSUME NEW p \in W!Procs, W!ReadHeader(p) \/ W!ReadArguments(p) \/ W!Lookup(p) \/ W!Handle(p) \/ W!Bind(p) PROVE Goal
  BY <1>8, <1>9, <1>11, <1>12, <1>13, <1>16
<1>17. ASSUME NEW r \in Clients, W!CreateWrite(r) \/ W!Forget(r) \/ W!Check(r) \/ W!CreateRegister(r) \/ W!DestroyWrite(r) PROVE Goal
  BY <1>14, <1>15, <1>17
<1>18. Goal
  BY <1>5, <1>6, <1>7, <1>16, <1>17, WaylandSteps
<1> QED
  BY <1>18 DEF Goal

\* An event that fits still does.
LEMMA FitStays ==
    ASSUME WaylandTyped, Agree, NEW m, EventFits(m) PROVE EventFits(m)'
<1>1. currentID \in Nat
  BY DEF WaylandTyped, TablesTyped
<1>2. currentID' \in Nat /\ currentID' >= currentID
  BY DEF Agree
<1>3. m.id \in 1..currentID' /\ (m.id \in DOMAIN objects' => objects'[m.id].iface = m.iface)
  BY <1>1, <1>2 DEF Agree, EventFits
<1>4. m.iface = "Display" => m.id = 1 /\ m.op = "DeleteId" /\ m.new \in 3..currentID'
  BY <1>1, <1>2 DEF EventFits
<1> QED
  BY <1>3, <1>4 DEF EventFits

\* The deletion of an object fits, the answer of a callback does, and what the
\* compositor sends of the objects it has.
LEMMA DeletionFits ==
    ASSUME WaylandTyped, Permanent, NEW id \in 3..currentID PROVE EventFits(W!Msg(1, "DeleteId", id, "Display"))
<1>1. currentID \in Nat /\ currentID >= 2
  BY DEF WaylandTyped, TablesTyped
<1>2. 1 \in 1..currentID /\ objects[1].iface = "Display"
  BY <1>1 DEF Permanent, W!Proxy
<1> QED
  BY <1>1, <1>2, TheyHaveEvents DEF EventFits, W!Msg

LEMMA DoneFits ==
    ASSUME NEW id \in 1..currentID, id \in DOMAIN objects => objects[id].iface = "Callback"
    PROVE  EventFits(W!Msg(id, "Done", 0, "Callback"))
BY TheyHaveEvents DEF EventFits, W!Msg

LEMMA SentFits ==
    ASSUME PartsAssumption, WaylandTyped, IdsFit, NEW m, m.id \in DOMAIN server, m.id > 2,
           m.iface = server[m.id], W!EventsOf(m.iface) # {}
    PROVE  EventFits(m)
<1>1. m.id \in 1..currentID /\ (m.id \in DOMAIN objects => objects[m.id].iface = m.iface)
  BY DEF WaylandTyped, TablesTyped, IdsFit
<1>2. m.iface \notin {"Display", "Registry", "Callback"}
  BY ConnectionConstants DEF IdsFit
<1> QED
  BY <1>1, <1>2 DEF EventFits

\* Whatever an accepted request is answered with fits.
LEMMA AnswerFits ==
    ASSUME PartsAssumption, WaylandTyped, Permanent, NEW t, t.id \in Nat, t.new \in {0} \union 3..currentID,
           t.new = 0 => t.id \in 3..currentID,
           t.iface = "Callback" /\ t.new \in DOMAIN objects => objects[t.new].iface = "Callback"
    PROVE  \A i \in DOMAIN W!Answer(t) : EventFits(W!Answer(t)[i].msg)
<1>1. currentID \in Nat /\ t.new \in Nat
  BY DEF WaylandTyped, TablesTyped
<1>2. TAKE i \in DOMAIN W!Answer(t)
<1>3. CASE t.new = 0 /\ W!Answer(t)[i].msg = W!Msg(1, "DeleteId", t.id, "Display")
  BY <1>3, DeletionFits
<1>4. CASE t.new # 0 /\ W!Answer(t)[i].msg = W!Msg(1, "DeleteId", t.new, "Display")
  BY <1>4, DeletionFits
<1>5. CASE t.new # 0 /\ t.iface = "Callback" /\ W!Answer(t)[i].msg = W!Msg(t.new, "Done", 0, "Callback")
  <2>1. t.new \in 1..currentID
    BY <1>1, <1>5
  <2> QED
    BY <1>5, <2>1, DoneFits
<1> QED
  BY <1>1, <1>2, <1>3, <1>4, <1>5, AnswerIs

\* The events on the wire fit.
LEMMA EventsStayFit ==
    ASSUME PartsAssumption, WaylandTyped, Permanent, IdsFit, W!Next
    PROVE  (\A i \in DOMAIN toClient : EventFits(toClient[i].msg))'
<1>1. Agree
  BY ObjectsAgree
<1>2. \A m : EventFits(m) => EventFits(m)'
  BY <1>1, FitStays
<1>3. \A i \in DOMAIN toClient : EventFits(toClient[i].msg)
  BY DEF IdsFit
<1>4. toClient \in Seq(Wires)
  BY DEF WaylandTyped, TablesTyped
<1> HIDE DEF EventFits
<1>5. ASSUME NEW q, Emits(q), \A i \in DOMAIN q : EventFits(q[i].msg) PROVE \A i \in DOMAIN toClient' : EventFits(toClient'[i].msg)
  <2>1. \A i \in DOMAIN toClient' : \/ i \in DOMAIN toClient /\ toClient'[i] = toClient[i]
                                    \/ i - Len(toClient) \in DOMAIN q /\ toClient'[i] = q[i - Len(toClient)]
    BY <1>4, <1>5, EmitsMore
  <2> QED
    BY <1>3, <1>5, <2>1
<1>6. \A i \in DOMAIN toClient' : EventFits(toClient'[i].msg)
  <2>1. CASE toClient' = toClient
    BY <1>3, <2>1
  <2>2. ASSUME NEW p \in W!Procs, W!ReadHeader(p) \/ W!ReadArguments(p)
        PROVE  \A i \in DOMAIN toClient' : EventFits(toClient'[i].msg)
    <3>1. Takes \/ Marks
      BY <2>2, HeaderRead, ArgumentsRead
    <3>2. CASE Takes
      BY <1>3, <3>2 DEF Takes
    <3>3. CASE Marks
      BY <1>3, <3>3 DEF Marks
    <3> QED
      BY <3>1, <3>2, <3>3
  <2>3. ASSUME NEW p \in W!Procs, Written(p) PROVE \A i \in DOMAIN toClient' : EventFits(toClient'[i].msg)
    <3>1. /\ task[p].id \in Nat /\ task[p].new \in 3..currentID
          /\ task[p].new \in DOMAIN objects => objects[task[p].new].iface = task[p].iface
      BY <2>3 DEF Written, IdsFit
    <3>2. Emits(W!Answer(task[p]))
      BY <2>3 DEF Written, Granted
    <3>3. task[p].new # 0
      BY <3>1 DEF WaylandTyped, TablesTyped
    <3>4. \A i \in DOMAIN W!Answer(task[p]) : EventFits(W!Answer(task[p])[i].msg)
      BY <3>1, <3>3, AnswerFits
    <3> QED
      BY <1>5, <3>2, <3>4
  <2>4. ASSUME NEW r \in Clients, Destroys(r) PROVE \A i \in DOMAIN toClient' : EventFits(toClient'[i].msg)
    <3>1. PICK t : t.id = own[r] /\ Destroyed(t)
      BY <2>4 DEF Destroys
    <3>2. t.new = 0 /\ Emits(W!Answer(t))
      BY <3>1 DEF Destroyed
    <3>3. own[r] # 0 /\ own[r] \in {0} \union 3..currentID /\ currentID \in Nat
      BY <2>4 DEF Destroys, WaylandTyped, TablesTyped
    <3>4. t.id \in 3..currentID /\ t.id \in Nat /\ 0 \notin DOMAIN objects
      BY <3>1, <3>3 DEF WaylandTyped, TablesTyped
    <3>5. \A i \in DOMAIN W!Answer(t) : EventFits(W!Answer(t)[i].msg)
      BY <3>2, <3>4, AnswerFits
    <3> QED
      BY <1>5, <3>2, <3>5
  <2>5. ASSUME W!SendEvent PROVE \A i \in DOMAIN toClient' : EventFits(toClient'[i].msg)
    <3>1. PICK q : /\ Emits(q) /\ DOMAIN q = {1}
                   /\ q[1].msg.id \in DOMAIN server /\ q[1].msg.id > 2
                   /\ q[1].msg.iface = server[q[1].msg.id]
                   /\ W!EventsOf(q[1].msg.iface) # {}
      BY <2>5, EmissionIs
    <3>2. EventFits(q[1].msg)
      BY <3>1, SentFits
    <3> QED
      BY <1>5, <3>1, <3>2
  <2> QED
    BY <2>1, <2>2, <2>3, <2>4, <2>5, NetChange
<1>7. ASSUME NEW i \in DOMAIN toClient' PROVE EventFits(toClient[i].msg)'
  <2>1. PICK m : m = toClient'[i].msg
    OBVIOUS
  <2>2. EventFits(m)'
    BY <1>2, <1>6, <2>1
  <2> QED
    BY <2>1, <2>2 DEF EventFits
<1> QED
  BY <1>7

\* Every step keeps the ids fitting.
LEMMA IdsStayFit ==
    ASSUME PartsAssumption, WaylandTyped, Permanent, IdsFit, W!Next PROVE IdsFit'
<1>1. Agree /\ currentID \in Nat
  BY ObjectsAgree DEF WaylandTyped, TablesTyped
<1>2. ASSUME NEW id \in DOMAIN server'
      PROVE  /\ id \in DOMAIN objects' => objects'[id].iface = server'[id]
             /\ id > 2 => server'[id] \in W!Bindable \union Created
  <2>1. ASSUME id \in DOMAIN server, server'[id] = server[id]
        PROVE  /\ id \in DOMAIN objects' => objects'[id].iface = server'[id]
               /\ id > 2 => server'[id] \in W!Bindable \union Created
    <3>1. id \in 1..currentID
      BY <2>1 DEF WaylandTyped, TablesTyped
    <3>2. /\ id \in DOMAIN objects => objects[id].iface = server[id]
          /\ id > 2 => server[id] \in W!Bindable \union Created
      BY <2>1 DEF IdsFit
    <3> QED
      BY <1>1, <2>1, <3>1, <3>2 DEF Agree
  <2>2. CASE UNCHANGED server
    BY <1>2, <2>1, <2>2
  <2>3. ASSUME NEW p \in W!Procs, Written(p)
        PROVE  \/ id \in DOMAIN server /\ server'[id] = server[id]
               \/ /\ id \in DOMAIN objects' => objects'[id].iface = server'[id]
                  /\ id > 2 => server'[id] \in W!Bindable \union Created
    <3>1. /\ \A x \in DOMAIN server : server'[x] = server[x]
          /\ id \in DOMAIN server \/ (id = task[p].new /\ task[p].iface # "Callback")
          /\ task[p].iface # "Callback" => server'[task[p].new] = task[p].iface
          /\ UNCHANGED objects
      BY <1>2, <2>3 DEF Written, Granted
    <3>2. /\ task[p].new \in DOMAIN objects => objects[task[p].new].iface = task[p].iface
          /\ task[p].iface \in W!Bindable \union Created \union {"Callback"}
      BY <2>3 DEF Written, IdsFit
    <3> QED
      BY <3>1, <3>2
  <2>4. ASSUME NEW r \in Clients, Destroys(r) PROVE id \in DOMAIN server /\ server'[id] = server[id]
    <3>1. PICK t : Destroyed(t)
      BY <2>4 DEF Destroys
    <3> QED
      BY <1>2, <3>1 DEF Destroyed
  <2>5. ASSUME W!SendEvent PROVE UNCHANGED server
    BY <2>5, EmissionIs
  <2> QED
    BY <2>1, <2>2, <2>3, <2>4, <2>5, NetChange
<1>3. (\A i \in DOMAIN toClient : EventFits(toClient[i].msg))'
  BY EventsStayFit
<1>4. ASSUME NEW q \in W!Procs, pc'[q] \in Reading PROVE (task[q] \in Messages /\ EventFits(task[q]))'
  <2>1. CASE pc[q] \in Reading /\ task'[q] = task[q]
    <3>1. task[q] \in Messages /\ EventFits(task[q])
      BY <2>1 DEF IdsFit
    <3>2. PICK m : m = task[q]
      OBVIOUS
    <3>3. EventFits(m)'
      BY <1>1, <3>1, <3>2, FitStays
    <3>4. m = task'[q]
      BY <2>1, <3>2
    <3> QED
      BY <3>1, <3>2, <3>3, <3>4 DEF EventFits
  <2>2. CASE W!ReadHeader(q)
    <3>1. 1 \in DOMAIN toClient /\ toClient[1] \in Wires /\ task'[q] = toClient[1].msg
      BY <2>2, HeaderRead
    <3>2. toClient[1].msg \in Messages /\ EventFits(toClient[1].msg)
      BY <3>1 DEF Wires, IdsFit
    <3>3. PICK m : m = toClient[1].msg
      OBVIOUS
    <3>4. EventFits(m)'
      BY <1>1, <3>2, <3>3, FitStays
    <3>5. m = task'[q]
      BY <3>1, <3>3
    <3> QED
      BY <3>2, <3>3, <3>4, <3>5 DEF EventFits
  <2> QED
    BY <1>4, <2>1, <2>2, TasksChange
<1>5. ASSUME NEW q \in W!Procs, pc'[q] \in Writing
      PROVE  /\ task'[q].id \in Nat /\ task'[q].new \in 3..currentID'
             /\ task'[q].new \in DOMAIN objects' => objects'[task'[q].new].iface = task'[q].iface
             /\ task'[q].iface \in W!Bindable \union Created \union {"Callback"}
  <2>1. CASE pc[q] \in Writing /\ task'[q] = task[q]
    <3>1. /\ task[q].id \in Nat /\ task[q].new \in 3..currentID
          /\ task[q].new \in DOMAIN objects => objects[task[q].new].iface = task[q].iface
          /\ task[q].iface \in W!Bindable \union Created \union {"Callback"}
      BY <2>1 DEF IdsFit
    <3>2. task[q].new \in 1..currentID
      BY <1>1, <3>1
    <3>3. task[q].new \in 3..currentID'
      BY <1>1, <3>1 DEF Agree
    <3>4. task[q].new \in DOMAIN objects' => objects'[task[q].new].iface = task[q].iface
      BY <1>1, <3>1, <3>2 DEF Agree
    <3> QED
      BY <2>1, <3>1, <3>3, <3>4
  <2>2. CASE Registers(q)
    <3>1. /\ task'[q].id \in 0..currentID /\ task'[q].new = currentID' /\ currentID' = currentID + 1
          /\ task'[q].iface \in W!Bindable \union Created \union {"Callback"}
          /\ objects'[currentID'] = W!Proxy(task'[q].iface)
      BY <2>2 DEF Registers
    <3>2. currentID >= 2
      BY DEF WaylandTyped, TablesTyped
    <3>3. objects'[task'[q].new].iface = task'[q].iface
      BY <3>1 DEF W!Proxy
    <3> QED
      BY <1>1, <3>1, <3>2, <3>3
  <2> QED
    BY <1>5, <2>1, <2>2, TasksChange
<1> QED
  BY <1>2, <1>3, <1>4, <1>5 DEF IdsFit

\* The steps of a goroutine.
Acts(q) ==
    \/ q = connector /\ (W!SyncRegister \/ W!SyncWrite)
    \/ W!ReadHeader(q) \/ W!ReadArguments(q) \/ W!Lookup(q) \/ W!Handle(q) \/ W!Bind(q)
    \/ /\ q \in Clients
       /\ W!CreateWrite(q) \/ W!Forget(q) \/ W!Check(q) \/ W!CreateRegister(q) \/ W!DestroyWrite(q)

\* Only its own steps change what a goroutine does and owns.
LEMMA OneActs ==
    ASSUME PartsAssumption, WaylandTyped, IdsFit, W!Next, NEW q \in W!Procs
    PROVE  Acts(q) \/ (pc'[q] = pc[q] /\ task'[q] = task[q] /\ (q \in Clients => own'[q] = own[q]))
<1> DEFINE Unmoved == pc'[q] = pc[q] /\ task'[q] = task[q] /\ (q \in Clients => own'[q] = own[q])
<1>1. pc \in [W!Procs -> Labels] /\ DOMAIN task = W!Procs /\ own \in [Clients -> {0} \union 3..currentID] /\ connector \in W!Procs
  BY DEF WaylandTyped, TablesTyped, FlagsTyped
<1>2. ASSUME NEW p \in W!Procs, p # q, NEW l, pc' = [pc EXCEPT ![p] = l] \/ pc' = pc,
             NEW t, task' = [task EXCEPT ![p] = t] \/ task' = task,
             NEW n, (p \in Clients /\ own' = [own EXCEPT ![p] = n]) \/ own' = own
      PROVE  Unmoved
  BY <1>1, <1>2
<1> HIDE DEF Unmoved
<1>3. ASSUME NEW p \in W!Procs, p # q, Registers(p) PROVE Unmoved
  BY <1>2, <1>3 DEF Registers
<1>4. ASSUME W!SyncRegister \/ W!SyncWrite, q # connector PROVE Unmoved
  <2>1. CASE W!SyncRegister
    <3>1. PICK p : p = connector
      OBVIOUS
    <3>2. Registers(p) /\ p \in W!Procs /\ p # q
      BY <1>1, <1>4, <2>1, <3>1, SyncRegisters
    <3> QED
      BY <1>3, <3>2
  <2>2. CASE W!SyncWrite
    <3>1. pc' = [pc EXCEPT ![connector] = "header"] /\ task' = task /\ own' = own
      BY <2>2 DEF W!SyncWrite, W!Go
    <3> QED
      BY <1>1, <1>2, <1>4, <3>1
  <2> QED
    BY <1>4, <2>1, <2>2
<1>5. ASSUME W!SendEvent PROVE Unmoved
  BY <1>5 DEF W!SendEvent, Unmoved
<1>6. ASSUME NEW p \in W!Procs, p # q, W!ReadHeader(p) PROVE Unmoved
  <2>1. /\ task' = [task EXCEPT ![p] = toClient[1].msg] /\ own' = own
        /\ pc' = pc \/ pc' = [pc EXCEPT ![p] = "lookup"] \/ pc' = [pc EXCEPT ![p] = "arguments"]
    BY <1>6, HeaderRead DEF W!Go
  <2> QED
    BY <1>2, <1>6, <2>1
<1>7. ASSUME NEW p \in W!Procs, p # q, W!ReadArguments(p) PROVE Unmoved
  <2>1. task' = task /\ own' = own /\ (pc' = pc \/ pc' = [pc EXCEPT ![p] = "lookup"])
    BY <1>7, ArgumentsRead DEF W!Go
  <2> QED
    BY <1>2, <1>7, <2>1
<1>8. ASSUME NEW p \in W!Procs, p # q, NEW ran, W!Goes(p, ran), task' = task, own' = own PROVE Unmoved
  <2>1. \E l \in {"header", "end"} : pc' = [pc EXCEPT ![p] = l]
    BY <1>8, GoesIs DEF W!Go
  <2> QED
    BY <1>2, <1>8, <2>1
<1>9. ASSUME NEW p \in W!Procs, p # q, W!Lookup(p) PROVE Unmoved
  <2>1. task' = task /\ own' = own /\ (W!Goes(p, done) \/ pc' = [pc EXCEPT ![p] = "handle"])
    BY <1>9, LookupIs DEF W!Go
  <2>2. CASE W!Goes(p, done)
    BY <1>8, <1>9, <2>1, <2>2
  <2>3. CASE pc' = [pc EXCEPT ![p] = "handle"]
    BY <1>2, <1>9, <2>1, <2>3
  <2> QED
    BY <2>1, <2>2, <2>3
<1>10. ASSUME NEW p \in W!Procs, p # q, W!Handle(p) PROVE Unmoved
  <2>1. CASE W!HandleGlobal(p)
    <3>1. Registers(p)
      BY <1>10, <2>1, GlobalRegisters
    <3> QED
      BY <1>3, <1>10, <3>1
  <2>2. CASE ~W!HandleGlobal(p)
    <3>1. task' = task /\ own' = own /\ (W!Goes(p, done) \/ W!Goes(p, TRUE))
      BY <1>10, <2>2 DEF W!Handle, W!HandleDeleteId, W!HandleDone
    <3> QED
      BY <1>8, <1>10, <3>1
  <2> QED
    BY <2>1, <2>2
<1>11. ASSUME NEW p \in W!Procs, p # q, W!Bind(p) PROVE Unmoved
  <2>1. W!Goes(p, done) /\ task' = task /\ own' = own
    BY <1>11 DEF W!Bind
  <2> QED
    BY <1>8, <1>11, <2>1
<1>12. ASSUME NEW r \in Clients, r # q, W!CreateWrite(r) \/ W!Forget(r) \/ W!Check(r) \/ W!DestroyWrite(r) PROVE Unmoved
  <2>1. /\ task' = task /\ r \in W!Procs /\ \E l \in {"idle", "end", "checked", "forgetting"} : pc' = [pc EXCEPT ![r] = l]
        /\ own' = own \/ own' = [own EXCEPT ![r] = task[r].new] \/ own' = [own EXCEPT ![r] = 0]
    BY <1>12 DEF W!CreateWrite, W!Forget, W!Check, W!DestroyWrite, W!Go, W!Procs
  <2> QED
    BY <1>2, <1>12, <2>1
<1>13. ASSUME NEW r \in Clients, r # q, W!CreateRegister(r) PROVE Unmoved
  <2>1. r \in W!Procs /\ own' = own
    BY <1>13, CreateRegisters DEF W!Procs
  <2>2. CASE Crashes(r)
    <3>1. task' = task /\ pc' = pc
      BY <2>2 DEF Crashes
    <3> QED
      BY <1>2, <1>13, <2>1, <3>1
  <2>3. CASE Registers(r)
    BY <1>3, <1>13, <2>1, <2>3
  <2> QED
    BY <1>13, <2>2, <2>3, CreateRegisters
<1>14. CASE W!SyncRegister \/ W!SyncWrite \/ W!SendEvent
  BY <1>4, <1>5, <1>14 DEF Acts, Unmoved
<1>15. ASSUME NEW p \in W!Procs, W!ReadHeader(p) \/ W!ReadArguments(p) \/ W!Lookup(p) \/ W!Handle(p) \/ W!Bind(p)
       PROVE  Acts(q) \/ Unmoved
  <2>1. CASE p = q
    BY <1>15, <2>1 DEF Acts
  <2>2. CASE p # q
    BY <1>6, <1>7, <1>9, <1>10, <1>11, <1>15, <2>2
  <2> QED
    BY <2>1, <2>2
<1>16. ASSUME NEW r \in Clients, W!CreateWrite(r) \/ W!Forget(r) \/ W!Check(r) \/ W!CreateRegister(r) \/ W!DestroyWrite(r)
       PROVE  Acts(q) \/ Unmoved
  <2>1. CASE r = q
    BY <1>16, <2>1 DEF Acts
  <2>2. CASE r # q
    BY <1>12, <1>13, <1>16, <2>2
  <2> QED
    BY <2>1, <2>2
<1>17. Acts(q) \/ Unmoved
  BY <1>14, <1>15, <1>16, WaylandSteps DEF Unmoved
<1> QED
  BY <1>17 DEF Unmoved

\* Which step a goroutine takes depends on where it is.
LEMMA ActsAt ==
    ASSUME NEW q, Acts(q)
    PROVE  \/ pc[q] = "sync" /\ q = connector /\ W!SyncRegister
           \/ pc[q] = "synced" /\ q = connector /\ W!SyncWrite
           \/ pc[q] = "header" /\ W!ReadHeader(q)
           \/ pc[q] = "arguments" /\ W!ReadArguments(q)
           \/ pc[q] = "lookup" /\ W!Lookup(q)
           \/ pc[q] = "handle" /\ W!Handle(q)
           \/ pc[q] = "bind" /\ W!Bind(q)
           \/ pc[q] = "registered" /\ q \in Clients /\ W!CreateWrite(q)
           \/ pc[q] = "forgetting" /\ q \in Clients /\ W!Forget(q)
           \/ pc[q] = "checked" /\ q \in Clients /\ W!CreateRegister(q)
           \/ pc[q] = "idle" /\ q \in Clients /\ own[q] = 0 /\ W!Check(q)
           \/ pc[q] = "idle" /\ q \in Clients /\ own[q] # 0 /\ W!DestroyWrite(q)
<1>1. CASE q = connector /\ (W!SyncRegister \/ W!SyncWrite)
  BY <1>1 DEF W!SyncRegister, W!SyncWrite
<1>2. CASE W!ReadHeader(q) \/ W!ReadArguments(q) \/ W!Lookup(q) \/ W!Handle(q) \/ W!Bind(q)
  BY <1>2 DEF W!ReadHeader, W!ReadArguments, W!Lookup, W!Handle, W!Bind
<1>3. CASE q \in Clients /\ (W!CreateWrite(q) \/ W!Forget(q) \/ W!Check(q) \/ W!CreateRegister(q) \/ W!DestroyWrite(q))
  BY <1>3 DEF W!CreateWrite, W!Forget, W!Check, W!CreateRegister, W!DestroyWrite
<1> QED
  BY <1>1, <1>2, <1>3 DEF Acts

LEMMA GoesTo ==
    ASSUME PartsAssumption, WaylandTyped, IdsFit, NEW q \in W!Procs, Acts(q)
    PROVE  /\ pc[q] = "sync" => pc'[q] = "synced"
           /\ pc[q] = "synced" => pc'[q] = "header"
           /\ pc[q] = "header" => pc'[q] \in {"header", "arguments", "lookup"}
           /\ pc[q] = "arguments" => pc'[q] \in {"arguments", "lookup"}
           /\ pc[q] = "lookup" => pc'[q] \in {"handle", "header", "end"}
           /\ pc[q] = "handle" => pc'[q] \in {"bind", "header", "end"}
           /\ pc[q] = "bind" => pc'[q] \in {"header", "end"}
           /\ pc[q] = "registered" => pc'[q] = "idle"
           /\ pc[q] = "forgetting" => pc'[q] = "end"
           /\ pc[q] = "checked" => pc'[q] \in {"checked", "registered"}
           /\ pc[q] = "idle" => q \in Clients /\ pc'[q] = IF own[q] = 0 THEN "checked" ELSE "forgetting"
           /\ pc[q] # "end"
<1>1. pc \in [W!Procs -> Labels] /\ connector \in W!Procs
  BY DEF WaylandTyped, TablesTyped, FlagsTyped
<1>2. ASSUME NEW l, W!Go(q, l) PROVE pc'[q] = l
  BY <1>1, <1>2 DEF W!Go
<1>3. ASSUME NEW ran, W!Goes(q, ran) PROVE pc'[q] \in {"header", "end"}
  BY <1>2, <1>3, GoesIs
<1>4. ASSUME pc[q] = "sync", q = connector, W!SyncRegister PROVE pc'[q] = "synced"
  BY <1>2, <1>4 DEF W!SyncRegister, W!Go
<1>5. ASSUME pc[q] = "synced", q = connector, W!SyncWrite PROVE pc'[q] = "header"
  BY <1>2, <1>5 DEF W!SyncWrite, W!Go
<1>6. ASSUME pc[q] = "header", W!ReadHeader(q) PROVE pc'[q] \in {"header", "arguments", "lookup"}
  BY <1>2, <1>6, HeaderRead
<1>7. ASSUME pc[q] = "arguments", W!ReadArguments(q) PROVE pc'[q] \in {"arguments", "lookup"}
  BY <1>2, <1>7, ArgumentsRead
<1>8. ASSUME pc[q] = "lookup", W!Lookup(q) PROVE pc'[q] \in {"handle", "header", "end"}
  BY <1>2, <1>3, <1>8, LookupIs
<1>9. ASSUME pc[q] = "handle", W!Handle(q) PROVE pc'[q] \in {"bind", "header", "end"}
  BY <1>2, <1>3, <1>9 DEF W!Handle, W!HandleDeleteId, W!HandleDone, W!HandleGlobal
<1>10. ASSUME pc[q] = "bind", W!Bind(q) PROVE pc'[q] \in {"header", "end"}
  BY <1>3, <1>10 DEF W!Bind
<1>11. ASSUME pc[q] = "registered", W!CreateWrite(q) PROVE pc'[q] = "idle"
  BY <1>2, <1>11 DEF W!CreateWrite
<1>12. ASSUME pc[q] = "forgetting", W!Forget(q) PROVE pc'[q] = "end"
  BY <1>2, <1>12 DEF W!Forget
<1>13. ASSUME pc[q] = "checked", q \in Clients, W!CreateRegister(q) PROVE pc'[q] \in {"checked", "registered"}
  <2>1. CASE Crashes(q)
    BY <1>13, <2>1 DEF Crashes
  <2>2. CASE Registers(q)
    BY <1>13, <2>2 DEF Registers
  <2> QED
    BY <1>13, <2>1, <2>2, CreateRegisters
<1>14. ASSUME pc[q] = "idle", own[q] = 0, W!Check(q) PROVE pc'[q] = "checked"
  BY <1>2, <1>14 DEF W!Check
<1>15. ASSUME pc[q] = "idle", own[q] # 0, W!DestroyWrite(q) PROVE pc'[q] = "forgetting"
  BY <1>2, <1>15 DEF W!DestroyWrite
<1> QED
  BY <1>4, <1>5, <1>6, <1>7, <1>8, <1>9, <1>10, <1>11, <1>12, <1>13, <1>14, <1>15, ActsAt

\* An event for the display or the registry that is being read is handled.
LEMMA ReadingGoesOn ==
    ASSUME PartsAssumption, WaylandTyped, Permanent, IdsFit, W!Next, NEW p \in W!Procs, pc[p] \in Reading,
           task[p].id \in {1, 2}, failure' = "none"
    PROVE  (pc'[p] \in Reading /\ task'[p] = task[p]) \/ W!Handle(p)
<1>1. pc \in [W!Procs -> Labels] /\ failure = "none"
  BY WaylandSteps DEF WaylandTyped, TablesTyped
<1>2. CASE W!ReadArguments(p)
  <2>1. failure' = "torn message" \/ pc' = [pc EXCEPT ![p] = "lookup"]
    BY <1>2, ArgumentsRead DEF W!Go
  <2>2. task' = task
    BY <1>2 DEF W!ReadArguments
  <2> QED
    BY <1>1, <2>1, <2>2 DEF Reading
<1>3. CASE W!Lookup(p)
  <2>1. \A id \in {1, 2} : W!Live(id)
    BY DEF W!Live, Permanent, W!Proxy
  <2>2. task' = task /\ pc' = [pc EXCEPT ![p] = "handle"]
    BY <1>3, <2>1, LookupIs DEF W!Go
  <2> QED
    BY <1>1, <2>2 DEF Reading
<1>4. CASE pc'[p] = pc[p] /\ task'[p] = task[p]
  BY <1>4
<1>5. Acts(p) => W!ReadArguments(p) \/ W!Lookup(p) \/ W!Handle(p)
  BY ActsAt DEF Reading
<1> QED
  BY <1>2, <1>3, <1>4, <1>5, OneActs

\* Such an event is not lost before.
LEMMA CarriedOn ==
    ASSUME PartsAssumption, WaylandTyped, Permanent, IdsFit, W!Next, NEW m, m.id \in {1, 2},
           Carried(m), failure' = "none"
    PROVE  Carried(m)' \/ \E p \in W!Procs : task[p] = m /\ W!Handle(p)
<1> DEFINE Goal == Carried(m)' \/ \E p \in W!Procs : task[p] = m /\ W!Handle(p)
<1>1. /\ toClient \in Seq(Wires) /\ failure = "none" /\ pc \in [W!Procs -> Labels] /\ DOMAIN task = W!Procs
  BY WaylandSteps DEF WaylandTyped, TablesTyped
<1>2. ASSUME NEW i \in DOMAIN toClient', toClient'[i].msg = m PROVE Goal
  BY <1>2 DEF Carried
<1>3. ASSUME NEW p \in W!Procs, pc'[p] \in Reading, task'[p] = m PROVE Goal
  BY <1>3 DEF Carried
<1>4. ASSUME NEW p \in W!Procs, pc[p] \in Reading, task[p] = m PROVE Goal
  <2>1. (pc'[p] \in Reading /\ task'[p] = task[p]) \/ W!Handle(p)
    BY <1>4, ReadingGoesOn
  <2> QED
    BY <1>3, <1>4, <2>1
<1>5. ASSUME NEW i \in DOMAIN toClient, toClient[i].msg = m PROVE Goal
  <2> HIDE DEF Goal
  <2>1. CASE toClient' = toClient
    BY <1>2, <1>5, <2>1
  <2>2. ASSUME NEW q, Emits(q) PROVE Goal
    <3>1. i \in DOMAIN toClient' /\ toClient'[i] = toClient[i]
      BY <1>1, <1>5, <2>2, EmitsMore
    <3> QED
      BY <1>2, <1>5, <3>1
  <2>3. ASSUME NEW p \in W!Procs, W!ReadHeader(p) PROVE Goal
    <3>1. CASE Marks
      <4>1. i \in DOMAIN toClient' /\ toClient'[i].msg = m
        BY <1>5, <3>1 DEF Marks
      <4> QED
        BY <1>2, <4>1
    <3>2. CASE Takes /\ i # 1
      <4>1. i - 1 \in DOMAIN toClient' /\ toClient'[i - 1].msg = m
        BY <1>5, <3>2 DEF Takes
      <4> QED
        BY <1>2, <4>1
    <3>3. CASE Takes /\ i = 1
      <4>1. task'[p] = m /\ (W!Go(p, "lookup") \/ W!Go(p, "arguments"))
        BY <1>1, <1>5, <2>3, <3>3, HeaderRead
      <4>2. pc'[p] \in Reading
        BY <1>1, <4>1 DEF W!Go, Reading
      <4> QED
        BY <1>3, <4>1, <4>2
    <3> QED
      BY <2>3, <3>1, <3>2, <3>3, HeaderRead
  <2>4. ASSUME NEW p \in W!Procs, W!ReadArguments(p) PROVE Goal
    <3>1. Takes
      BY <2>4, ArgumentsRead
    <3>2. CASE i # 1
      <4>1. i - 1 \in DOMAIN toClient' /\ toClient'[i - 1].msg = m
        BY <1>5, <3>1, <3>2 DEF Takes
      <4> QED
        BY <1>2, <4>1
    <3>3. CASE i = 1
      <4>1. task'[p] = m /\ W!Go(p, "lookup")
        BY <1>1, <1>5, <2>4, <3>3, ArgumentsRead
      <4>2. pc'[p] \in Reading
        BY <1>1, <4>1 DEF W!Go, Reading
      <4> QED
        BY <1>3, <4>1, <4>2
    <3> QED
      BY <3>2, <3>3
  <2>5. ASSUME NEW p \in W!Procs, Written(p) PROVE Goal
    BY <2>2, <2>5 DEF Written, Granted
  <2>6. ASSUME NEW r \in Clients, Destroys(r) PROVE Goal
    BY <2>2, <2>6 DEF Destroys, Destroyed
  <2>7. ASSUME W!SendEvent PROVE Goal
    <3>1. \E q : Emits(q)
      BY <2>7, EmissionIs
    <3> QED
      BY <2>2, <3>1
  <2> QED
    BY <2>1, <2>3, <2>4, <2>5, <2>6, <2>7, NetChange
<1> HIDE DEF Goal
<1>6. Goal
  BY <1>4, <1>5 DEF Carried
<1> QED
  BY <1>6 DEF Goal

\* The deletion of an object that is still in the table is not lost.
LEMMA DeletionStays ==
    ASSUME PartsAssumption, WaylandTyped, Permanent, IdsFit, W!Next, NEW id,
           Carried(Deletion(id)), failure' = "none", id \in DOMAIN objects'
    PROVE  Carried(Deletion(id))'
<1>1. PICK m : m = Deletion(id)
  OBVIOUS
<1>2. m.id = 1 /\ m.iface = "Display" /\ m.op = "DeleteId" /\ m.new = id
  BY <1>1 DEF Deletion, W!Msg
<1>3. ASSUME NEW p \in W!Procs, task[p] = m, W!Handle(p) PROVE FALSE
  <2>1. W!Is(task[p], "Display", "DeleteId") /\ ~W!Is(task[p], "Callback", "Done") /\ ~W!Is(task[p], "Registry", "Global")
    BY <1>2, <1>3 DEF W!Is
  <2>2. W!HandleDeleteId(p)
    BY <1>3, <2>1 DEF W!Handle, W!HandleDone, W!HandleGlobal, W!Handled
  <2>3. objects' = [i \in DOMAIN objects \ {id} |-> objects[i]]
    BY <1>2, <1>3, <2>2, DeletedIs
  <2> QED
    BY <2>3
<1>4. Carried(m)'
  BY <1>1, <1>2, <1>3, CarriedOn
<1> QED
  BY <1>1, <1>4 DEF Carried, Deletion, W!Msg

\* Every step keeps that a marked object will be deleted.
LEMMA ZombiesStillGo ==
    ASSUME PartsAssumption, WaylandTyped, Permanent, IdsFit, ZombiesGo, W!Next PROVE ZombiesGo'
<1> SUFFICES ASSUME failure' = "none", NEW id \in DOMAIN objects',
                    objects'[id].zombie \/ \E r \in Clients : pc'[r] = "forgetting" /\ own'[r] = id
             PROVE  Carried(Deletion(id))'
  BY DEF ZombiesGo
<1>1. /\ failure = "none" /\ pc \in [W!Procs -> Labels] /\ own \in [Clients -> {0} \union 3..currentID]
      /\ toClient \in Seq(Wires) /\ currentID \in Nat /\ Clients \subseteq W!Procs
  BY WaylandSteps DEF WaylandTyped, TablesTyped, W!Procs
<1>2. ASSUME id \in DOMAIN objects, objects[id].zombie \/ \E r \in Clients : pc[r] = "forgetting" /\ own[r] = id
      PROVE  Carried(Deletion(id))'
  <2>1. Carried(Deletion(id))
    BY <1>1, <1>2 DEF ZombiesGo
  <2> QED
    BY <2>1, DeletionStays
<1>3. ASSUME NEW r \in Clients, Destroys(r), own[r] = id PROVE Carried(Deletion(id))'
  <2>1. PICK t : t.id = own[r] /\ Destroyed(t)
    BY <1>3 DEF Destroys
  <2>2. Emits(W!Answer(t)) /\ t.new = 0 /\ t.id \in Nat
    BY <1>1, <2>1 DEF Destroyed
  <2>3. 1 \in DOMAIN W!Answer(t) /\ W!Answer(t)[1].msg = W!Msg(1, "DeleteId", t.id, "Display")
    BY <2>2, AnswerIs
  <2>4. Len(toClient) + 1 \in DOMAIN toClient' /\ toClient'[Len(toClient) + 1] = W!Answer(t)[1]
    BY <1>1, <2>2, <2>3, EmitsMore
  <2> QED
    BY <1>3, <2>1, <2>3, <2>4 DEF Carried, Deletion, W!Msg
<1>4. ASSUME NEW r \in Clients, pc'[r] = "forgetting", own'[r] = id PROVE Carried(Deletion(id))'
  <2>1. CASE pc[r] = "forgetting" /\ own'[r] = own[r]
    <3>1. id \in DOMAIN objects
      <4>1. Agree
        BY ObjectsAgree
      <4>2. own[r] # 0
        <5>1. WaylandTyped'
          BY WaylandTypes
        <5>2. DOMAIN objects' \subseteq 1..currentID' /\ currentID' \in Nat
          BY <5>1 DEF WaylandTyped, TablesTyped
        <5> QED
          BY <1>4, <2>1, <5>2
      <4> QED
        BY <1>1, <1>4, <2>1, <4>1, <4>2 DEF Agree
    <3> QED
      BY <1>2, <1>4, <2>1, <3>1
  <2>2. CASE pc[r] # "forgetting" \/ own'[r] # own[r]
    <3>1. Acts(r)
      BY <1>1, <1>4, <2>2, OneActs
    <3>2. pc[r] = "idle" /\ own[r] # 0 /\ pc[r] \in Labels
      BY <1>1, <1>4, <3>1, GoesTo DEF Labels, Reading, Writing
    <3>3. W!DestroyWrite(r)
      BY <3>1, <3>2, ActsAt
    <3>4. /\ wlMu = W!Free /\ W!Go(r, "forgetting") /\ UNCHANGED <<currentID, objects, task, own, bound>>
          /\ \E t : t.id = own[r] /\ t.new = 0 /\ (Refused(t) \/ Destroyed(t))
      BY <3>3, Destructions DEF W!Lock
    <3>5. PICK t : t.id = own[r] /\ t.new = 0 /\ (Refused(t) \/ Destroyed(t))
      BY <3>4
    <3>6. Destroyed(t)
      BY <3>5 DEF Refused
    <3>7. Destroys(r) /\ own[r] = id
      BY <1>4, <3>2, <3>4, <3>5, <3>6 DEF Destroys, W!Go
    <3> QED
      BY <1>3, <3>7
  <2> QED
    BY <2>1, <2>2
<1>5. ASSUME objects'[id].zombie PROVE Carried(Deletion(id))'
  <2>1. ASSUME id \in DOMAIN objects, objects'[id] = objects[id] PROVE Carried(Deletion(id))'
    BY <1>2, <1>5, <2>1
  <2>2. CASE objects' = objects
    BY <2>1, <2>2
  <2>3. ASSUME NEW p, Registers(p) PROVE Carried(Deletion(id))'
    <3>1. /\ DOMAIN objects' = DOMAIN objects \union {currentID'}
          /\ \A x \in DOMAIN objects : objects'[x] = objects[x]
          /\ ~objects'[currentID'].zombie
      BY <2>3 DEF Registers, W!Proxy
    <3> QED
      BY <1>5, <2>1, <3>1
  <2>4. ASSUME NEW p \in W!Procs, W!Handle(p), W!HandleDeleteId(p) PROVE Carried(Deletion(id))'
    <3>1. objects' = [x \in DOMAIN objects \ {task[p].new} |-> objects[x]]
      BY <2>4, DeletedIs
    <3> QED
      BY <2>1, <3>1
  <2>5. ASSUME NEW r \in Clients, W!Forget(r) PROVE Carried(Deletion(id))'
    <3>1. /\ pc[r] = "forgetting" /\ DOMAIN objects' \subseteq DOMAIN objects
          /\ \A x \in DOMAIN objects' : x # own[r] => objects'[x] = objects[x]
      BY <2>5, Forgets
    <3>2. CASE id = own[r]
      BY <1>2, <3>1, <3>2
    <3>3. CASE id # own[r]
      BY <2>1, <3>1, <3>3
    <3> QED
      BY <3>2, <3>3
  <2> QED
    BY <2>2, <2>3, <2>4, <2>5, ObjectsChange
<1> QED
  BY <1>4, <1>5
\* A step of a connection that nobody has used too early.
OrderlyStep == WaylandTyped /\ Permanent /\ IdsFit /\ Orderly /\ ~shared /\ ~shared' /\ W!Next

LEMMA SharedStays ==
    ASSUME PartsAssumption, WaylandTyped, IdsFit, W!Next PROVE shared => shared'
<1>1. shared \in BOOLEAN
  BY DEF WaylandTyped, FlagsTyped
<1>2. ASSUME NEW p, W!Uses(p) PROVE shared => shared'
  BY <1>1, <1>2 DEF W!Uses
<1>3. ASSUME shared' = shared PROVE shared => shared'
  BY <1>3
<1>4. CASE W!SyncRegister \/ W!SyncWrite \/ W!SendEvent
  BY <1>3, <1>4 DEF W!SyncRegister, W!SyncWrite, W!SendEvent
<1>5. ASSUME NEW p \in W!Procs, W!ReadHeader(p) \/ W!ReadArguments(p) \/ W!Bind(p) PROVE shared => shared'
  BY <1>2, <1>5 DEF W!ReadHeader, W!ReadArguments, W!Bind
<1>6. ASSUME NEW p \in W!Procs, W!Lookup(p) PROVE shared => shared'
  BY <1>3, <1>6, LookupIs
<1>7. ASSUME NEW p \in W!Procs, W!Handle(p) PROVE shared => shared'
  BY <1>2, <1>3, <1>7 DEF W!Handle, W!HandleDeleteId, W!HandleDone, W!HandleGlobal
<1>8. ASSUME NEW r \in Clients, W!CreateWrite(r) \/ W!CreateRegister(r) \/ W!DestroyWrite(r) PROVE shared => shared'
  BY <1>2, <1>8 DEF W!CreateWrite, W!CreateRegister, W!DestroyWrite
<1>9. ASSUME NEW r \in Clients, W!Forget(r) \/ W!Check(r) PROVE shared => shared'
  BY <1>3, <1>9 DEF W!Forget, W!Check
<1> QED
  BY <1>4, <1>5, <1>6, <1>7, <1>8, <1>9, WaylandSteps

\* Who does not connect only looks at the fields until the connection is ready.
LEMMA TheirTurn ==
    ASSUME PartsAssumption, OrderlyStep, NEW q \in W!Procs, Acts(q)
    PROVE  \/ ready
           \/ q = connector
           \/ pc[q] = "idle" /\ q \in Clients /\ own[q] = 0 /\ W!Check(q)
<1> SUFFICES ASSUME ~ready, q # connector PROVE pc[q] = "idle" /\ q \in Clients /\ own[q] = 0 /\ W!Check(q)
  OBVIOUS
<1>1. pc[q] \in {"idle", "checked", "header"} /\ (q \in Clients => own[q] = 0)
  BY DEF OrderlyStep, Orderly, OneUses
<1>2. ~W!Uses(q)
  BY DEF OrderlyStep, W!Uses
<1>3. ~W!ReadHeader(q) /\ ~W!CreateRegister(q)
  BY <1>2 DEF W!ReadHeader, W!CreateRegister
<1> QED
  BY <1>1, <1>3, ActsAt

\* connectWayland returns once, when its callback has run.
LEMMA ReadyChange ==
    ASSUME PartsAssumption, WaylandTyped, IdsFit, W!Next
    PROVE  \/ ready' = ready
           \/ /\ ~ready /\ ready' /\ done' /\ pc[connector] \in {"lookup", "handle", "bind"}
              /\ pc' = [pc EXCEPT ![connector] = IF connector = Dispatcher THEN "header" ELSE "end"]
<1> DEFINE Goal == \/ ready' = ready
                   \/ /\ ~ready /\ ready' /\ done' /\ pc[connector] \in {"lookup", "handle", "bind"}
                      /\ pc' = [pc EXCEPT ![connector] = IF connector = Dispatcher THEN "header" ELSE "end"]
<1>1. ready \in BOOLEAN /\ connector \in W!Procs
  BY DEF WaylandTyped, FlagsTyped
<1>2. ASSUME NEW p, pc[p] \in {"lookup", "handle", "bind"}, NEW ran, W!Goes(p, ran), ran => done' PROVE Goal
  BY <1>1, <1>2, GoesIs DEF W!Go
<1>3. ASSUME ready' = ready PROVE Goal
  BY <1>3
<1> HIDE DEF Goal
<1>4. ASSUME W!SyncRegister \/ W!SyncWrite \/ W!SendEvent PROVE Goal
  BY <1>3, <1>4 DEF W!SyncRegister, W!SyncWrite, W!SendEvent
<1>5. ASSUME NEW p \in W!Procs, W!ReadHeader(p) \/ W!ReadArguments(p) PROVE Goal
  BY <1>3, <1>5 DEF W!ReadHeader, W!ReadArguments
<1>6. ASSUME NEW p \in W!Procs, W!Lookup(p) PROVE Goal
  <2>1. pc[p] = "lookup" /\ done' = done /\ (W!Goes(p, done) \/ ready' = ready)
    BY <1>6, LookupIs
  <2> QED
    BY <1>2, <1>3, <2>1
<1>7. ASSUME NEW p \in W!Procs, W!Handle(p) PROVE Goal
  <2>1. pc[p] = "handle"
    BY <1>7 DEF W!Handle
  <2>2. \/ W!Goes(p, done) /\ done' = done
        \/ W!Goes(p, TRUE) /\ done' = TRUE
        \/ ready' = ready
    BY <1>7 DEF W!Handle, W!HandleDeleteId, W!HandleDone, W!HandleGlobal, W!ctxVars
  <2>3. CASE W!Goes(p, done) /\ done' = done
    BY <1>2, <2>1, <2>3
  <2>4. CASE W!Goes(p, TRUE) /\ done' = TRUE
    BY <1>1, <2>1, <2>4, GoesIs DEF W!Go, Goal
  <2> QED
    BY <1>3, <2>2, <2>3, <2>4
<1>8. ASSUME NEW p \in W!Procs, W!Bind(p) PROVE Goal
  <2>1. pc[p] = "bind" /\ W!Goes(p, done) /\ done' = done
    BY <1>8 DEF W!Bind, W!ctxVars
  <2> QED
    BY <1>2, <2>1
<1>9. ASSUME NEW r \in Clients, W!CreateWrite(r) \/ W!Forget(r) \/ W!Check(r) \/ W!CreateRegister(r) \/ W!DestroyWrite(r)
      PROVE  Goal
  BY <1>3, <1>9 DEF W!CreateWrite, W!CreateRegister, W!DestroyWrite, W!Forget, W!Check
<1>10. ASSUME NEW p \in W!Procs, W!ReadHeader(p) \/ W!ReadArguments(p) \/ W!Lookup(p) \/ W!Handle(p) \/ W!Bind(p) PROVE Goal
  BY <1>5, <1>6, <1>7, <1>8, <1>10
<1>11. Goal
  BY <1>4, <1>9, <1>10, WaylandSteps
<1> QED
  BY <1>11 DEF Goal

\* The callback runs when its event is handled, a global is bound when its
\* announcement is.
LEMMA FieldsChange ==
    ASSUME PartsAssumption, WaylandTyped, IdsFit, W!Next
    PROVE  /\ \/ done' = done
              \/ \E p \in W!Procs : /\ W!Handle(p) /\ W!HandleDone(p) /\ done' = TRUE /\ bound' = bound
                                    /\ pc[p] = "handle" /\ task[p].iface = "Callback" /\ task' = task
                                    /\ \E l \in {"header", "end"} : pc' = [pc EXCEPT ![p] = l]
           /\ \/ bound' = bound
              \/ \E p \in W!Procs : W!Handle(p) /\ W!HandleGlobal(p)
<1> DEFINE Goal == /\ \/ done' = done
                      \/ \E p \in W!Procs : /\ W!Handle(p) /\ W!HandleDone(p) /\ done' = TRUE /\ bound' = bound
                                            /\ pc[p] = "handle" /\ task[p].iface = "Callback" /\ task' = task
                                            /\ \E l \in {"header", "end"} : pc' = [pc EXCEPT ![p] = l]
                   /\ \/ bound' = bound
                      \/ \E p \in W!Procs : W!Handle(p) /\ W!HandleGlobal(p)
<1>1. ASSUME done' = done, bound' = bound PROVE Goal
  BY <1>1
<1>2. CASE W!SyncRegister \/ W!SyncWrite \/ W!SendEvent
  BY <1>1, <1>2 DEF W!SyncRegister, W!SyncWrite, W!SendEvent, W!ctxVars
<1>3. ASSUME NEW p \in W!Procs, W!ReadHeader(p) \/ W!ReadArguments(p) \/ W!Lookup(p) \/ W!Bind(p) PROVE Goal
  BY <1>1, <1>3 DEF W!ReadHeader, W!ReadArguments, W!Lookup, W!Bind, W!ctxVars
<1>4. ASSUME NEW p \in W!Procs, W!Handle(p) PROVE Goal
  <2>1. CASE W!HandleDone(p)
    <3>1. /\ pc[p] = "handle" /\ task[p].iface = "Callback" /\ task' = task /\ done' = TRUE /\ W!Goes(p, TRUE)
          /\ bound' = bound
      BY <1>4, <2>1 DEF W!Handle, W!HandleDone, W!Is
    <3>2. \E l \in {"header", "end"} : pc' = [pc EXCEPT ![p] = l]
      BY <3>1, GoesIs DEF W!Go
    <3> QED
      BY <1>4, <2>1, <3>1, <3>2
  <2>2. CASE W!HandleGlobal(p)
    BY <1>4, <2>2 DEF W!HandleGlobal
  <2>3. CASE ~W!HandleDone(p) /\ ~W!HandleGlobal(p)
    BY <1>1, <1>4, <2>3 DEF W!Handle, W!HandleDeleteId, W!ctxVars
  <2> QED
    BY <2>1, <2>2, <2>3
<1>5. ASSUME NEW r \in Clients, W!CreateWrite(r) \/ W!CreateRegister(r) \/ W!DestroyWrite(r) \/ W!Forget(r) \/ W!Check(r)
      PROVE  Goal
  BY <1>1, <1>5 DEF W!CreateWrite, W!CreateRegister, W!DestroyWrite, W!Forget, W!Check, W!ctxVars
<1> QED
  BY <1>2, <1>3, <1>4, <1>5, WaylandSteps

\* When connectWayland has returned no announcement is left.
LEMMA AllBound ==
    ASSUME PartsAssumption, WaylandTyped, Orderly, ready, NEW g \in W!Globals PROVE bound[g] # 0
<1>1. done
  BY DEF Orderly, GlobalsFirst
<1>2. PICK k \in DOMAIN Advertised : g = Advertised[k]
  BY ConnectionConstants DEF W!Globals, W!Range
<1>3. ASSUME NEW m, m.iface = "Registry", Carried(m) PROVE FALSE
  BY <1>1, <1>3 DEF Orderly, GlobalsFirst, Carried
<1>4. ~Carried(Announcement(k))
  BY <1>3 DEF Announcement, W!Msg
<1> QED
  BY <1>2, <1>4 DEF Orderly, GlobalsFirst

\* Nothing goes wrong.
LEMMA NothingFails ==
    ASSUME PartsAssumption, OrderlyStep PROVE failure' = "none"
<1>1. /\ failure = "none" /\ PartsAssumption /\ WaylandTyped /\ IdsFit /\ Orderly /\ W!Next
      /\ connector \in W!Procs /\ Clients \subseteq W!Procs
  BY DEF OrderlyStep, Orderly, WaylandTyped, FlagsTyped, W!Procs
<1>2. ASSUME failure' = failure PROVE failure' = "none"
  BY <1>1, <1>2
<1>3. ASSUME NEW p \in W!Procs, pc[p] \in Writing, W!Write(task[p]) PROVE failure' = "none"
  <2>1. pc[p] \in {"synced", "bind", "registered"}
    BY <1>3 DEF Writing
  <2>2. task[p].id \in DOMAIN server
    BY <1>1, <2>1 DEF Orderly, ObjectsThere
  <2>3. granted + 1 = currentID /\ task[p].new = currentID
    BY <1>1, <1>3 DEF Orderly, IdsInSequence
  <2>4. ~Refused(task[p])
    BY <2>2, <2>3 DEF Refused
  <2> QED
    BY <1>1, <1>2, <1>3, <2>4, Writings DEF Granted
<1>4. CASE W!SyncRegister \/ W!SendEvent
  BY <1>2, <1>4 DEF W!SyncRegister, W!SendEvent
<1>5. CASE W!SyncWrite
  <2>1. PICK p : p = connector
    OBVIOUS
  <2>2. p \in W!Procs /\ pc[p] \in Writing /\ W!Write(task[p])
    BY <1>1, <1>5, <2>1 DEF W!SyncWrite, Writing
  <2> QED
    BY <1>3, <2>2
<1>6. ASSUME NEW p \in W!Procs, W!Bind(p) PROVE failure' = "none"
  BY <1>3, <1>6 DEF W!Bind, Writing
<1>7. ASSUME NEW r \in Clients, W!CreateWrite(r) PROVE failure' = "none"
  BY <1>1, <1>3, <1>7 DEF W!CreateWrite, Writing
<1>8. ASSUME NEW p \in W!Procs, W!ReadHeader(p) PROVE failure' = "none"
  <2>1. pc[p] = "header" /\ 1 \in DOMAIN toClient /\ W!Uses(p)
    BY <1>1, <1>8, HeaderRead
  <2>2. p = TheReader
    BY <1>1, <2>1 DEF W!Uses, TheReader, OrderlyStep, Orderly, OneUses
  <2>3. toClient[1].part # "arguments"
    BY <1>1, <2>1, <2>2 DEF Orderly, EventsWhole
  <2> QED
    BY <1>1, <1>2, <1>8, <2>3, HeaderRead
<1>9. ASSUME NEW p \in W!Procs, W!ReadArguments(p) PROVE failure' = "none"
  <2>1. toClient[1].part = "arguments" /\ toClient[1].msg = task[p]
    <3>1. pc[p] = "arguments"
      BY <1>1, <1>9, ArgumentsRead
    <3> QED
      BY <1>1, <3>1 DEF Orderly, EventsWhole
  <2> QED
    BY <1>1, <1>2, <1>9, <2>1, ArgumentsRead
<1>10. ASSUME NEW p \in W!Procs, W!Lookup(p) \/ W!Handle(p) PROVE failure' = "none"
  BY <1>1, <1>2, <1>10, LookupIs DEF W!Handle
<1>11. ASSUME NEW r \in Clients, W!Forget(r) \/ W!Check(r) PROVE failure' = "none"
  BY <1>2, <1>11 DEF W!Forget, W!Check
<1>12. ASSUME NEW r \in Clients, W!DestroyWrite(r) PROVE failure' = "none"
  <2>1. pc[r] = "idle" /\ own[r] # 0 /\ \E t : t.id = own[r] /\ t.new = 0 /\ (Refused(t) \/ Destroyed(t))
    BY <1>1, <1>12, Destructions
  <2>2. own[r] \in DOMAIN server
    BY <1>1, <2>1 DEF Orderly, ObjectsThere
  <2>3. PICK t : t.id = own[r] /\ t.new = 0 /\ (Refused(t) \/ Destroyed(t))
    BY <2>1
  <2>4. ~Refused(t)
    BY <2>2, <2>3 DEF Refused
  <2> QED
    BY <1>1, <2>3, <2>4 DEF Destroyed
<1>13. ASSUME NEW r \in Clients, W!CreateRegister(r) PROVE failure' = "none"
  <2>1. pc[r] = "checked" /\ W!Uses(r)
    BY <1>1, <1>13, CreateRegisters
  <2>2. ready
    <3>1. r = connector \/ ready
      BY <2>1 DEF W!Uses, OrderlyStep
    <3>2. ~ready => pc[connector] # "checked"
      BY <1>1 DEF Orderly, OneUses, Reading
    <3> QED
      BY <2>1, <3>1, <3>2
  <2>3. ~Crashes(r)
    BY <1>1, <2>2, AllBound DEF Crashes
  <2>4. Registers(r)
    BY <1>1, <1>13, <2>3, CreateRegisters
  <2> QED
    BY <1>1, <2>4 DEF Registers
<1> QED
  BY <1>1, <1>4, <1>5, <1>6, <1>7, <1>8, <1>9, <1>10, <1>11, <1>12, <1>13, WaylandSteps

\* One goroutine reads, and only that one uses the connection before ready.
LEMMA OneStillUses ==
    ASSUME PartsAssumption, OrderlyStep PROVE OneUses'
<1>1. /\ failure = "none" /\ PartsAssumption /\ WaylandTyped /\ IdsFit /\ Orderly /\ OneUses /\ W!Next
      /\ connector \in W!Procs /\ ready \in BOOLEAN /\ Clients \subseteq W!Procs /\ connector' = connector
      /\ Dispatcher \in W!Procs
      /\ pc \in [W!Procs -> Labels] /\ own \in [Clients -> {0} \union 3..currentID]
  BY FlagsStay DEF OrderlyStep, Orderly, WaylandTyped, FlagsTyped, TablesTyped, W!Procs
<1>2. ASSUME NEW q \in W!Procs, Acts(q)
      PROVE  ready \/ q = connector \/ (pc[q] = "idle" /\ q \in Clients /\ own[q] = 0 /\ pc'[q] = "checked")
  BY <1>1, <1>2, TheirTurn, GoesTo
<1>3. ASSUME ready PROVE OneUses'
  <2>1. ready' = ready /\ done
    BY <1>1, <1>3, ReadyChange DEF Orderly, GlobalsFirst
  <2>2. ASSUME NEW q \in W!Procs, pc[q] = "handle" PROVE pc'[q] # "bind"
    <3>1. ASSUME W!Handle(q) PROVE ~W!HandleGlobal(q)
      <4>1. task[q].iface # "Registry"
        BY <1>1, <2>1, <2>2 DEF Orderly, GlobalsFirst, Reading
      <4> QED
        BY <4>1 DEF W!HandleGlobal, W!Is
    <3>2. ASSUME NEW ran, W!Goes(q, ran) PROVE pc'[q] # "bind"
      BY <1>1, <3>2, GoesIs DEF W!Go
    <3>3. ASSUME W!Handle(q) PROVE pc'[q] # "bind"
      BY <3>1, <3>2, <3>3 DEF W!Handle, W!HandleDeleteId, W!HandleDone
    <3>4. Acts(q) => W!Handle(q)
      BY <2>2, ActsAt
    <3> QED
      BY <1>1, <2>2, <3>3, <3>4, OneActs
  <2>3. ASSUME NEW q \in W!Procs
        PROVE  /\ pc'[q] \notin {"sync", "synced", "bind"}
               /\ pc'[q] \in Reading => q = Dispatcher
               /\ pc'[q] = "header" => q = Dispatcher
    <3>1. /\ pc[q] \notin {"sync", "synced", "bind"} /\ pc[q] \in Labels
          /\ pc[q] \in Reading => q = Dispatcher
          /\ pc[q] = "header" => q = Dispatcher
      BY <1>1, <1>3 DEF OneUses, TheReader
    <3>2. CASE Acts(q)
      BY <1>1, <2>2, <3>1, <3>2, GoesTo DEF Labels, Reading, Writing
    <3>3. CASE pc'[q] = pc[q]
      BY <3>1, <3>3
    <3> QED
      BY <1>1, <3>2, <3>3, OneActs
  <2> QED
    BY <1>3, <2>1, <2>3 DEF OneUses, TheReader
<1>4. ASSUME ~ready, ready' PROVE OneUses'
  <2>1. pc' = [pc EXCEPT ![connector] = IF connector = Dispatcher THEN "header" ELSE "end"]
    BY <1>1, <1>4, ReadyChange
  <2>2. (pc'[connector] = "header" /\ connector = Dispatcher) \/ pc'[connector] = "end"
    BY <1>1, <2>1
  <2>3. ASSUME NEW q \in W!Procs, q # connector PROVE pc'[q] \in {"idle", "checked", "header"} /\ (pc'[q] = "header" => q = Dispatcher)
    BY <1>1, <1>4, <2>1, <2>3 DEF OneUses
  <2> QED
    BY <1>1, <1>4, <2>2, <2>3 DEF OneUses, Reading
<1>5. ASSUME ~ready, ~ready' PROVE OneUses'
  <2>1. ASSUME NEW q \in W!Procs, q # connector
        PROVE  pc'[q] \in {"idle", "checked", "header"} /\ (pc'[q] = "header" => q = Dispatcher)
    <3>1. pc[q] \in {"idle", "checked", "header"} /\ (pc[q] = "header" => q = Dispatcher)
      BY <1>1, <1>5, <2>1 DEF OneUses
    <3> QED
      BY <1>1, <1>2, <1>5, <2>1, <3>1, OneActs
  <2>2. pc'[connector] \in {"sync", "synced", "header", "bind"} \union Reading
    <3>1. pc[connector] \in {"sync", "synced", "header", "bind"} \union Reading
      BY <1>1, <1>5 DEF OneUses
    <3>2. ASSUME NEW ran, W!Goes(connector, ran) PROVE pc'[connector] = "header"
      BY <1>1, <1>5, <3>2, GoesIs DEF W!Go
    <3>3. PICK c \in W!Procs : c = connector
      BY <1>1
    <3>4. CASE Acts(c)
      <4>1. pc'[c] # "end"
        <5>1. \/ pc[c] = "sync" \/ pc[c] = "synced" \/ pc[c] = "header" \/ pc[c] = "arguments"
              \/ W!Lookup(c) \/ W!Handle(c) \/ W!Bind(c)
          BY <3>1, <3>3, <3>4, ActsAt DEF Reading
        <5>2. CASE W!Lookup(c)
          <6>1. W!Goes(c, done) \/ W!Go(c, "handle")
            BY <1>1, <5>2, LookupIs
          <6> QED
            BY <1>1, <3>2, <3>3, <6>1 DEF W!Go
        <5>3. CASE W!Handle(c)
          BY <1>1, <3>2, <3>3, <5>3 DEF W!Handle, W!HandleDeleteId, W!HandleDone, W!HandleGlobal, W!Go
        <5>4. CASE W!Bind(c)
          BY <3>2, <3>3, <5>4 DEF W!Bind
        <5>5. CASE pc[c] \in {"sync", "synced", "header", "arguments"}
          BY <1>1, <3>4, <5>5, GoesTo
        <5> QED
          BY <5>1, <5>2, <5>3, <5>4, <5>5
      <4>2. pc[c] \in {"sync", "synced", "header", "bind"} \union Reading
        BY <3>1, <3>3
      <4>3. pc'[c] \in {"sync", "synced", "header", "bind"} \union Reading
        BY <1>1, <3>4, <4>1, <4>2, GoesTo DEF Reading
      <4> QED
        BY <3>3, <4>3
    <3>5. CASE pc'[c] = pc[c]
      BY <3>1, <3>3, <3>5
    <3> QED
      BY <1>1, <3>3, <3>4, <3>5, OneActs
  <2>3. ASSUME NEW r \in Clients PROVE own'[r] = 0
    <3>1. own[r] = 0
      BY <1>1, <1>5 DEF OneUses
    <3>2. CASE Acts(r)
      <4>1. ~W!CreateWrite(r) /\ ~W!Forget(r)
        <5>1. pc[r] \notin {"registered", "forgetting"}
          BY <1>1, <1>5 DEF OneUses, Reading
        <5> QED
          BY <5>1 DEF W!CreateWrite, W!Forget
      <4>2. own' = own
        BY <1>1, <3>2, <4>1 DEF Acts, W!SyncRegister, W!SyncWrite, W!ReadHeader, W!ReadArguments, W!Lookup, W!Handle,
                               W!Bind, W!Check, W!CreateRegister, W!DestroyWrite
      <4> QED
        BY <3>1, <4>2
    <3> QED
      BY <1>1, <3>1, <3>2, OneActs
  <2>4. ASSUME NEW q \in W!Procs
        PROVE  /\ pc'[q] \in {"sync", "synced"} => q = connector
               /\ pc'[q] \in Reading \union {"bind"} => q = connector
               /\ pc'[q] = "header" => q = Dispatcher \/ q = connector
    BY <2>1 DEF Reading
  <2> QED
    BY <1>1, <1>5, <2>1, <2>2, <2>3, <2>4 DEF OneUses, TheReader
<1> QED
  BY <1>3, <1>4, <1>5

\* Only the reader reads, and it stays the reader.
LEMMA ReaderReads ==
    ASSUME PartsAssumption, OrderlyStep, NEW p \in W!Procs, W!ReadHeader(p) \/ W!ReadArguments(p)
    PROVE  p = TheReader /\ ready' = ready /\ connector' = connector
<1>1. W!Uses(p) /\ ready' = ready /\ connector' = connector /\ pc[p] \in {"header", "arguments"}
  BY DEF W!ReadHeader, W!ReadArguments
<1> QED
  BY <1>1 DEF W!Uses, OrderlyStep, Orderly, OneUses, TheReader, Reading

\* Events are still read whole.
LEMMA EventsStayWhole ==
    ASSUME PartsAssumption, OrderlyStep PROVE EventsWhole'
<1>1. /\ WaylandTyped /\ IdsFit /\ W!Next /\ OneUses /\ EventsWhole /\ failure' = "none"
      /\ pc \in [W!Procs -> Labels] /\ toClient \in Seq(Wires) /\ Clients \subseteq W!Procs
      /\ connector \in W!Procs /\ connector' = connector /\ TheReader \in W!Procs
  BY NothingFails, FlagsStay DEF OrderlyStep, Orderly, WaylandTyped, FlagsTyped, TablesTyped, TheReader, W!Procs
<1>2. ASSUME NEW p \in W!Procs, W!ReadHeader(p) PROVE EventsWhole'
  <2>1. /\ p = TheReader /\ TheReader' = p /\ pc[p] = "header" /\ 1 \in DOMAIN toClient
        /\ task'[p] = toClient[1].msg
    BY <1>1, <1>2, ReaderReads, HeaderRead DEF TheReader
  <2>2. \A i \in DOMAIN toClient : toClient[i].part # "arguments"
    BY <1>1, <2>1 DEF EventsWhole
  <2>3. \A q \in W!Procs : q # p => pc[q] # "arguments"
    BY <1>1, <2>1 DEF OneUses, Reading
  <2>4. CASE Takes /\ W!Go(p, "lookup")
    <3>1. \A q \in W!Procs : pc'[q] # "arguments"
      BY <1>1, <2>3, <2>4 DEF W!Go
    <3>2. \A i \in DOMAIN toClient' : toClient'[i].part # "arguments"
      BY <2>2, <2>4 DEF Takes
    <3> QED
      BY <3>1, <3>2 DEF EventsWhole
  <2>5. CASE Marks /\ W!Go(p, "arguments")
    <3>1. pc'[p] = "arguments" /\ \A q \in W!Procs : pc'[q] = "arguments" => q = p
      BY <1>1, <2>3, <2>5 DEF W!Go
    <3>2. /\ \A i \in DOMAIN toClient' : toClient'[i].part = "arguments" => i = 1
          /\ 1 \in DOMAIN toClient' /\ toClient'[1].part = "arguments" /\ toClient'[1].msg = task'[p]
      BY <2>1, <2>2, <2>5 DEF Marks
    <3>3. toClient' # << >>
      BY <3>2
    <3> QED
      BY <2>1, <3>1, <3>2, <3>3 DEF EventsWhole
  <2> QED
    BY <1>1, <1>2, <2>4, <2>5, HeaderRead
<1>3. ASSUME NEW p \in W!Procs, W!ReadArguments(p) PROVE EventsWhole'
  <2>1. p = TheReader /\ pc[p] = "arguments" /\ Takes /\ W!Go(p, "lookup")
    BY <1>1, <1>3, ReaderReads, ArgumentsRead
  <2>2. \A q \in W!Procs : pc'[q] # "arguments"
    BY <1>1, <2>1 DEF OneUses, Reading, W!Go
  <2>3. \A i \in DOMAIN toClient' : toClient'[i].part # "arguments"
    <3>1. SUFFICES ASSUME NEW i \in DOMAIN toClient' PROVE toClient'[i].part # "arguments"
      OBVIOUS
    <3>2. i + 1 \in DOMAIN toClient /\ toClient'[i] = toClient[i + 1] /\ i \in 1..(Len(toClient) - 1)
      BY <2>1 DEF Takes
    <3> QED
      BY <1>1, <3>2 DEF EventsWhole
  <2> QED
    BY <2>2, <2>3 DEF EventsWhole
<1>4. ASSUME NEW q \in Seq(Wires), \A i \in DOMAIN q : q[i].part = "header", toClient' = toClient \o q,
             \A p \in W!Procs : ~W!ReadHeader(p) /\ ~W!ReadArguments(p)
      PROVE  EventsWhole'
  <2>1. ASSUME NEW p \in W!Procs
        PROVE  /\ pc[p] = "arguments" => pc'[p] = "arguments"
               /\ pc'[p] = "arguments" => pc[p] = "arguments" /\ task'[p] = task[p]
    <3>1. CASE Acts(p)
      <4>1. pc[p] \notin {"header", "arguments"}
        BY <1>4, <3>1, ActsAt
      <4>2. pc'[p] # "arguments"
        BY <1>1, <3>1, <4>1, GoesTo DEF Labels, Reading, Writing
      <4> QED
        BY <4>1, <4>2
    <3>2. CASE pc'[p] = pc[p] /\ task'[p] = task[p]
      BY <3>2
    <3> QED
      BY <1>1, <3>1, <3>2, OneActs
  <2>2. /\ DOMAIN toClient = 1..Len(toClient) /\ DOMAIN q = 1..Len(q) /\ Len(toClient) \in Nat /\ Len(q) \in Nat
        /\ DOMAIN toClient' = 1..(Len(toClient) + Len(q))
        /\ \A i \in 1..Len(toClient) : toClient'[i] = toClient[i]
        /\ \A i \in 1..Len(q) : toClient'[Len(toClient) + i] = q[i]
    BY <1>1, <1>4, Joined
  <2>3. ASSUME NEW i \in DOMAIN toClient', toClient'[i].part = "arguments"
        PROVE  i = 1 /\ pc'[TheReader'] = "arguments"
    <3>1. CASE i \in DOMAIN toClient
      <4>1. toClient[i].part = "arguments"
        BY <2>2, <2>3, <3>1
      <4>2. i = 1 /\ pc[TheReader] = "arguments"
        BY <1>1, <3>1, <4>1 DEF EventsWhole
      <4>3. ready' = ready
        <5>1. ~ready => pc[connector] = "arguments"
          BY <4>2 DEF TheReader
        <5> QED
          BY <1>1, <5>1, ReadyChange
      <4>4. TheReader' = TheReader
        BY <1>1, <4>3 DEF TheReader
      <4> QED
        BY <1>1, <2>1, <4>2, <4>4
    <3>2. CASE i \notin DOMAIN toClient
      <4>1. i - Len(toClient) \in 1..Len(q) /\ Len(toClient) + (i - Len(toClient)) = i
        BY <2>2, <3>2
      <4>2. toClient'[i] = q[i - Len(toClient)]
        BY <2>2, <4>1
      <4> QED
        BY <1>4, <2>2, <2>3, <4>1, <4>2
    <3> QED
      BY <3>1, <3>2
  <2>4. ASSUME NEW p \in W!Procs, pc'[p] = "arguments"
        PROVE  toClient' # << >> /\ toClient'[1].part = "arguments" /\ toClient'[1].msg = task'[p]
    <3>1. toClient # << >> /\ toClient[1].part = "arguments" /\ toClient[1].msg = task'[p]
      BY <1>1, <2>1, <2>4 DEF EventsWhole
    <3>2. 1 \in DOMAIN toClient
      BY <1>1, <3>1
    <3>3. 1 \in DOMAIN toClient' /\ toClient'[1] = toClient[1]
      BY <2>2, <3>2
    <3>4. toClient' # << >>
      BY <3>3
    <3> QED
      BY <3>1, <3>3, <3>4
  <2> QED
    BY <2>3, <2>4 DEF EventsWhole
<1>5. ASSUME NEW q, Emits(q), \A p \in W!Procs : ~W!ReadHeader(p) /\ ~W!ReadArguments(p) PROVE EventsWhole'
  BY <1>4, <1>5 DEF Emits
<1>6. ASSUME toClient' = toClient, \A p \in W!Procs : ~W!ReadHeader(p) /\ ~W!ReadArguments(p) PROVE EventsWhole'
  <2>1. << >> \in Seq(Wires) /\ DOMAIN << >> = {} /\ toClient' = toClient \o << >>
    BY <1>1, <1>6
  <2> QED
    BY <1>4, <1>6, <2>1
<1>7. ASSUME NEW p \in W!Procs, Written(p), \A q \in W!Procs : ~W!ReadHeader(q) /\ ~W!ReadArguments(q) PROVE EventsWhole'
  BY <1>5, <1>7 DEF Written, Granted
<1>8. ASSUME NEW r \in Clients, Destroys(r), \A q \in W!Procs : ~W!ReadHeader(q) /\ ~W!ReadArguments(q) PROVE EventsWhole'
  BY <1>5, <1>8 DEF Destroys, Destroyed
<1>9. ASSUME W!SendEvent, \A q \in W!Procs : ~W!ReadHeader(q) /\ ~W!ReadArguments(q) PROVE EventsWhole'
  <2>1. \E q : Emits(q)
    BY <1>1, <1>9, EmissionIs
  <2> QED
    BY <1>5, <1>9, <2>1
<1> QED
  BY <1>1, <1>2, <1>3, <1>6, <1>7, <1>8, <1>9, NetChange

\* Who has registered an object writes it before the next is registered.
LEMMA NobodyWrites ==
    ASSUME PartsAssumption, OrderlyStep, NEW p, Registers(p)
    PROVE  \A q \in W!Procs : pc[q] \notin Writing
<1>1. /\ WaylandTyped /\ IdsFit /\ W!Next /\ OneUses /\ GlobalsFirst /\ connector \in W!Procs /\ p \in W!Procs
      /\ pc[p] \in {"sync", "handle", "checked"}
  BY DEF OrderlyStep, Orderly, WaylandTyped, FlagsTyped, Registers
<1>2. CASE ~ready
  <2>1. Acts(p) \/ pc'[p] = pc[p]
    BY <1>1, OneActs
  <2>2. Acts(p)
    BY <1>1, <2>1 DEF Registers
  <2>3. p = connector
    BY <1>1, <1>2, <2>2, TheirTurn
  <2>4. ASSUME NEW q \in W!Procs PROVE pc[q] \notin Writing
    <3>1. CASE q = connector
      BY <1>1, <2>3, <3>1 DEF Writing
    <3>2. CASE q # connector
      BY <1>1, <1>2, <3>2 DEF OneUses, Writing
    <3> QED
      BY <3>1, <3>2
  <2> QED
    BY <2>4
<1>3. CASE ready
  <2>1. \A q \in W!Procs : pc[q] \in Writing => pc[q] = "registered" /\ wlMu = q /\ q \in Clients
    BY <1>1, <1>3 DEF OneUses, Writing, WaylandTyped, TablesTyped
  <2>2. wlMu = W!Free
    <3>1. Acts(p)
      BY <1>1, OneActs DEF Registers
    <3>2. pc[p] # "sync"
      BY <1>1, <1>3 DEF OneUses
    <3>3. pc[p] # "handle"
      <4>1. SUFFICES ASSUME pc[p] = "handle" PROVE FALSE
        OBVIOUS
      <4>2. W!Handle(p) /\ pc'[p] = "bind"
        BY <1>1, <3>1, <4>1, ActsAt DEF Registers
      <4>3. task[p].iface # "Registry"
        BY <1>1, <1>3, <4>1 DEF GlobalsFirst, Reading
      <4>4. currentID' = currentID
        BY <4>2, <4>3 DEF W!Handle, W!HandleDeleteId, W!HandleDone, W!HandleGlobal, W!Is, W!ctxVars
      <4> QED
        BY <1>1, <4>4 DEF Registers, WaylandTyped, TablesTyped
    <3>4. W!CreateRegister(p)
      BY <1>1, <3>1, <3>2, <3>3, ActsAt
    <3> QED
      BY <3>4 DEF W!CreateRegister, W!Lock
  <2> QED
    BY <2>1, <2>2, ConnectionConstants
<1> QED
  BY <1>1, <1>2, <1>3 DEF WaylandTyped, FlagsTyped

\* What is about to be written is written at its next step.
LEMMA WritesNext ==
    ASSUME PartsAssumption, OrderlyStep, NEW q \in W!Procs, pc[q] \in Writing
    PROVE  (pc'[q] = pc[q] /\ task'[q] = task[q]) \/ Written(q)
<1>1. /\ WaylandTyped /\ IdsFit /\ W!Next /\ failure = "none" /\ failure' = "none"
      /\ connector \in W!Procs /\ pc \in [W!Procs -> Labels]
  BY NothingFails DEF OrderlyStep, Orderly, WaylandTyped, FlagsTyped, TablesTyped
<1>2. ASSUME W!Write(task[q]), NEW l \in {"header", "idle", "end"}, W!Go(q, l), UNCHANGED <<currentID, objects, task>>
      PROVE  Written(q)
  <2>1. Granted(task[q])
    BY <1>1, <1>2, Writings DEF Refused
  <2> QED
    BY <1>2, <2>1 DEF Written, W!Go
<1>3. CASE q = connector /\ W!SyncWrite
  <2>1. W!Write(task[q]) /\ W!Go(q, "header") /\ UNCHANGED <<currentID, objects, task>>
    BY <1>3 DEF W!SyncWrite, W!ctxVars, W!Go
  <2> QED
    BY <1>2, <2>1
<1>4. CASE W!Bind(q)
  <2>1. W!Write(task[q]) /\ W!Goes(q, done) /\ UNCHANGED <<currentID, objects, task>>
    BY <1>4 DEF W!Bind, W!ctxVars
  <2>2. \E l \in {"header", "end"} : W!Go(q, l)
    BY <2>1, GoesIs
  <2> QED
    BY <1>2, <2>1, <2>2
<1>5. CASE W!CreateWrite(q)
  <2>1. W!Write(task[q]) /\ W!Go(q, "idle") /\ UNCHANGED <<currentID, objects, task>>
    BY <1>5 DEF W!CreateWrite, W!ctxVars
  <2> QED
    BY <1>2, <2>1
<1>6. Acts(q) => (q = connector /\ W!SyncWrite) \/ W!Bind(q) \/ W!CreateWrite(q)
  BY ActsAt DEF Writing
<1> QED
  BY <1>1, <1>3, <1>4, <1>5, <1>6, OneActs

\* Ids are still in sequence.
LEMMA IdsStayInSequence ==
    ASSUME PartsAssumption, OrderlyStep PROVE IdsInSequence'
<1>1. /\ WaylandTyped /\ IdsFit /\ W!Next /\ IdsInSequence /\ pc \in [W!Procs -> Labels]
      /\ currentID \in Nat /\ granted \in Nat /\ Clients \subseteq W!Procs
  BY DEF OrderlyStep, Orderly, WaylandTyped, TablesTyped, W!Procs
<1>2. ASSUME NEW p \in W!Procs, Registers(p) PROVE IdsInSequence'
  <2>1. \A q \in W!Procs : pc[q] \notin Writing
    BY <1>2, NobodyWrites
  <2>2. granted = currentID
    BY <1>1, <2>1 DEF IdsInSequence
  <2>3. granted' + 1 = currentID' /\ task'[p].new = currentID'
    BY <1>2, <2>2 DEF Registers
  <2>4. pc'[p] \in Writing /\ \A q \in W!Procs : q # p => pc'[q] = pc[q]
    BY <1>1, <1>2 DEF Registers, Writing
  <2> QED
    BY <2>1, <2>3, <2>4 DEF IdsInSequence
<1>3. ASSUME NEW p \in W!Procs, Written(p) PROVE IdsInSequence'
  <2>1. task[p].new = currentID /\ \A q \in W!Procs : pc[q] \in Writing => q = p
    BY <1>1, <1>3 DEF IdsInSequence, Written
  <2>2. granted' = currentID' /\ \E l \in {"header", "idle", "end"} : pc' = [pc EXCEPT ![p] = l]
    BY <1>3, <2>1 DEF Written, Granted
  <2>3. \A q \in W!Procs : pc'[q] \notin Writing
    BY <1>1, <2>1, <2>2 DEF Writing
  <2> QED
    BY <2>2, <2>3 DEF IdsInSequence
<1>4. ASSUME \A p \in W!Procs : ~Registers(p) /\ ~Written(p) PROVE IdsInSequence'
  <2>1. granted' = granted
    BY <1>1, <1>4, NetChange, EmissionIs DEF Destroys, Destroyed
  <2>2. currentID' = currentID
    <3>1. ASSUME NEW p \in W!Procs, W!Handle(p), W!HandleDeleteId(p) PROVE currentID' = currentID
      BY <1>1, <3>1, DeletedIs
    <3>2. ASSUME NEW r \in Clients, W!Forget(r) PROVE currentID' = currentID
      BY <1>1, <3>2, Forgets
    <3> QED
      BY <1>1, <1>4, <3>1, <3>2, ObjectsChange
  <2>3. ASSUME NEW q \in W!Procs PROVE pc'[q] \in Writing => pc[q] \in Writing /\ task'[q] = task[q]
    BY <1>1, <1>4, TasksChange
  <2>4. ASSUME NEW q \in W!Procs PROVE pc[q] \in Writing => pc'[q] \in Writing
    BY <1>1, <1>4, WritesNext
  <2> QED
    BY <1>1, <2>1, <2>2, <2>3, <2>4 DEF IdsInSequence
<1> QED
  BY <1>2, <1>3, <1>4

\* The compositor keeps an object until the request that owns it destroys it.
LEMMA ServerKeeps ==
    ASSUME PartsAssumption, OrderlyStep, NEW id \in DOMAIN server, id \notin DOMAIN server'
    PROVE  \E r \in Clients : Destroys(r) /\ own[r] = id
<1>1. WaylandTyped /\ IdsFit /\ W!Next
  BY DEF OrderlyStep
<1>2. ASSUME NEW p \in W!Procs, Written(p) PROVE FALSE
  BY <1>2 DEF Written, Granted
<1>3. ~W!SendEvent
  BY <1>1, EmissionIs
<1>4. PICK r \in Clients : Destroys(r)
  BY <1>1, <1>2, <1>3, NetChange
<1>5. own[r] = id
  <2>1. PICK t : t.id = own[r] /\ Destroyed(t)
    BY <1>4 DEF Destroys
  <2> QED
    BY <2>1 DEF Destroyed
<1> QED
  BY <1>4, <1>5

\* What a request owns changes when it has written or forgets.
LEMMA OwnChange ==
    ASSUME PartsAssumption, OrderlyStep, NEW r \in Clients
    PROVE  \/ own'[r] = own[r]
           \/ own'[r] = 0
           \/ pc[r] = "registered" /\ Written(r) /\ own' = [own EXCEPT ![r] = task[r].new]
<1>1. /\ WaylandTyped /\ IdsFit /\ W!Next /\ r \in W!Procs /\ own \in [Clients -> {0} \union 3..currentID]
  BY DEF OrderlyStep, WaylandTyped, TablesTyped, W!Procs
<1>2. CASE W!CreateWrite(r)
  <2>1. pc[r] = "registered" /\ W!Go(r, "idle") /\ own' = [own EXCEPT ![r] = task[r].new] /\ pc \in [W!Procs -> Labels]
    BY <1>1, <1>2 DEF W!CreateWrite, WaylandTyped, TablesTyped
  <2>2. pc[r] \in Writing /\ pc'[r] # pc[r]
    BY <1>1, <2>1 DEF Writing, W!Go
  <2> QED
    BY <1>1, <2>1, <2>2, WritesNext
<1>3. CASE W!Forget(r)
  BY <1>1, <1>3, Forgets
<1>4. CASE Acts(r) /\ ~W!CreateWrite(r) /\ ~W!Forget(r)
  BY <1>1, <1>4 DEF Acts, W!SyncRegister, W!SyncWrite, W!ReadHeader, W!ReadArguments, W!Lookup, W!Handle,
                    W!Bind, W!Check, W!CreateRegister, W!DestroyWrite
<1> QED
  BY <1>1, <1>2, <1>3, <1>4, OneActs

\* A new object is in nobody's table of the compositor yet.
LEMMA NewIsNew ==
    ASSUME PartsAssumption, OrderlyStep, NEW p \in W!Procs, pc[p] \in Writing
    PROVE  /\ task[p].new = currentID /\ currentID \notin DOMAIN server /\ currentID # 0 /\ currentID >= 3
           /\ \A q \in W!Procs : pc[q] \in Writing => q = p
<1>1. /\ granted + 1 = currentID /\ task[p].new = currentID
      /\ \A q \in W!Procs : pc[q] \in Writing => q = p
  BY DEF OrderlyStep, Orderly, IdsInSequence
<1>2. DOMAIN server \subseteq 1..granted /\ granted \in Nat /\ currentID \in 2..MaxId /\ MaxId \in Nat
  BY ConnectionConstants DEF OrderlyStep, WaylandTyped, TablesTyped
<1>3. {1, 2} \subseteq DOMAIN server
  BY DEF OrderlyStep, Orderly, ObjectsThere
<1>4. 2 \in 1..granted
  BY <1>2, <1>3
<1> QED
  BY <1>1, <1>2, <1>4

\* Requests stay for objects the compositor has.
LEMMA ObjectsStayThere ==
    ASSUME PartsAssumption, OrderlyStep PROVE ObjectsThere'
<1>1. /\ WaylandTyped /\ IdsFit /\ W!Next /\ ObjectsThere /\ OneUses /\ pc \in [W!Procs -> Labels]
      /\ currentID \in 2..MaxId /\ MaxId \in Nat /\ Clients \subseteq W!Procs
      /\ own \in [Clients -> {0} \union 3..currentID] /\ bound \in [W!Globals -> 0..currentID]
      /\ toClient \in Seq(Wires)
  BY ConnectionConstants DEF OrderlyStep, Orderly, WaylandTyped, TablesTyped, W!Procs
<1>2. ASSUME NEW p \in W!Procs, Written(p), task[p].iface # "Callback" PROVE task[p].new \in DOMAIN server'
  BY <1>2 DEF Written, Granted
<1>3. ASSUME NEW r \in Clients, Destroys(r)
      PROVE  /\ pc[r] = "idle" /\ pc' = [pc EXCEPT ![r] = "forgetting"] /\ wlMu = W!Free /\ own' = own /\ bound' = bound
             /\ task' = task /\ own[r] # 0
  BY <1>3 DEF Destroys
<1>4. {1, 2} \subseteq DOMAIN server'
  <2>1. SUFFICES ASSUME NEW id \in {1, 2} PROVE id \in DOMAIN server'
    OBVIOUS
  <2>2. id \in DOMAIN server /\ \A r \in Clients : own[r] # id
    BY <1>1 DEF ObjectsThere
  <2> QED
    BY <2>2, ServerKeeps
<1>5. ASSUME NEW g \in W!Globals
      PROVE  \/ bound'[g] = bound[g]
             \/ \E p \in W!Procs : /\ Registers(p) /\ bound'[g] = currentID' /\ pc'[p] = "bind" /\ task'[p].new = currentID'
                                   /\ \A h \in W!Globals : bound'[h] = bound[h] \/ bound'[h] = currentID'
  <2>1. CASE bound' = bound
    BY <2>1
  <2>2. ASSUME NEW p \in W!Procs, W!Handle(p), W!HandleGlobal(p)
        PROVE  \/ bound'[g] = bound[g]
               \/ \E q \in W!Procs : /\ Registers(q) /\ bound'[g] = currentID' /\ pc'[q] = "bind" /\ task'[q].new = currentID'
                                     /\ \A h \in W!Globals : bound'[h] = bound[h] \/ bound'[h] = currentID'
    <3>1. /\ Registers(p) /\ pc[p] = "handle" /\ bound' = [bound EXCEPT ![Advertised[task[p].new]] = currentID']
      BY <1>1, <2>2, GlobalRegisters
    <3>2. pc'[p] = "bind" /\ task'[p].new = currentID'
      BY <3>1 DEF Registers
    <3> QED
      BY <1>1, <3>1, <3>2
  <2> QED
    BY <1>1, <2>1, <2>2, FieldsChange
<1>6. ASSUME NEW g \in W!Globals, bound'[g] # 0
      PROVE  bound'[g] \in DOMAIN server' \/ \E p \in W!Procs : pc'[p] = "bind" /\ task'[p].new = bound'[g]
  <2>1. CASE bound'[g] = bound[g] /\ bound[g] \in DOMAIN server
    <3>1. \A r \in Clients : own[r] # bound[g]
      BY <1>1, <1>6, <2>1 DEF ObjectsThere
    <3> QED
      BY <2>1, <3>1, ServerKeeps
  <2>2. ASSUME bound'[g] = bound[g], NEW p \in W!Procs, pc[p] = "bind", task[p].new = bound[g]
        PROVE  bound'[g] \in DOMAIN server' \/ \E q \in W!Procs : pc'[q] = "bind" /\ task'[q].new = bound'[g]
    <3>1. (pc'[p] = pc[p] /\ task'[p] = task[p]) \/ Written(p)
      BY <2>2, WritesNext DEF Writing
    <3>2. task[p].iface # "Callback"
      BY <1>1, <2>2 DEF ObjectsThere
    <3> QED
      BY <1>2, <2>2, <3>1, <3>2
  <2> QED
    BY <1>1, <1>5, <1>6, <2>1, <2>2 DEF ObjectsThere
<1>7. ASSUME NEW g \in W!Globals PROVE bound'[g] \in {0} \union 3..currentID'
  <2>1. bound[g] \in {0} \union 3..currentID /\ currentID' \in Nat /\ currentID' >= currentID
    BY <1>1, ObjectsAgree DEF ObjectsThere, Agree
  <2>2. ASSUME NEW p, Registers(p) PROVE currentID' >= 3
    BY <1>1, <2>2 DEF Registers
  <2> QED
    BY <1>1, <1>5, <2>1, <2>2
<1>8. ASSUME NEW r \in Clients, own'[r] # 0, pc'[r] # "forgetting" PROVE own'[r] \in DOMAIN server'
  <2>1. CASE own'[r] = own[r]
    <3>1. pc[r] # "forgetting"
      <4>1. SUFFICES ASSUME pc[r] = "forgetting" PROVE FALSE
        OBVIOUS
      <4>2. Acts(r)
        BY <1>1, <1>8, <4>1, OneActs
      <4>3. own'[r] = 0
        BY <1>1, <4>1, <4>2, ActsAt, Forgets
      <4> QED
        BY <1>8, <4>3
    <3>2. own[r] \in DOMAIN server
      BY <1>1, <1>8, <2>1, <3>1 DEF ObjectsThere
    <3>3. ASSUME NEW s \in Clients, Destroys(s), own[s] = own[r] PROVE FALSE
      <4>1. s = r
        BY <1>1, <1>8, <2>1, <3>3 DEF ObjectsThere
      <4> QED
        BY <1>1, <1>3, <1>8, <3>3, <4>1
    <3> QED
      BY <2>1, <3>2, <3>3, ServerKeeps
  <2>2. CASE pc[r] = "registered" /\ Written(r) /\ own' = [own EXCEPT ![r] = task[r].new]
    <3>1. task[r].iface # "Callback"
      BY <1>1, <2>2 DEF ObjectsThere
    <3> QED
      BY <1>1, <1>2, <2>2, <3>1
  <2> QED
    BY <1>8, <2>1, <2>2, OwnChange
<1>9. ASSUME NEW r \in Clients, NEW s \in Clients, r # s, pc[r] = "registered", own[s] # 0 PROVE own[s] # task[r].new
  <2>1. task[r].new = currentID /\ currentID \notin DOMAIN server
    BY <1>1, <1>9, NewIsNew DEF Writing
  <2>2. wlMu = r
    BY <1>1, <1>9 DEF WaylandTyped, TablesTyped
  <2>3. pc[s] # "forgetting"
    BY <1>1, <1>9, <2>2 DEF WaylandTyped, TablesTyped
  <2>4. own[s] \in DOMAIN server
    BY <1>1, <1>9, <2>3 DEF ObjectsThere
  <2> QED
    BY <2>1, <2>4
<1>10. ASSUME NEW r \in Clients, NEW s \in Clients, own'[r] = own'[s], own'[r] # 0 PROVE r = s
  <2>1. SUFFICES ASSUME r # s PROVE FALSE
    OBVIOUS
  <2>2. ASSUME NEW x \in Clients, NEW y \in Clients, x # y, pc[x] = "registered", own' = [own EXCEPT ![x] = task[x].new],
               own'[x] = own'[y], own'[x] # 0
        PROVE  FALSE
    <3>1. own'[y] = own[y] /\ own'[x] = task[x].new
      BY <1>1, <2>2
    <3> QED
      BY <1>9, <2>2, <3>1
  <2>3. ~(own'[r] = own[r] /\ own'[s] = own[s])
    BY <1>1, <1>10, <2>1 DEF ObjectsThere
  <2> QED
    BY <1>10, <2>1, <2>2, <2>3, OwnChange
<1>11. ASSUME NEW r \in Clients, NEW g \in W!Globals, own'[r] # 0 PROVE own'[r] # bound'[g]
  <2>1. CASE own'[r] = own[r] /\ bound'[g] = bound[g]
    BY <1>1, <1>11, <2>1 DEF ObjectsThere
  <2>2. ASSUME NEW p, Registers(p), bound'[g] = currentID' PROVE own'[r] # bound'[g]
    <3>1. own' = own /\ currentID' = currentID + 1
      BY <2>2 DEF Registers
    <3> QED
      BY <1>1, <2>2, <3>1
  <2>3. CASE pc[r] = "registered" /\ Written(r) /\ own' = [own EXCEPT ![r] = task[r].new] /\ bound'[g] = bound[g]
    <3>1. task[r].new = currentID /\ currentID \notin DOMAIN server /\ currentID # 0 /\ \A q \in W!Procs : pc[q] \in Writing => q = r
      BY <1>1, <2>3, NewIsNew DEF Writing
    <3>2. \A p \in W!Procs : pc[p] # "bind"
      BY <2>3, <3>1 DEF Writing
    <3>3. bound[g] # currentID
      BY <1>1, <3>1, <3>2 DEF ObjectsThere
    <3>4. own'[r] = currentID
      BY <1>1, <2>3, <3>1
    <3> QED
      BY <2>3, <3>3, <3>4
  <2> QED
    BY <1>5, <1>11, <2>1, <2>2, <2>3, OwnChange
<1>12. ASSUME NEW p \in W!Procs
       PROVE  /\ pc'[p] = "synced" => task'[p].id = 1
              /\ pc'[p] = "bind" => task'[p].id = 2
              /\ pc'[p] = "registered" => task'[p].id \in DOMAIN server'
              /\ pc'[p] \in {"bind", "registered"} => task'[p].iface # "Callback"
  <2>1. ASSUME pc'[p] = pc[p], task'[p] = task[p], pc[p] = "registered" PROVE task'[p].id \in DOMAIN server'
    <3>1. task[p].id \in DOMAIN server /\ p \in Clients /\ wlMu = p
      BY <1>1, <2>1 DEF ObjectsThere, WaylandTyped, TablesTyped
    <3>2. ~\E r \in Clients : Destroys(r)
      BY <1>3, <3>1, ConnectionConstants
    <3> QED
      BY <2>1, <3>1, <3>2, ServerKeeps
  <2>2. CASE pc'[p] = pc[p] /\ task'[p] = task[p]
    BY <1>1, <2>1, <2>2 DEF ObjectsThere
  <2>3. CASE Registers(p)
    <3>1. pc'[p] # pc[p]
      BY <2>3 DEF Registers
    <3>2. Acts(p)
      BY <1>1, <3>1, OneActs
    <3>3. CASE pc[p] = "sync"
      <4>1. p = connector /\ W!SyncRegister
        BY <3>2, <3>3, ActsAt
      <4>2. task'[p].id = 1
        BY <1>1, <4>1, SyncRegisters
      <4> QED
        BY <2>3, <3>3, <4>2 DEF Registers
    <3>4. CASE pc[p] = "handle"
      <4>1. W!Handle(p) /\ pc'[p] = "bind"
        BY <2>3, <3>2, <3>4, ActsAt DEF Registers
      <4>2. W!HandleGlobal(p)
        <5>1. currentID' = currentID + 1
          BY <2>3 DEF Registers
        <5>2. currentID' # currentID
          BY <1>1, <5>1
        <5> QED
          BY <4>1, <5>2 DEF W!Handle, W!HandleDeleteId, W!HandleDone, W!ctxVars
      <4>3. task'[p].id = 2 /\ task'[p].iface \in W!Globals
        BY <1>1, <4>1, <4>2, GlobalRegisters
      <4> QED
        BY <4>1, <4>3, ConnectionConstants
    <3>5. CASE pc[p] = "checked"
      <4>1. W!CreateRegister(p) /\ p \in Clients
        BY <3>2, <3>5, ActsAt
      <4>2. ~Crashes(p)
        BY <3>1 DEF Crashes
      <4>3. task'[p].iface \in Created /\ \E g \in W!Globals : bound[g] # 0 /\ task'[p].id = bound[g]
        BY <1>1, <4>1, <4>2, CreateRegisters
      <4>4. task'[p].id \in DOMAIN server
        BY <1>1, <2>3, <4>3, NobodyWrites DEF ObjectsThere, Writing
      <4>5. server' = server /\ pc'[p] = "registered"
        BY <2>3, <3>5 DEF Registers
      <4> QED
        BY <4>3, <4>4, <4>5, ConnectionConstants
    <3> QED
      BY <2>3, <3>3, <3>4, <3>5 DEF Registers
  <2>4. pc'[p] \notin Writing => pc'[p] \notin {"synced", "bind", "registered"}
    BY DEF Writing
  <2> QED
    BY <1>1, <2>2, <2>3, <2>4, TasksChange
<1> QED
  BY <1>4, <1>6, <1>7, <1>8, <1>10, <1>11, <1>12 DEF ObjectsThere

\* The events keep their order, and no announcement is added.
LEMMA EventsMove ==
    ASSUME PartsAssumption, WaylandTyped, IdsFit, W!Next
    PROVE  \E d \in {0, 1} : \A i \in DOMAIN toClient' :
             /\ i \in Nat
             /\ \/ i + d \in DOMAIN toClient /\ toClient'[i].msg = toClient[i + d].msg
                \/ \A j \in DOMAIN toClient' : j >= i => toClient'[j].msg.iface # "Registry"
<1> DEFINE Moved(d) == \A i \in DOMAIN toClient' :
                         /\ i \in Nat
                         /\ \/ i + d \in DOMAIN toClient /\ toClient'[i].msg = toClient[i + d].msg
                            \/ \A j \in DOMAIN toClient' : j >= i => toClient'[j].msg.iface # "Registry"
<1>1. toClient \in Seq(Wires)
  BY DEF WaylandTyped, TablesTyped
<1>2. ASSUME toClient' = toClient PROVE Moved(0)
  BY <1>1, <1>2
<1>3. ASSUME NEW q, Emits(q) PROVE Moved(0)
  <2>1. /\ DOMAIN toClient = 1..Len(toClient) /\ Len(toClient) \in Nat
        /\ DOMAIN toClient' = 1..(Len(toClient) + Len(q)) /\ Len(q) \in Nat
        /\ \A i \in DOMAIN toClient : i \in DOMAIN toClient' /\ toClient'[i] = toClient[i]
        /\ \A i \in DOMAIN toClient' : \/ i \in DOMAIN toClient /\ toClient'[i] = toClient[i]
                                       \/ /\ i > Len(toClient)
                                          /\ i - Len(toClient) \in DOMAIN q
                                          /\ toClient'[i] = q[i - Len(toClient)]
    BY <1>1, <1>3, EmitsMore
  <2>2. ASSUME NEW j \in DOMAIN toClient', j \notin DOMAIN toClient PROVE toClient'[j].msg.iface # "Registry"
    BY <1>3, <2>1, <2>2 DEF Emits
  <2>3. ASSUME NEW i \in DOMAIN toClient', i \notin DOMAIN toClient, NEW j \in DOMAIN toClient', j >= i
        PROVE  toClient'[j].msg.iface # "Registry"
    <3>1. j \notin DOMAIN toClient
      BY <2>1, <2>3
    <3> QED
      BY <2>2, <3>1
  <2>4. ASSUME NEW i \in DOMAIN toClient' PROVE i \in Nat /\ i + 0 = i
    BY <2>1
  <2> QED
    BY <2>1, <2>3, <2>4
<1>4. ASSUME Takes PROVE Moved(1)
  BY <1>4 DEF Takes
<1>5. ASSUME Marks PROVE Moved(0)
  BY <1>1, <1>5 DEF Marks
<1>6. ASSUME NEW p \in W!Procs, W!ReadHeader(p) \/ W!ReadArguments(p) PROVE Takes \/ Marks
  BY <1>6, HeaderRead, ArgumentsRead
<1>7. ASSUME NEW p \in W!Procs, Written(p) PROVE \E q : Emits(q)
  BY <1>7 DEF Written, Granted
<1>8. ASSUME NEW r \in Clients, Destroys(r) PROVE \E q : Emits(q)
  BY <1>8 DEF Destroys, Destroyed
<1>9. ASSUME W!SendEvent PROVE \E q : Emits(q)
  BY <1>9, EmissionIs
<1> HIDE DEF Moved
<1>10. Moved(0) \/ Moved(1)
  BY <1>2, <1>3, <1>4, <1>5, <1>6, <1>7, <1>8, <1>9, NetChange
<1>11. \E d \in {0, 1} : Moved(d)
  BY <1>10
<1> QED
  BY <1>11 DEF Moved

\* Globals are still announced and bound first.
LEMMA GlobalsStayFirst ==
    ASSUME PartsAssumption, OrderlyStep PROVE GlobalsFirst'
<1>1. /\ WaylandTyped /\ Permanent /\ IdsFit /\ W!Next /\ GlobalsFirst /\ OneUses /\ failure' = "none"
      /\ pc \in [W!Procs -> Labels] /\ toClient \in Seq(Wires) /\ bound \in [W!Globals -> 0..currentID]
      /\ currentID \in 2..MaxId /\ MaxId \in Nat /\ DOMAIN task = W!Procs
      /\ done \in BOOLEAN /\ ready \in BOOLEAN
  BY ConnectionConstants, NothingFails DEF OrderlyStep, Orderly, WaylandTyped, FlagsTyped, TablesTyped
<1>2. PICK d \in {0, 1} : \A i \in DOMAIN toClient' :
        /\ i \in Nat
        /\ \/ i + d \in DOMAIN toClient /\ toClient'[i].msg = toClient[i + d].msg
           \/ \A j \in DOMAIN toClient' : j >= i => toClient'[j].msg.iface # "Registry"
  BY <1>1, EventsMove
<1>3. ASSUME NEW p \in W!Procs, W!Handle(p), W!HandleGlobal(p)
      PROVE  /\ task[p].new \in DOMAIN Advertised /\ Advertised[task[p].new] \in W!Globals
             /\ bound' = [bound EXCEPT ![Advertised[task[p].new]] = currentID'] /\ currentID' # 0
  <2>1. /\ Registers(p) /\ task[p].new \in DOMAIN Advertised /\ Advertised[task[p].new] \in W!Globals
        /\ bound' = [bound EXCEPT ![Advertised[task[p].new]] = currentID']
    BY <1>1, <1>3, GlobalRegisters
  <2>2. currentID' # 0
    BY <1>1, <2>1 DEF Registers
  <2> QED
    BY <2>1, <2>2
<1>4. ASSUME NEW k \in DOMAIN Advertised PROVE bound'[Advertised[k]] # 0 \/ Carried(Announcement(k))'
  <2>1. Advertised[k] \in W!Globals
    BY ConnectionConstants
  <2>2. CASE bound[Advertised[k]] # 0
    BY <1>1, <1>3, <2>1, <2>2, FieldsChange
  <2>3. CASE Carried(Announcement(k))
    <3>1. PICK m : m = Announcement(k)
      OBVIOUS
    <3>2. m.id = 2 /\ m.iface = "Registry" /\ m.op = "Global" /\ m.new = k
      BY <3>1 DEF Announcement, W!Msg
    <3>3. ASSUME NEW p \in W!Procs, task[p] = m, W!Handle(p) PROVE bound'[Advertised[k]] # 0
      <4>1. W!Is(task[p], "Registry", "Global") /\ ~W!Is(task[p], "Display", "DeleteId") /\ ~W!Is(task[p], "Callback", "Done")
        BY <3>2, <3>3 DEF W!Is
      <4>2. W!HandleGlobal(p)
        BY <3>3, <4>1 DEF W!Handle, W!HandleDeleteId, W!HandleDone, W!Handled
      <4> QED
        BY <1>1, <1>3, <3>2, <3>3, <4>2
    <3>4. Carried(m)' \/ bound'[Advertised[k]] # 0
      BY <1>1, <2>3, <3>1, <3>2, <3>3, CarriedOn
    <3> QED
      BY <3>1, <3>4 DEF Carried, Announcement, W!Msg
  <2> QED
    BY <1>1, <2>2, <2>3 DEF GlobalsFirst
<1>5. ASSUME NEW i \in DOMAIN toClient', NEW j \in DOMAIN toClient', i < j, toClient'[i].msg.iface = "Callback"
      PROVE  toClient'[j].msg.iface # "Registry"
  <2>1. /\ i \in Nat /\ j \in Nat /\ i + d \in Nat /\ j + d \in Nat /\ i + d < j + d /\ j >= i /\ j >= j
    BY <1>2, <1>5
  <2>2. CASE /\ i + d \in DOMAIN toClient /\ toClient'[i].msg = toClient[i + d].msg
             /\ j + d \in DOMAIN toClient /\ toClient'[j].msg = toClient[j + d].msg
    BY <1>1, <1>5, <2>1, <2>2 DEF GlobalsFirst
  <2> QED
    BY <1>2, <2>1, <2>2
<1>6. ASSUME \A i \in DOMAIN toClient : toClient[i].msg.iface # "Registry", NEW i \in DOMAIN toClient'
      PROVE  toClient'[i].msg.iface # "Registry"
  <2>1. i \in Nat /\ i >= i
    BY <1>2
  <2> QED
    BY <1>2, <1>6, <2>1
<1>7. ASSUME done', NEW i \in DOMAIN toClient' PROVE toClient'[i].msg.iface # "Registry"
  <2>1. done \/ \E p \in W!Procs : pc[p] \in Reading /\ task[p].iface = "Callback"
    BY <1>1, <1>7, FieldsChange DEF Reading
  <2> QED
    BY <1>1, <1>6, <2>1 DEF GlobalsFirst
<1>8. ASSUME NEW p \in W!Procs, pc'[p] \in Reading, task'[p].iface = "Callback", NEW i \in DOMAIN toClient'
      PROVE  toClient'[i].msg.iface # "Registry"
  <2>1. CASE pc[p] \in Reading /\ task'[p] = task[p]
    BY <1>1, <1>6, <1>8, <2>1 DEF GlobalsFirst
  <2>2. CASE W!ReadHeader(p)
    <3>1. /\ 1 \in DOMAIN toClient /\ task'[p] = toClient[1].msg /\ (Takes \/ Marks)
          /\ DOMAIN toClient = 1..Len(toClient) /\ Len(toClient) \in Nat
      BY <1>1, <2>2, HeaderRead
    <3>2. toClient[1].msg.iface = "Callback"
      BY <1>8, <3>1
    <3>3. ASSUME NEW j \in DOMAIN toClient, 1 < j PROVE toClient[j].msg.iface # "Registry"
      BY <1>1, <3>1, <3>2, <3>3 DEF GlobalsFirst
    <3>4. \A j \in DOMAIN toClient : toClient[j].msg.iface # "Registry"
      <4>1. SUFFICES ASSUME NEW j \in DOMAIN toClient PROVE toClient[j].msg.iface # "Registry"
        OBVIOUS
      <4>2. j = 1 \/ 1 < j
        BY <3>1
      <4> QED
        BY <3>2, <3>3, <4>2
    <3> QED
      BY <1>6, <3>4
  <2> QED
    BY <1>1, <1>8, <2>1, <2>2, TasksChange
<1>9. ASSUME done', NEW p \in W!Procs, pc'[p] \in Reading PROVE task'[p].iface # "Registry"
  <2>1. CASE done
    <3>1. CASE pc[p] \in Reading /\ task'[p] = task[p]
      BY <1>1, <2>1, <3>1 DEF GlobalsFirst
    <3>2. CASE W!ReadHeader(p)
      <4>1. 1 \in DOMAIN toClient /\ task'[p] = toClient[1].msg
        BY <1>1, <3>2, HeaderRead
      <4> QED
        BY <1>1, <2>1, <4>1 DEF GlobalsFirst
    <3> QED
      BY <1>1, <1>9, <3>1, <3>2, TasksChange
  <2>2. ASSUME NEW q \in W!Procs, pc[q] = "handle", task[q].iface = "Callback", task' = task,
               NEW l \in {"header", "end"}, pc' = [pc EXCEPT ![q] = l]
        PROVE  task'[p].iface # "Registry"
    <3>1. p # q /\ pc[p] \in Reading
      BY <1>1, <1>9, <2>2 DEF Reading
    <3>2. p = TheReader /\ q = TheReader
      BY <1>1, <2>2, <3>1 DEF OneUses, Reading
    <3> QED
      BY <3>1, <3>2
  <2> QED
    BY <1>1, <1>9, <2>1, <2>2, FieldsChange
<1>10. ready' => done'
  BY <1>1, ReadyChange, FieldsChange DEF GlobalsFirst
<1> QED
  BY <1>4, <1>5, <1>7, <1>8, <1>9, <1>10 DEF GlobalsFirst

\* The invariant of the connection is kept, and holds when it begins.
LEMMA WaylandStays ==
    ASSUME PartsAssumption, WaylandInv, W!Next PROVE WaylandInv'
<1>1. WaylandTyped /\ Permanent /\ IdsFit /\ ZombiesGo /\ (shared \/ Orderly)
  BY DEF WaylandInv
<1>2. WaylandTyped' /\ Permanent' /\ IdsFit' /\ ZombiesGo'
  BY <1>1, WaylandTypes, PermanentStays, IdsStayFit, ZombiesStillGo
<1>3. ASSUME ~shared' PROVE Orderly'
  <2>1. OrderlyStep
    BY <1>1, <1>3, SharedStays DEF OrderlyStep
  <2> QED
    BY <2>1, NothingFails, OneStillUses, EventsStayWhole, IdsStayInSequence, ObjectsStayThere, GlobalsStayFirst
       DEF Orderly
<1> QED
  BY <1>2, <1>3 DEF WaylandInv

LEMMA WaylandStarts ==
    ASSUME PartsAssumption, W!Init PROVE WaylandInv
<1>1. /\ connector \in W!Procs /\ ready = FALSE /\ currentID = 2 /\ done = FALSE /\ shared = FALSE /\ failure = "none"
      /\ bound = [g \in W!Globals |-> 0] /\ wlMu = W!Free /\ own = [r \in Clients |-> 0] /\ granted = 2
      /\ objects = <<W!Proxy("Display"), W!Proxy("Registry")>> /\ server = <<"Display", "Registry">>
      /\ toClient = [g \in DOMAIN Advertised |-> W!Message(2, "Registry", "Global", g)]
      /\ DOMAIN task = W!Procs
  BY DEF W!Init
<1>2. /\ pc \in [W!Procs -> {"sync", "header", "checked", "idle"}] /\ pc[connector] = "sync"
      /\ \A p \in W!Procs : p # connector => pc[p] \in {"header", "checked", "idle"} /\ (pc[p] = "header" => p = Dispatcher)
  <2>1. PICK ch \in SUBSET Clients :
          pc = [p \in W!Procs |-> CASE p = connector  -> "sync"
                                    [] p # connector /\ p = Dispatcher -> "header"
                                    [] p # connector /\ p \in ch -> "checked"
                                    [] OTHER -> "idle"]
    BY DEF W!Init
  <2>2. ASSUME NEW p \in W!Procs
        PROVE  /\ p = connector => pc[p] = "sync"
               /\ p # connector => pc[p] \in {"header", "checked", "idle"}
               /\ p # connector /\ pc[p] = "header" => p = Dispatcher
    <3>1. CASE p = connector
      BY <2>1, <3>1
    <3>2. CASE p # connector /\ p = Dispatcher
      BY <2>1, <3>2
    <3>3. CASE p # connector /\ p # Dispatcher /\ p \in ch
      BY <2>1, <3>3
    <3>4. CASE p # connector /\ p # Dispatcher /\ p \notin ch
      BY <2>1, <3>4
    <3> QED
      BY <3>1, <3>2, <3>3, <3>4
  <2>3. DOMAIN pc = W!Procs /\ pc = [p \in W!Procs |-> pc[p]]
    BY <2>1
  <2> QED
    BY <1>1, <2>2, <2>3
<1>3. DOMAIN objects = {1, 2} /\ DOMAIN server = {1, 2}
  BY <1>1
<1>4. objects[1] = W!Proxy("Display") /\ objects[2] = W!Proxy("Registry") /\ server[1] = "Display" /\ server[2] = "Registry"
  BY <1>1
<1>5. Advertised \in Seq(W!Bindable) /\ Len(Advertised) \in Nat /\ DOMAIN Advertised = 1..Len(Advertised)
  BY ConnectionConstants
<1>6. ASSUME NEW g \in DOMAIN Advertised
      PROVE  /\ W!Message(2, "Registry", "Global", g) \in Wires
             /\ W!Message(2, "Registry", "Global", g).part = "header"
             /\ W!Message(2, "Registry", "Global", g).msg = Announcement(g)
  <2>1. g \in Nat /\ "Registry" \in Ifaces /\ "Global" \in EventNames
    BY <1>5 DEF Ifaces, EventNames
  <2> QED
    BY <2>1, MessageIs DEF Announcement
<1>7. /\ DOMAIN toClient = DOMAIN Advertised
      /\ \A i \in DOMAIN toClient : toClient[i] \in Wires /\ toClient[i].part = "header" /\ toClient[i].msg = Announcement(i)
  BY <1>1, <1>6
<1>8. toClient \in Seq(Wires)
  BY <1>1, <1>5, <1>6
<1>9. WaylandTyped
  <2>1. FlagsTyped
    BY <1>1 DEF FlagsTyped
  <2>2. /\ currentID \in 2..MaxId /\ granted \in Nat
        /\ DOMAIN objects \subseteq 1..currentID /\ DOMAIN server \subseteq 1..currentID /\ DOMAIN server \subseteq 1..granted
        /\ bound \in [W!Globals -> 0..currentID] /\ own \in [Clients -> {0} \union 3..currentID]
        /\ wlMu \in Clients \union {W!Free}
    BY <1>1, <1>3, ConnectionConstants
  <2>3. \A id \in DOMAIN objects : objects[id] \in [iface : Ifaces, zombie : BOOLEAN]
    <3>1. "Display" \in Ifaces /\ "Registry" \in Ifaces
      BY DEF Ifaces
    <3>2. ASSUME NEW i \in Ifaces PROVE W!Proxy(i) \in [iface : Ifaces, zombie : BOOLEAN]
      BY DEF W!Proxy
    <3> QED
      BY <1>3, <1>4, <3>1, <3>2
  <2>4. pc \in [W!Procs -> Labels]
    BY <1>2 DEF Labels
  <2>5. \A p \in W!Procs : pc[p] \in {"registered", "forgetting"} => p \in Clients /\ wlMu = p
    BY <1>2
  <2> QED
    BY <1>1, <1>8, <2>1, <2>2, <2>3, <2>4, <2>5 DEF WaylandTyped, TablesTyped
<1>10. Permanent
  BY <1>3, <1>4 DEF Permanent
<1>11. \A p \in W!Procs : pc[p] \notin Reading /\ pc[p] \notin Writing
  BY <1>2 DEF Reading, Writing
<1>12. IdsFit
  <2>1. \A id \in DOMAIN server : /\ id \in DOMAIN objects => objects[id].iface = server[id]
                                  /\ id > 2 => server[id] \in W!Bindable \union Created
    BY <1>3, <1>4 DEF W!Proxy
  <2>2. ASSUME NEW i \in DOMAIN Advertised PROVE EventFits(Announcement(i))
    <3>1. PICK m : m = Announcement(i)
      OBVIOUS
    <3>2. m.id = 2 /\ m.iface = "Registry" /\ m.op = "Global" /\ m.new = i
      BY <3>1 DEF Announcement, W!Msg
    <3>3. EventFits(m)
      BY <1>1, <1>3, <1>4, <3>2, TheyHaveEvents DEF EventFits, W!Proxy
    <3> QED
      BY <3>1, <3>3
  <2> QED
    BY <1>7, <1>11, <2>1, <2>2 DEF IdsFit
<1>13. ZombiesGo
  <2>1. \A r \in Clients : pc[r] # "forgetting"
    BY <1>2 DEF W!Procs
  <2>2. \A id \in DOMAIN objects : ~objects[id].zombie
    BY <1>3, <1>4 DEF W!Proxy
  <2> QED
    BY <2>1, <2>2 DEF ZombiesGo
<1>14. OneUses
  BY <1>1, <1>2, <1>11 DEF OneUses, TheReader
<1>15. EventsWhole
  BY <1>2, <1>7 DEF EventsWhole
<1>16. IdsInSequence
  BY <1>1, <1>11 DEF IdsInSequence
<1>17. ObjectsThere
  BY <1>1, <1>2, <1>3 DEF ObjectsThere
<1>18. GlobalsFirst
  <2>1. ASSUME NEW k \in DOMAIN Advertised PROVE Carried(Announcement(k))
    BY <1>7, <2>1 DEF Carried
  <2>2. ASSUME NEW i \in DOMAIN toClient PROVE toClient[i].msg.iface = "Registry"
    <3>1. toClient[i].msg = Announcement(i)
      BY <1>7
    <3> QED
      BY <3>1 DEF Announcement, W!Msg
  <2> QED
    BY <1>1, <1>11, <2>1, <2>2 DEF GlobalsFirst
<1> QED
  BY <1>1, <1>9, <1>10, <1>12, <1>13, <1>14, <1>15, <1>16, <1>17, <1>18 DEF WaylandInv, Orderly

\* The invariant is about the variables of the connection only.
LEMMA WaylandRests ==
    ASSUME WaylandInv, UNCHANGED W!vars PROVE WaylandInv'
<1>1. UNCHANGED <<connector, ready, currentID, objects, bound, done, wlMu, pc, task, own, toClient, server, granted,
                  failure, shared>>
  BY DEF W!vars, W!ctxVars, W!netVars
<1>2. WaylandTyped => WaylandTyped'
  BY <1>1 DEF WaylandTyped, FlagsTyped, TablesTyped
<1>3. Permanent => Permanent'
  BY <1>1 DEF Permanent
<1>4. \A m : EventFits(m) => EventFits(m)'
  BY <1>1 DEF EventFits
<1>5. \A m : Carried(m) => Carried(m)'
  BY <1>1 DEF Carried
<1>6. IdsFit => IdsFit'
  BY <1>1, <1>4 DEF IdsFit
<1>7. ZombiesGo => ZombiesGo'
  <2>1. ASSUME NEW id, Carried(Deletion(id)) PROVE Carried(Deletion(id))'
    BY <1>1, <2>1 DEF Carried, Deletion, W!Msg
  <2> QED
    BY <1>1, <2>1 DEF ZombiesGo
<1>8. OneUses => OneUses'
  BY <1>1 DEF OneUses, TheReader
<1>9. EventsWhole => EventsWhole'
  BY <1>1 DEF EventsWhole, TheReader
<1>10. IdsInSequence => IdsInSequence'
  BY <1>1 DEF IdsInSequence
<1>11. ObjectsThere => ObjectsThere'
  BY <1>1 DEF ObjectsThere
<1>12. GlobalsFirst => GlobalsFirst'
  <2>1. ASSUME NEW k, Carried(Announcement(k)) PROVE Carried(Announcement(k))'
    BY <1>1, <2>1 DEF Carried, Announcement, W!Msg
  <2> QED
    BY <1>1, <2>1 DEF GlobalsFirst
<1> QED
  BY <1>1, <1>2, <1>3, <1>6, <1>7, <1>8, <1>9, <1>10, <1>11, <1>12 DEF WaylandInv, Orderly

\* What the properties of the connection follow from.
THEOREM ConnectionHolds == Spec => [](part = "wayland" => WaylandInv)
<1> DEFINE Inv == part = "wayland" => WaylandInv
<1>1. Init => Inv
  BY PartsAssumption, WaylandStarts DEF Init
<1>2. Inv /\ [Next]_allVars => Inv'
  <2>1. ASSUME WaylandInv, [W!Next]_(W!vars) PROVE WaylandInv'
    BY <2>1, PartsAssumption, WaylandStays, WaylandRests
  <2> QED
    BY <2>1, OnePartSteps
<1> QED
  BY <1>1, <1>2, PTL DEF Spec

\* For any goroutines, globals, created interfaces and numbers of ids and
\* events: no request is refused, no event torn and no nil proxy used unless
\* another goroutine has used the connection before connectWayland was done.
THEOREM EarlyUseAlone == Spec => []OnlyEarlyUseFails
<1>1. (part = "wayland" => WaylandInv) => OnlyEarlyUseFails
  BY DEF OnlyEarlyUseFails, W!OnlyEarlyUseFails, WaylandInv, Orderly
<1> QED
  BY <1>1, ConnectionHolds, PTL

\* In the same generality, and even when the connection is used too early, an
\* event is decoded by a proxy of the interface it was sent for.
THEOREM EventsFindTheirProxies == Spec => []NothingMisread
<1>1. (part = "wayland" => WaylandInv) => NothingMisread
  <2>1. SUFFICES ASSUME WaylandInv, NEW p \in W!Procs, pc[p] = "lookup", W!Live(task[p].id)
                 PROVE  objects[task[p].id].iface = task[p].iface
    BY DEF NothingMisread, W!NothingMisread
  <2>2. EventFits(task[p])
    BY <2>1 DEF WaylandInv, IdsFit, Reading
  <2> QED
    BY <2>1, <2>2 DEF EventFits, W!Live
<1> QED
  BY <1>1, ConnectionHolds, PTL

\* In the same generality, a proxy that is only marked when it is destroyed
\* has its deletion on the way until it has left the table.
THEOREM ZombiesAreDeleted == Spec => []ZombiesLeave
<1>1. (part = "wayland" => WaylandInv) => ZombiesLeave
  <2>1. SUFFICES ASSUME WaylandInv, W!Quiet, NEW id \in DOMAIN objects, objects[id].zombie PROVE FALSE
    BY DEF ZombiesLeave, W!ZombiesLeave
  <2>2. Carried(Deletion(id))
    BY <2>1 DEF WaylandInv, ZombiesGo, W!Quiet
  <2>3. DOMAIN toClient = {}
    BY <2>1 DEF W!Quiet
  <2> QED
    BY <2>1, <2>2, <2>3 DEF Carried, Reading, W!Quiet
<1> QED
  BY <1>1, ConnectionHolds, PTL

----------------------------------------------------------------------------
(* The types of all parts. *)

\* The interfaces on the wire are known to the client.
LEMMA InterfacesAreKnown == ASSUME PartsAssumption PROVE Ifaces \subseteq DOMAIN W!RequestsOf
<1>1. {"Display", "Registry", "Callback"} \union W!Bindable \subseteq DOMAIN W!RequestsOf
  BY DEF W!Bindable, W!RequestsOf
<1> QED
  BY <1>1 DEF PartsAssumption, W!ObjectsAssumption, Ifaces

LEMMA ConnectionIsTyped == ASSUME PartsAssumption, WaylandInv PROVE W!TypeOK
<1>1. FlagsTyped /\ TablesTyped
  BY DEF WaylandInv, WaylandTyped
<1>2. \A id \in DOMAIN objects : objects[id].iface \in DOMAIN W!RequestsOf
  BY <1>1, InterfacesAreKnown DEF TablesTyped
<1>3. own \in [Clients -> 0..currentID]
  BY <1>1 DEF TablesTyped
<1> QED
  BY <1>1, <1>2, <1>3 DEF TablesTyped, W!TypeOK

\* For any values of the constants, if loading and watching follow the same
\* imports: the variables of every part have their types in every state.
THEOREM EveryPartIsTyped == ASSUME F!LoadsWhatItWatches PROVE Spec => []PartsTypeOK
<1>1. /\ part = "wayland" => WaylandInv
      /\ part = "brightness" => BrightnessInv
      /\ part = "monitor" => MonitorInv
      /\ part = "requests" => RequestsInv
      /\ part = "watcher" => WatcherInv
      => PartsTypeOK
  BY PartsAssumption, ConnectionIsTyped, PartsAreTyped DEF PartsTypeOK
<1> QED
  BY <1>1, ConnectionHolds, BrightnessHolds, MonitorHolds, RequestsAlways, WatcherHolds, PTL
============================================================================
