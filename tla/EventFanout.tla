---------------------------- MODULE EventFanout ----------------------------
(***************************************************************************)
(* The event fan-out of pkg/server/server.go: the goroutines that          *)
(* broadcast notifications (watchEvents, the idle-monitor callbacks, the   *)
(* brightness requests), the clients map behind clientsMu, one bounded     *)
(* queue and one writeLoop goroutine per System.Subscribe call, and the    *)
(* connection handlers that register and unregister them.                  *)
(*                                                                         *)
(* A notification carries a dump of the server's cached state.  The cache  *)
(* is abstracted to its version: the number of compositor events applied   *)
(* to it.  A dump is the version that was read.  clientsMu is held for     *)
(* reading by every broadcaster whose bpc is "send"; the sections that     *)
(* hold it for writing are single actions guarded by ~ReadLocked.  snap,   *)
(* dump and hand go back to 0 when the code can no longer read them.       *)
(***************************************************************************)
EXTENDS Naturals, Sequences, FiniteSets

CONSTANTS
    Conns,       \* accepted client connections
    Watcher,     \* the watchEvents goroutine
    Others,      \* goroutines that broadcast without changing the cache
    Cap,         \* eventClientQueueSize
    MaxSubs,     \* bound: System.Subscribe calls per connection
    MaxVersion,  \* bound: compositor events
    MaxNotices   \* bound: broadcasts started by Others

ASSUME ConstantsAssumption ==
    /\ Watcher \notin Others
    /\ Cap \in Nat \ {0}
    /\ MaxSubs \in Nat /\ MaxVersion \in Nat /\ MaxNotices \in Nat

VARIABLES
    version,   \* version of the state cache
    notices,   \* broadcasts started by Others so far
    bpc,       \* broadcaster: "idle", "notify" (in broadcastEvent), "send" (RLock held)
    snap,      \* broadcaster: version in the notification being sent
    targets,   \* broadcaster: clients the range loop has still to visit
    hpc,       \* connection handler: what handleConnection does next
    current,   \* connection: index of its registered channel in clients, 0 = none
    subs,      \* connection: channels made so far
    dump,      \* connection: version in the State.Dump being sent
    peer,      \* connection: the client's end is open
    queue,     \* channel: content of ec.out
    closed,    \* channel: close(ec.out) was called
    writer,    \* channel: state of its writeLoop goroutine
    hand,      \* channel: notification writeLoop took and has not written
    dropped,   \* channel: a broadcast found the queue full
    accepted,  \* history, channel: everything put on the queue
    received   \* history, channel: everything written to the socket

bvars  == <<notices, bpc, snap, targets>>
hvars  == <<hpc, current, subs, dump, peer>>
chvars == <<queue, closed, writer, hand, dropped, accepted, received>>
vars   == <<version, bvars, hvars, chvars>>

Broadcasters == {Watcher} \cup Others
Channels     == Conns \X (1..MaxSubs)
Versions     == 0..MaxVersion

Registered == {c \in Conns : current[c] # 0}
Channel(c) == <<c, current[c]>>
ReadLocked == \E b \in Broadcasters : bpc[b] = "send"

TypeOK ==
    /\ version \in Versions
    /\ notices \in 0..MaxNotices
    /\ bpc \in [Broadcasters -> {"idle", "notify", "send"}]
    /\ snap \in [Broadcasters -> Versions]
    /\ targets \in [Broadcasters -> SUBSET Conns]
    /\ hpc \in [Conns -> {"open", "dump", "send", "gone"}]
    /\ current \in [Conns -> 0..MaxSubs]
    /\ subs \in [Conns -> 0..MaxSubs]
    /\ dump \in [Conns -> Versions]
    /\ peer \in [Conns -> BOOLEAN]
    /\ queue \in [Channels -> Seq(Versions)]
    /\ \A ch \in Channels : Len(queue[ch]) <= Cap
    /\ closed \in [Channels -> BOOLEAN]
    /\ writer \in [Channels -> {"none", "receive", "write", "done"}]
    /\ hand \in [Channels -> Versions]
    /\ dropped \in [Channels -> BOOLEAN]
    /\ accepted \in [Channels -> Seq(Versions)]
    /\ received \in [Channels -> Seq(Versions)]

Init ==
    /\ version = 0
    /\ notices = 0
    /\ bpc = [b \in Broadcasters |-> "idle"]
    /\ snap = [b \in Broadcasters |-> 0]
    /\ targets = [b \in Broadcasters |-> {}]
    /\ hpc = [c \in Conns |-> "open"]
    /\ current = [c \in Conns |-> 0]
    /\ subs = [c \in Conns |-> 0]
    /\ dump = [c \in Conns |-> 0]
    /\ peer = [c \in Conns |-> TRUE]
    /\ queue = [ch \in Channels |-> <<>>]
    /\ closed = [ch \in Channels |-> FALSE]
    /\ writer = [ch \in Channels |-> "none"]
    /\ hand = [ch \in Channels |-> 0]
    /\ dropped = [ch \in Channels |-> FALSE]
    /\ accepted = [ch \in Channels |-> <<>>]
    /\ received = [ch \in Channels |-> <<>>]

----------------------------------------------------------------------------
(* Broadcasters *)

\* watchEvents takes one event from the compositor's channel, brings the
\* cache up to date and calls broadcastEvent.
WatcherEvent ==
    /\ bpc[Watcher] = "idle"
    /\ version < MaxVersion
    /\ version' = version + 1
    /\ bpc' = [bpc EXCEPT ![Watcher] = "notify"]
    /\ UNCHANGED <<notices, snap, targets, hvars, chvars>>

\* The window-created event without a window, MangoWC's list of all clients:
\* the cache is refreshed and nothing is broadcast.
WatcherRefresh ==
    /\ bpc[Watcher] = "idle"
    /\ version < MaxVersion
    /\ version' = version + 1
    /\ UNCHANGED <<bvars, hvars, chvars>>

\* handleIdleMonitorChanged or broadcastBrightnessChange calls
\* broadcastEvent; neither touches the cache.
Notice(b) ==
    /\ bpc[b] = "idle"
    /\ notices < MaxNotices
    /\ notices' = notices + 1
    /\ bpc' = [bpc EXCEPT ![b] = "notify"]
    /\ UNCHANGED <<version, snap, targets, hvars, chvars>>

\* Mutant of BroadcastBegin: an update is taken to be covered by a broadcast
\* that is under way already.
BroadcastBeginCoalesced(b) ==
    /\ bpc[b] = "notify"
    /\ IF Registered = {} \/ ReadLocked
       THEN /\ bpc' = [bpc EXCEPT ![b] = "idle"]
            /\ UNCHANGED <<snap, targets>>
       ELSE /\ bpc' = [bpc EXCEPT ![b] = "send"]
            /\ snap' = [snap EXCEPT ![b] = version]
            /\ targets' = [targets EXCEPT ![b] = Registered]
    /\ UNCHANGED <<version, notices, hvars, chvars>>

\* broadcastEvent takes clientsMu for reading; with no client it returns,
\* otherwise it reads the cache and starts to range over the clients.
BroadcastBegin(b) ==
    /\ bpc[b] = "notify"
    /\ IF Registered = {}
       THEN /\ bpc' = [bpc EXCEPT ![b] = "idle"]
            /\ UNCHANGED <<snap, targets>>
       ELSE /\ bpc' = [bpc EXCEPT ![b] = "send"]
            /\ snap' = [snap EXCEPT ![b] = version]
            /\ targets' = [targets EXCEPT ![b] = Registered]
    /\ UNCHANGED <<version, notices, hvars, chvars>>

\* One iteration of the range loop, a send that never blocks; after the last
\* client the deferred RUnlock.
BroadcastSend(b, c) ==
    LET ch == Channel(c)
        over == targets[b] = {c} IN
    /\ bpc[b] = "send"
    /\ c \in targets[b]
    /\ targets' = [targets EXCEPT ![b] = @ \ {c}]
    /\ bpc' = IF over THEN [bpc EXCEPT ![b] = "idle"] ELSE bpc
    /\ snap' = IF over THEN [snap EXCEPT ![b] = 0] ELSE snap
    /\ IF Len(queue[ch]) < Cap
       THEN /\ queue' = [queue EXCEPT ![ch] = Append(@, snap[b])]
            /\ accepted' = [accepted EXCEPT ![ch] = Append(@, snap[b])]
            /\ UNCHANGED dropped
       ELSE /\ dropped' = [dropped EXCEPT ![ch] = TRUE]
            /\ UNCHANGED <<queue, accepted>>
    /\ UNCHANGED <<version, notices, hvars, closed, writer, hand, received>>

----------------------------------------------------------------------------
(* Connection handlers *)

\* System.Subscribe, the section under clientsMu.Lock: close the channel of
\* an earlier subscription of this connection, register a fresh one; then
\* start its writeLoop.  A request the client sent before it closed its end
\* is still read.
Subscribe(c) ==
    LET old == Channel(c)
        new == <<c, subs[c] + 1>> IN
    /\ hpc[c] = "open"
    /\ subs[c] < MaxSubs
    /\ ~ReadLocked
    /\ closed' = IF current[c] # 0 THEN [closed EXCEPT ![old] = TRUE] ELSE closed
    /\ subs' = [subs EXCEPT ![c] = @ + 1]
    /\ current' = [current EXCEPT ![c] = subs[c] + 1]
    /\ writer' = [writer EXCEPT ![new] = "receive"]
    /\ hpc' = [hpc EXCEPT ![c] = "dump"]
    /\ UNCHANGED <<version, bvars, dump, peer, queue, hand, dropped, accepted,
                   received>>

\* System.Subscribe builds the State.Dump from the cache, without the lock.
BuildDump(c) ==
    /\ hpc[c] = "dump"
    /\ dump' = [dump EXCEPT ![c] = version]
    /\ hpc' = [hpc EXCEPT ![c] = "send"]
    /\ UNCHANGED <<version, bvars, current, subs, peer, chvars>>

\* Mutant of SendDump: the send does not wait for room on the queue.
SendDumpUnbounded(c) ==
    /\ hpc[c] = "send"
    /\ queue' = [queue EXCEPT ![Channel(c)] = Append(@, dump[c])]
    /\ accepted' = [accepted EXCEPT ![Channel(c)] = Append(@, dump[c])]
    /\ hpc' = [hpc EXCEPT ![c] = "open"]
    /\ dump' = [dump EXCEPT ![c] = 0]
    /\ UNCHANGED <<version, bvars, current, subs, peer, closed, writer,
                   hand, dropped, received>>

\* ec.out <- data: blocks while the queue is full.  The response then goes to
\* the socket directly, its error is ignored and the handler reads on.
SendDump(c) ==
    LET ch == Channel(c) IN
    /\ hpc[c] = "send"
    /\ Len(queue[ch]) < Cap
    /\ queue' = [queue EXCEPT ![ch] = Append(@, dump[c])]
    /\ accepted' = [accepted EXCEPT ![ch] = Append(@, dump[c])]
    /\ hpc' = [hpc EXCEPT ![c] = "open"]
    /\ dump' = [dump EXCEPT ![c] = 0]
    /\ UNCHANGED <<version, bvars, current, subs, peer, closed, writer,
                   hand, dropped, received>>

\* The client closes its end, or dies (environment).
PeerClose(c) ==
    /\ peer[c]
    /\ peer' = [peer EXCEPT ![c] = FALSE]
    /\ UNCHANGED <<version, bvars, hpc, current, subs, dump, chvars>>

\* Mutant of HandlerExit: the cleanup does not take clientsMu.
HandlerExitUnlocked(c) ==
    /\ hpc[c] = "open"
    /\ ~peer[c]
    /\ closed' = IF current[c] # 0 THEN [closed EXCEPT ![Channel(c)] = TRUE] ELSE closed
    /\ current' = [current EXCEPT ![c] = 0]
    /\ hpc' = [hpc EXCEPT ![c] = "gone"]
    /\ UNCHANGED <<version, bvars, subs, dump, peer, queue, writer, hand,
                   dropped, accepted, received>>

\* Mutant of HandlerExit: the cleanup closes the channel and forgets to
\* delete the map entry.
HandlerExitKeepsEntry(c) ==
    /\ hpc[c] = "open"
    /\ ~peer[c]
    /\ ~ReadLocked
    /\ closed' = IF current[c] # 0 THEN [closed EXCEPT ![Channel(c)] = TRUE] ELSE closed
    /\ hpc' = [hpc EXCEPT ![c] = "gone"]
    /\ UNCHANGED <<version, bvars, current, subs, dump, peer, queue, writer,
                   hand, dropped, accepted, received>>

\* Decode fails: the deferred cleanup closes and deletes the subscription
\* under clientsMu.Lock, then closes the connection.
HandlerExit(c) ==
    /\ hpc[c] = "open"
    /\ ~peer[c]
    /\ ~ReadLocked
    /\ closed' = IF current[c] # 0 THEN [closed EXCEPT ![Channel(c)] = TRUE] ELSE closed
    /\ current' = [current EXCEPT ![c] = 0]
    /\ hpc' = [hpc EXCEPT ![c] = "gone"]
    /\ UNCHANGED <<version, bvars, subs, dump, peer, queue, writer, hand,
                   dropped, accepted, received>>

----------------------------------------------------------------------------
(* Writer goroutines *)

\* Mutant of WriterReceive: notifications reach the socket from goroutines
\* of their own, so any queued one may come next.
WriterReceiveAny(ch) ==
    /\ writer[ch] = "receive"
    /\ \E i \in 1..Len(queue[ch]) :
        /\ hand' = [hand EXCEPT ![ch] = queue[ch][i]]
        /\ queue' = [queue EXCEPT ![ch] =
                        SubSeq(@, 1, i - 1) \o SubSeq(@, i + 1, Len(@))]
    /\ writer' = [writer EXCEPT ![ch] = "write"]
    /\ UNCHANGED <<version, bvars, hvars, closed, dropped, accepted, received>>

\* range ec.out yields the next notification; a closed channel still yields
\* what it holds.
WriterReceive(ch) ==
    /\ writer[ch] = "receive"
    /\ queue[ch] # <<>>
    /\ hand' = [hand EXCEPT ![ch] = Head(queue[ch])]
    /\ queue' = [queue EXCEPT ![ch] = Tail(@)]
    /\ writer' = [writer EXCEPT ![ch] = "write"]
    /\ UNCHANGED <<version, bvars, hvars, closed, dropped, accepted, received>>

\* conn.Write succeeds, or fails and writeLoop returns.
WriterWrite(ch) ==
    /\ writer[ch] = "write"
    /\ IF peer[ch[1]]
       THEN /\ received' = [received EXCEPT ![ch] = Append(@, hand[ch])]
            /\ writer' = [writer EXCEPT ![ch] = "receive"]
       ELSE /\ writer' = [writer EXCEPT ![ch] = "done"]
            /\ UNCHANGED received
    /\ hand' = [hand EXCEPT ![ch] = 0]
    /\ UNCHANGED <<version, bvars, hvars, queue, closed, dropped, accepted>>

\* The channel is closed and drained: the range loop ends.
WriterExit(ch) ==
    /\ writer[ch] = "receive"
    /\ closed[ch]
    /\ queue[ch] = <<>>
    /\ writer' = [writer EXCEPT ![ch] = "done"]
    /\ UNCHANGED <<version, bvars, hvars, queue, closed, hand, dropped,
                   accepted, received>>

----------------------------------------------------------------------------
Broadcast(b) == BroadcastBegin(b) \/ \E c \in Conns : BroadcastSend(b, c)

Handler(c) == BuildDump(c) \/ SendDump(c) \/ HandlerExit(c)

Writer(ch) == WriterReceive(ch) \/ WriterWrite(ch) \/ WriterExit(ch)

Next ==
    \/ WatcherEvent
    \/ WatcherRefresh
    \/ \E b \in Others : Notice(b)
    \/ \E b \in Broadcasters : Broadcast(b)
    \/ \E c \in Conns : Subscribe(c) \/ PeerClose(c) \/ Handler(c)
    \/ \E ch \in Channels : Writer(ch)

\* Goroutines are scheduled, a connected client keeps reading.  Events,
\* subscriptions and disconnections need not happen.
Fairness ==
    /\ \A b \in Broadcasters : WF_vars(Broadcast(b))
    /\ \A c \in Conns : WF_vars(Handler(c))
    /\ \A ch \in Channels : WF_vars(Writer(ch))

Spec == Init /\ [][Next]_vars /\ Fairness

----------------------------------------------------------------------------
(* Properties *)

\* Nobody is about to send on a closed channel, which would panic the
\* daemon: not a broadcaster that still has the client to visit, not the
\* handler with its State.Dump.
NoSendOnClosed ==
    /\ \A b \in Broadcasters : bpc[b] = "send" =>
          \A c \in targets[b] : current[c] # 0 /\ ~closed[Channel(c)]
    /\ \A c \in Conns : hpc[c] \in {"dump", "send"} =>
          current[c] # 0 /\ ~closed[Channel(c)]

\* Why it holds, as an inductive statement: a registered channel is the last
\* one made for its connection and is open, channels not made yet are neither
\* closed nor written from, and neither a handler sending a State.Dump nor a
\* broadcaster under the read lock can lose the registration it relies on.
RegistryConsistent ==
    /\ \A c \in Conns : current[c] # 0 =>
          current[c] = subs[c] /\ ~closed[Channel(c)]
    /\ \A c \in Conns, n \in 1..MaxSubs :
          closed[<<c, n>>] \/ writer[<<c, n>>] # "none" => n <= subs[c]
    /\ \A c \in Conns : hpc[c] \in {"dump", "send"} => current[c] # 0
    /\ \A b \in Broadcasters : bpc[b] = "send" => targets[b] \subseteq Registered

\* The notification writeLoop took from the queue and has not written.
InHand(ch) == IF writer[ch] = "write" THEN <<hand[ch]>> ELSE <<>>

\* What a channel's client has been sent is, in order and without loss or
\* duplication, what its queue accepted (the claim of eventClient's comment,
\* per subscription): after received come the notification in writeLoop's
\* hand and the queue.
FifoPerSubscription ==
    \A ch \in Channels : writer[ch] # "done" =>
        accepted[ch] = received[ch] \o InHand(ch) \o queue[ch]

\* The watcher is about to broadcast what it has put into the cache, or the
\* handler is about to read the State.Dump of a new subscription.
Promised(c) == bpc[Watcher] = "notify" \/ hpc[c] = "dump"

\* A subscriber that stays connected and does not overflow its queue is
\* eventually sent a dump at least as new as the cache was when it subscribed
\* and whenever watchEvents broadcasts: since it is registered before its
\* State.Dump is read, no broadcast falls in between.  (What WatcherRefresh
\* changes waits for the next broadcast.)
UpdateReachesSubscriber ==
    \A c \in Conns, n \in 1..MaxSubs, v \in 1..MaxVersion :
        (current[c] = n /\ version = v /\ Promised(c)) ~>
            \/ \E i \in 1..Len(received[<<c, n>>]) : received[<<c, n>>][i] >= v
            \/ dropped[<<c, n>>]
            \/ current[c] # n
            \/ ~peer[c]

\* A client that goes away is unregistered, unless its handler blocks on the
\* State.Dump for ever: the queue filled up behind it and writeLoop is gone.
GoneClientUnregistered ==
    \A c \in Conns : ~peer[c] ~>
        \/ current[c] = 0 /\ hpc[c] = "gone"
        \/ /\ hpc[c] = "send"
           /\ Len(queue[Channel(c)]) = Cap
           /\ writer[Channel(c)] = "done"

\* The second half of eventClient's comment: a subscription is never sent a
\* stale dump after a fresh one.
NoStaleAfterFresh ==
    \A ch \in Channels : \A i, j \in 1..Len(received[ch]) :
        i <= j => received[ch][i] <= received[ch][j]
=============================================================================
