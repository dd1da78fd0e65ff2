------------------------- MODULE IdleMonitorsProofs -------------------------
(***************************************************************************)
(* IdleMonitors, for any number of requests, monitors, notifications,      *)
(* connections and compositor exits.  Three invariants, each on top of the *)
(* one before:                                                             *)
(*                                                                         *)
(* IInv, for TypeOK and SingleOwner.  That a notification which was just   *)
(* created becomes the right monitor's, and that the one a request         *)
(* destroys is no other's, needs to know which notification a request      *)
(* holds at which of its labels (Holding).                                 *)
(*                                                                         *)
(* IInv1, for OneNotificationPerMonitor, and IInv2, for ToldState.  Both   *)
(* compare the states at the two ends of a request, so they say how far a  *)
(* request has come at each of its labels.  A monitor that one request     *)
(* refreshes is its alone (Alone), each notification of it is in its field *)
(* or in that request's hand (Accounted), and the idle flag differs from   *)
(* what the clients heard only while the one who changed it has the        *)
(* callback before him (Telling).  That the flag of a disabled monitor     *)
(* falls is IdleEnabled, and needs the first connection: on a later one    *)
(* the events of a forgotten notification may still come.                  *)
(***************************************************************************)
EXTENDS IdleMonitors, TLAPS

\* A step of the session that leaves the monitors alone.
SessionStep ==
    \/ LoopTop \/ ReadFails \/ HandshakeStolen \/ CompositorExit \/ CompositorStart
    \/ \E p \in Procs : \/ Connect(p) \/ ConnectRefused(p) \/ Handshake(p)
                        \/ HandshakeFails(p) \/ HandshakeResumed(p)

\* What the session's steps leave alone.
Ours == <<monVars, objVars, event, reqVars, history>>

\* Steps of a request that only move its program counter.
Quick(r) == SnapshotDeleted(r) \/ Unsupported(r) \/ Reconnected(r)

(* A step is one of the session, of the dispatch loop or of one request. *)
LEMMA Cases ==
    ASSUME Next
    PROVE  \/ SessionStep /\ UNCHANGED Ours
           \/ \E p \in Procs : InvalidateStaleProxies(p)
           \/ EventApply \/ EventCallback
           \/ \E n \in Notifs, idle \in BOOLEAN : NotificationEvent(n, idle)
           \/ \E r \in Requests :
                \/ Start(r) \/ Quick(r) \/ Snapshot(r) \/ Drop(r) \/ Clear(r) \/ Callback(r)
                \/ CreateNotification(r) \/ CreateBroken(r) \/ Install(r) \/ Kill(r) \/ Fail(r)
<1>1. CASE DispatcherStep
  <2>1. CASE Session(LoopTop)    BY <2>1 DEF Session, SessionStep, Ours
  <2>2. CASE Session(ReadFails)  BY <2>2 DEF Session, SessionStep, Ours
  <2>3. CASE Session(Steps(Dispatcher))  BY <2>3 DEF Session, SessionStep, Steps, Procs, Ours
  <2> QED BY <1>1, <2>1, <2>2, <2>3 DEF DispatcherStep, Procs
<1>2. ASSUME NEW r \in Requests, RequestStep(r)
      PROVE  \/ SessionStep /\ UNCHANGED Ours
             \/ InvalidateStaleProxies(r) /\ r \in Procs
             \/ Quick(r) \/ Snapshot(r) \/ Drop(r) \/ Clear(r) \/ Callback(r)
             \/ CreateNotification(r) \/ CreateBroken(r) \/ Install(r) \/ Kill(r) \/ Fail(r)
  <2>1. CASE Session(Steps(r))  BY <2>1 DEF Session, SessionStep, Steps, Procs, Ours
  <2> QED BY <1>2, <2>1 DEF RequestStep, Procs, Quick
<1>3. CASE \/ Session(HandshakeStolen) \/ (\E p \in Procs : Session(HandshakeResumed(p)))
           \/ Session(CompositorExit) \/ Session(CompositorStart)
  BY <1>3 DEF Session, SessionStep, Ours
<1> QED BY <1>1, <1>2, <1>3 DEF Next

\* Which notifications a request may hold at each of its labels, and that no
\* two requests were given the same one.
Holding ==
    \A r \in Requests :
      /\ pc[r] \in RequestLabels \cup {"connect", "handshake", "bound"}
      /\ pc[r] # "idle" => target[r] \in Mons
      /\ pc[r] = "idle" => target[r] = 0
      /\ old[r] # 0 => pc[r] \in {"drop", "kill"}
      /\ new[r] # 0 => pc[r] = "install" /\ owner[new[r]] = target[r]
      /\ \A q \in Requests : r # q /\ new[r] # 0 => new[r] # new[q]

\* The inductive invariant.
IInv == TypeOK /\ Holding /\ SingleOwner

(* The types of the session survive refreshMonitor and its callers. *)
LEMMA SessionTyped ==
    ASSUME SessionAssumption, MonitorAssumption, TypeOK, Next
    PROVE  SessionTypeOK(RequestLabels)'
<1> USE SessionAssumption DEF SessionAssumption, Connections, RequestLabels, Procs, Go
<1>0. SessionTypeOK(RequestLabels)  BY DEF TypeOK
<1>1. CASE UNCHANGED sessionVars
  BY <1>0, <1>1 DEF SessionTypeOK, sessionVars
<1>2. CASE LoopTop  BY <1>0, <1>2 DEF SessionTypeOK, LoopTop
<1>3. CASE ReadFails  BY <1>0, <1>3 DEF SessionTypeOK, ReadFails
<1>4. CASE HandshakeStolen  BY <1>0, <1>4 DEF SessionTypeOK, HandshakeStolen
<1>5. CASE CompositorExit
  <2>1. restarts' \in 0..MaxRestarts  BY <1>0, <1>5 DEF SessionTypeOK, CompositorExit
  <2> QED BY <1>0, <1>5, <2>1 DEF SessionTypeOK, CompositorExit
<1>6. CASE CompositorStart  BY <1>0, <1>6 DEF SessionTypeOK, CompositorStart
<1>7. ASSUME NEW p \in Procs, Connect(p) PROVE SessionTypeOK(RequestLabels)'
  <2>1. opened' \in Connections /\ opened' = opened + 1
    BY <1>0, <1>7 DEF SessionTypeOK, Connect
  <2>2. 0..opened \subseteq 0..opened' /\ 1..opened \subseteq 1..opened'
    BY <1>0, <2>1 DEF SessionTypeOK
  <2>3. gen' \in [Procs -> 0..opened']
    BY <1>0, <1>7, <2>1, <2>2 DEF SessionTypeOK, Connect
  <2>4. /\ alive' \subseteq 1..opened' /\ display' \in 0..opened'
        /\ globals' \in 0..opened' /\ synced' \subseteq 1..opened'
    BY <1>0, <1>7, <2>1, <2>2 DEF SessionTypeOK, Connect
  <2> QED BY <1>0, <1>7, <2>1, <2>3, <2>4 DEF SessionTypeOK, Connect
<1>8. ASSUME NEW p \in Procs,
             ConnectRefused(p) \/ HandshakeFails(p) \/ HandshakeResumed(p) \/ Invalidate(p)
      PROVE SessionTypeOK(RequestLabels)'
  <2>1. CASE ConnectRefused(p)  BY <1>0, <2>1 DEF SessionTypeOK, ConnectRefused
  <2>2. CASE HandshakeFails(p)  BY <1>0, <2>2 DEF SessionTypeOK, HandshakeFails
  <2>3. CASE HandshakeResumed(p)  BY <1>0, <2>3 DEF SessionTypeOK, HandshakeResumed
  <2>4. CASE Invalidate(p)  BY <1>0, <2>4 DEF SessionTypeOK, Invalidate
  <2> QED BY <1>8, <2>1, <2>2, <2>3, <2>4
<1>9. ASSUME NEW p \in Procs, Handshake(p) PROVE SessionTypeOK(RequestLabels)'
  BY <1>0, <1>9 DEF SessionTypeOK, Handshake
<1>10. ASSUME NEW p \in Procs, NEW l \in RequestLabels \cup {"event", "callback", "top", "connect"},
              Go(p, l), p = Dispatcher => l \in {"event", "callback", "top"},
              UNCHANGED SessionRest
       PROVE  SessionTypeOK(RequestLabels)'
  BY <1>0, <1>10 DEF SessionTypeOK, SessionRest
<1>11. CASE EventApply \/ EventCallback \/ \E n \in Notifs, idle \in BOOLEAN : NotificationEvent(n, idle)
  BY <1>10, <1>11 DEF EventApply, EventCallback, NotificationEvent
<1>12. ASSUME NEW r \in Requests, Start(r) \/ Snapshot(r) \/ Drop(r) \/ Kill(r) \/ Fail(r)
       PROVE  SessionTypeOK(RequestLabels)'
  BY <1>10, <1>12 DEF Start, CreateMonitor, UpdateMonitor, DestroyMonitor, Snapshot, Drop, Kill, Fail, Done
<1>13. ASSUME NEW r \in Requests, Clear(r) \/ Callback(r) \/ CreateNotification(r) \/ CreateBroken(r) \/ Install(r)
       PROVE  SessionTypeOK(RequestLabels)'
  BY <1>10, <1>13 DEF Clear, Callback, CreateNotification, CreateBroken, Install, Done, Proceed
<1>14. ASSUME NEW r \in Requests, Quick(r) PROVE  SessionTypeOK(RequestLabels)'
  <2>1. CASE Reconnected(r)  BY <1>0, <2>1 DEF SessionTypeOK, Reconnected
  <2> QED BY <1>10, <1>14, <2>1 DEF Quick, SnapshotDeleted, Unsupported
<1> QED BY Cases, <1>2, <1>3, <1>4, <1>5, <1>6, <1>7, <1>8, <1>9, <1>11, <1>12, <1>13, <1>14
        DEF SessionStep, InvalidateStaleProxies

\* The parts of TypeOK: one lemma each.
MonOK ==
    /\ ids \in 0..MaxIds
    /\ table \subseteq 1..ids
    /\ enabled \in [Mons -> BOOLEAN]
    /\ deleted \in [Mons -> BOOLEAN]
    /\ isIdle \in [Mons -> BOOLEAN]
    /\ ref \in [Mons -> 0..MaxNotifs]

ObjOK ==
    /\ notifs \in 0..MaxNotifs
    /\ owner \in [Notifs -> 0..MaxIds]
    /\ conn \in [Notifs -> 0..MaxConns]
    /\ live \subseteq 1..notifs

ReqOK ==
    /\ ops \in 0..MaxOps
    /\ target \in [Requests -> 0..MaxIds]
    /\ fresh \in [Requests -> BOOLEAN]
    /\ old \in [Requests -> 0..MaxNotifs]
    /\ new \in [Requests -> 0..MaxNotifs]
    /\ want \in [Requests -> BOOLEAN]
    /\ attempt \in [Requests -> 0..2]

EventOK == event \in [mon : 0..MaxIds, idle : BOOLEAN]

HistoryOK ==
    /\ told \in [Mons -> BOOLEAN]
    /\ overlapped \in [Mons -> BOOLEAN]
    /\ raced \in [Mons -> BOOLEAN]

(* The types of the monitors' fields. *)
LEMMA MonitorsTyped ==
    ASSUME SessionAssumption, MonitorAssumption, IInv, Next
    PROVE  MonOK'
<1> USE MonitorAssumption DEF MonitorAssumption, Mons
<1>0. MonOK /\ ReqOK /\ EventOK  BY DEF IInv, TypeOK, MonOK, ReqOK, EventOK
<1>1. CASE UNCHANGED monVars  BY <1>0, <1>1 DEF MonOK, monVars
<1>2. ASSUME NEW p \in Procs, InvalidateStaleProxies(p)  PROVE MonOK'
  BY <1>0, <1>2 DEF MonOK, InvalidateStaleProxies
<1>3. CASE EventApply
  <2>1. isIdle' \in [Mons -> BOOLEAN]
    BY <1>0, <1>3 DEF EventApply, MonOK, EventOK
  <2> QED BY <1>0, <1>3, <2>1 DEF EventApply, MonOK
<1>4. ASSUME NEW r \in Requests, NEW on \in BOOLEAN, CreateMonitor(r, on)  PROVE MonOK'
  <2>1. ids' \in 0..MaxIds /\ table' \subseteq 1..ids'
    BY <1>0, <1>4 DEF CreateMonitor, MonOK
  <2> QED BY <1>0, <1>4, <2>1 DEF CreateMonitor, MonOK
<1>5. ASSUME NEW r \in Requests, NEW m \in Mons,
             DestroyMonitor(r, m) \/ \E on \in BOOLEAN : UpdateMonitor(r, m, on)
      PROVE MonOK'
  <2>1. CASE DestroyMonitor(r, m)
    <3>1. ref' \in [Mons -> 0..MaxNotifs]
      BY <1>0, <2>1 DEF DestroyMonitor, MonOK
    <3>2. deleted' \in [Mons -> BOOLEAN]
      BY <1>0, <2>1 DEF DestroyMonitor, MonOK
    <3> QED BY <1>0, <2>1, <3>1, <3>2 DEF DestroyMonitor, MonOK
  <2>2. ASSUME NEW on \in BOOLEAN, UpdateMonitor(r, m, on)  PROVE MonOK'
    BY <1>0, <2>2 DEF UpdateMonitor, MonOK
  <2> QED BY <1>5, <2>1, <2>2
<1>6. ASSUME NEW r \in Requests, Snapshot(r)  PROVE MonOK'
  <2>1. ref' \in [Mons -> 0..MaxNotifs]
    <3>1. ref' = [ref EXCEPT ![target[r]] = 0]  BY <1>6 DEF Snapshot
    <3>2. target[r] \in Mons  BY <1>6 DEF IInv, Holding, Snapshot
    <3> QED BY <1>0, <3>1, <3>2 DEF MonOK
  <2> QED BY <1>0, <1>6, <2>1 DEF Snapshot, MonOK
<1>7. ASSUME NEW r \in Requests, Clear(r)  PROVE MonOK'
  BY <1>0, <1>7 DEF Clear, MonOK
<1>8. ASSUME NEW r \in Requests, Install(r)  PROVE MonOK'
  BY <1>0, <1>8 DEF Install, MonOK, ReqOK
<1>9. ASSUME NEW r \in Requests, Fail(r)  PROVE MonOK'
  BY <1>0, <1>9 DEF Fail, MonOK
<1>10. ASSUME NEW r \in Requests,
              \/ Quick(r) \/ Drop(r) \/ Callback(r) \/ CreateNotification(r)
              \/ CreateBroken(r) \/ Kill(r)
       PROVE  UNCHANGED monVars
  BY <1>10 DEF Quick, SnapshotDeleted, Unsupported, Reconnected, Drop, Callback,
       CreateNotification, CreateBroken, Kill
<1> QED BY Cases, <1>1, <1>2, <1>3, <1>4, <1>5, <1>6, <1>7, <1>8, <1>9, <1>10
        DEF Ours, EventCallback, NotificationEvent, Start

(* The types of the notification objects. *)
LEMMA ObjectsTyped ==
    ASSUME SessionAssumption, MonitorAssumption, IInv, Next
    PROVE  ObjOK'
<1> USE MonitorAssumption, SessionAssumption DEF MonitorAssumption, SessionAssumption, Notifs
<1>0. ObjOK /\ ReqOK  BY DEF IInv, TypeOK, ObjOK, ReqOK
<1>1. CASE UNCHANGED objVars  BY <1>0, <1>1 DEF ObjOK, objVars
<1>2. ASSUME NEW r \in Requests, Drop(r) \/ Kill(r)  PROVE ObjOK'
  BY <1>0, <1>2 DEF Drop, Kill, ObjOK
<1>3. ASSUME NEW r \in Requests, CreateNotification(r)  PROVE ObjOK'
  <2>1. notifs' \in 0..MaxNotifs /\ live' \subseteq 1..notifs'
    <3>1. notifs' = notifs + 1 /\ notifs < MaxNotifs /\ live' = live \cup {notifs + 1}
      BY <1>3 DEF CreateNotification
    <3>2. notifs \in Nat /\ live \subseteq 1..notifs  BY <1>0 DEF ObjOK
    <3> QED BY <3>1, <3>2
  <2>2. globals \in 0..MaxConns
    BY DEF IInv, TypeOK, SessionTypeOK, Connections
  <2> QED BY <1>0, <1>3, <2>1, <2>2 DEF CreateNotification, ObjOK, ReqOK
<1>4. ASSUME NEW r \in Requests,
             \/ Start(r) \/ Quick(r) \/ Snapshot(r) \/ Clear(r) \/ Callback(r)
             \/ CreateBroken(r) \/ Install(r) \/ Fail(r)
      PROVE  UNCHANGED objVars
  BY <1>4 DEF Start, CreateMonitor, UpdateMonitor, DestroyMonitor, Quick, SnapshotDeleted,
       Unsupported, Reconnected, Snapshot, Clear, Callback, CreateBroken, Install, Fail
<1> QED BY Cases, <1>1, <1>2, <1>3, <1>4
        DEF Ours, InvalidateStaleProxies, EventApply, EventCallback, NotificationEvent

(* The types of what refreshMonitor has copied; Snapshot needs that the
   request has a monitor. *)
LEMMA RequestsTyped ==
    ASSUME SessionAssumption, MonitorAssumption, IInv, Next
    PROVE  ReqOK'
<1> USE MonitorAssumption DEF MonitorAssumption, Mons
<1>0. MonOK /\ ReqOK /\ notifs \in 0..MaxNotifs
  BY DEF IInv, TypeOK, MonOK, ReqOK
<1>1. CASE UNCHANGED reqVars  BY <1>0, <1>1 DEF ReqOK, reqVars
<1>2. ASSUME NEW r \in Requests, Done(r)  PROVE ReqOK'
  BY <1>0, <1>2 DEF Done, ReqOK
<1>3. ASSUME NEW r \in Requests, Proceed(r)  PROVE ReqOK'
  BY <1>0, <1>2, <1>3 DEF Proceed, ReqOK
<1>4. ASSUME NEW r \in Requests, Start(r)  PROVE ReqOK'
  <2>1. ASSUME NEW on \in BOOLEAN, CreateMonitor(r, on)  PROVE ReqOK'
    <3>1. ids + 1 \in 0..MaxIds  BY <1>0, <2>1 DEF CreateMonitor, MonOK
    <3> QED BY <1>0, <2>1, <3>1 DEF CreateMonitor, Begin, ReqOK
  <2>2. ASSUME NEW m \in Mons, DestroyMonitor(r, m)  PROVE ReqOK'
    <3>1. m \in 0..MaxIds  OBVIOUS
    <3> QED BY <1>0, <2>2, <3>1 DEF DestroyMonitor, Begin, ReqOK, MonOK
  <2>3. ASSUME NEW m \in Mons, NEW on \in BOOLEAN, UpdateMonitor(r, m, on)  PROVE ReqOK'
    <3>1. m \in 0..MaxIds  OBVIOUS
    <3> QED BY <1>0, <2>3, <3>1 DEF UpdateMonitor, Begin, ReqOK
  <2> QED BY <1>4, <2>1, <2>2, <2>3 DEF Start
<1>5. ASSUME NEW r \in Requests, Snapshot(r)  PROVE ReqOK'
  <2>1. target[r] \in Mons
    BY <1>5 DEF IInv, Holding, Snapshot
  <2> QED BY <1>0, <1>5, <2>1 DEF Snapshot, ReqOK, MonOK
<1>6. ASSUME NEW r \in Requests, Drop(r) \/ CreateBroken(r)  PROVE ReqOK'
  BY <1>0, <1>6 DEF Drop, CreateBroken, ReqOK
<1>7. ASSUME NEW r \in Requests, CreateNotification(r)  PROVE ReqOK'
  <2>1. notifs + 1 \in 0..MaxNotifs  BY <1>0, <1>7 DEF CreateNotification
  <2> QED BY <1>0, <1>7, <2>1 DEF CreateNotification, ReqOK
<1>8. ASSUME NEW r \in Requests, Install(r)  PROVE ReqOK'
  BY <1>0, <1>2, <1>8 DEF Install, ReqOK
<1>9. ASSUME NEW r \in Requests, Clear(r) \/ Callback(r) \/ Kill(r) \/ Fail(r)  PROVE ReqOK'
  BY <1>1, <1>2, <1>3, <1>9 DEF Clear, Callback, Kill, Fail
<1>10. ASSUME NEW r \in Requests, Quick(r)  PROVE UNCHANGED reqVars
  BY <1>10 DEF Quick, SnapshotDeleted, Unsupported, Reconnected
<1> QED BY Cases, <1>1, <1>4, <1>5, <1>6, <1>7, <1>8, <1>9, <1>10
        DEF Ours, InvalidateStaleProxies, EventApply, EventCallback, NotificationEvent

(* The type of the event in the dispatch loop's hand. *)
LEMMA EventTyped ==
    ASSUME SessionAssumption, MonitorAssumption, IInv, Next
    PROVE  EventOK'
<1> USE MonitorAssumption DEF MonitorAssumption
<1>0. EventOK  BY DEF IInv, TypeOK, EventOK
<1>1. CASE UNCHANGED event  BY <1>0, <1>1 DEF EventOK
<1>2. ASSUME NEW n \in Notifs, NEW idle \in BOOLEAN, NotificationEvent(n, idle)
      PROVE  EventOK'
  <2>1. owner[n] \in 0..MaxIds  BY <1>2 DEF IInv, TypeOK
  <2> QED BY <1>2, <2>1 DEF NotificationEvent, EventOK
<1>3. CASE EventApply \/ EventCallback
  <2>1. NoEvent \in [mon : 0..MaxIds, idle : BOOLEAN]  BY DEF NoEvent
  <2>2. event' \in {event, NoEvent}  BY <1>3 DEF EventApply, EventCallback
  <2> QED BY <1>0, <2>1, <2>2 DEF EventOK
<1>4. ASSUME NEW r \in Requests,
             \/ Start(r) \/ Quick(r) \/ Snapshot(r) \/ Drop(r) \/ Clear(r) \/ Callback(r)
             \/ CreateNotification(r) \/ CreateBroken(r) \/ Install(r) \/ Kill(r) \/ Fail(r)
      PROVE  UNCHANGED event
  BY <1>4 DEF Start, CreateMonitor, UpdateMonitor, DestroyMonitor, Quick, SnapshotDeleted,
       Unsupported, Reconnected, Snapshot, Drop, Clear, Callback, CreateNotification,
       CreateBroken, Install, Kill, Fail
<1> QED BY Cases, <1>1, <1>2, <1>3, <1>4 DEF Ours, InvalidateStaleProxies

(* The types of the history variables. *)
LEMMA HistoryTyped ==
    ASSUME SessionAssumption, MonitorAssumption, IInv, Next
    PROVE  HistoryOK'
<1>0. HistoryOK /\ EventOK  BY DEF IInv, TypeOK, HistoryOK, EventOK
<1>1. CASE UNCHANGED history  BY <1>0, <1>1 DEF HistoryOK, history
<1>2. ASSUME NEW n \in Notifs, NEW idle \in BOOLEAN, NotificationEvent(n, idle)
      PROVE  HistoryOK'
  BY <1>0, <1>2 DEF NotificationEvent, HistoryOK
<1>3. CASE EventCallback
  <2>1. event.idle \in BOOLEAN  BY <1>0 DEF EventOK
  <2> QED BY <1>0, <1>3, <2>1 DEF EventCallback, HistoryOK
<1>4. ASSUME NEW r \in Requests, Callback(r)  PROVE HistoryOK'
  BY <1>0, <1>4 DEF Callback, HistoryOK
<1>5. ASSUME NEW r \in Requests, NEW m \in Mons, NEW on \in BOOLEAN, UpdateMonitor(r, m, on)
      PROVE  HistoryOK'
  <2>1. overlapped' \in [Mons -> BOOLEAN]  BY <1>0, <1>5 DEF UpdateMonitor, HistoryOK
  <2>2. raced' \in [Mons -> BOOLEAN]  BY <1>0, <1>5 DEF UpdateMonitor, HistoryOK
  <2> QED BY <1>0, <1>5, <2>1, <2>2 DEF UpdateMonitor, HistoryOK
<1>6. ASSUME NEW r \in Requests, NEW m \in Mons, NEW on \in BOOLEAN,
             CreateMonitor(r, on) \/ DestroyMonitor(r, m)
      PROVE  UNCHANGED history
  BY <1>6 DEF CreateMonitor, DestroyMonitor
<1>7. ASSUME NEW r \in Requests,
             \/ Quick(r) \/ Snapshot(r) \/ Drop(r) \/ Clear(r)
             \/ CreateNotification(r) \/ CreateBroken(r) \/ Install(r) \/ Kill(r) \/ Fail(r)
      PROVE  UNCHANGED history
  BY <1>7 DEF Quick, SnapshotDeleted, Unsupported, Reconnected, Snapshot, Drop, Clear,
       CreateNotification, CreateBroken, Install, Kill, Fail
<1>8. ASSUME NEW r \in Requests, Start(r)  PROVE HistoryOK'
  <2>1. 1 \in Mons  BY MonitorAssumption DEF MonitorAssumption, Mons
  <2> QED BY <1>1, <1>5, <1>6, <1>8, <2>1 DEF Start
<1> QED BY Cases, <1>1, <1>2, <1>3, <1>4, <1>7, <1>8
        DEF Ours, InvalidateStaleProxies, EventApply

(* Holding is kept by every section of refreshMonitor and its callers; that
   a new notification is nobody's rests on SingleOwner. *)
LEMMA HoldingStep ==
    ASSUME SessionAssumption, MonitorAssumption, IInv, Next
    PROVE  Holding'
<1> USE SessionAssumption, MonitorAssumption
        DEF SessionAssumption, MonitorAssumption, Mons, Notifs, Procs, RequestLabels
<1>0. Holding /\ SingleOwner /\ ObjOK /\ ReqOK /\ pc \in [Procs -> RequestLabels
         \cup {"top", "read", "event", "callback", "connect", "handshake", "bound"}]
  BY DEF IInv, TypeOK, SessionTypeOK, ObjOK, ReqOK
(* A step that leaves the requests alone and takes each from a label of the *)
(* session to another one, or nowhere.                                      *)
<1>1. ASSUME UNCHANGED <<reqVars, objVars>>,
             \A r \in Requests : \/ pc'[r] = pc[r]
                                 \/ /\ pc[r] \notin {"idle", "drop", "kill", "install"}
                                    /\ pc'[r] \in (RequestLabels \ {"idle"}) \cup {"connect", "handshake", "bound"}
      PROVE  Holding'
  BY <1>0, <1>1 DEF Holding, reqVars, objVars
<1>2. CASE SessionStep /\ UNCHANGED Ours
  <2>1. UNCHANGED <<reqVars, objVars>>  BY <1>2 DEF Ours
  <2>2. CASE \/ LoopTop \/ ReadFails \/ HandshakeStolen \/ CompositorExit \/ CompositorStart
    BY <1>0, <1>1, <2>1, <2>2 DEF LoopTop, ReadFails, HandshakeStolen, CompositorExit,
       CompositorStart, Go
  <2>3. ASSUME NEW p \in Procs, Connect(p) \/ ConnectRefused(p) \/ Handshake(p)
                                \/ HandshakeFails(p) \/ HandshakeResumed(p)
        PROVE  Holding'
    BY <1>0, <1>1, <2>1, <2>3 DEF Connect, ConnectRefused, Handshake, HandshakeFails,
       HandshakeResumed, Go
  <2> QED BY <1>2, <2>2, <2>3 DEF SessionStep
<1>3. ASSUME NEW p \in Procs, InvalidateStaleProxies(p)  PROVE Holding'
  BY <1>0, <1>1, <1>3 DEF InvalidateStaleProxies, Invalidate, Go
<1>4. ASSUME NEW n \in Notifs, NEW idle \in BOOLEAN, NotificationEvent(n, idle)
      PROVE  Holding'
  BY <1>0, <1>1, <1>4 DEF NotificationEvent, Go
<1>5. CASE EventApply \/ EventCallback
  BY <1>0, <1>1, <1>5 DEF EventApply, EventCallback, Go
<1>6. ASSUME NEW r \in Requests, Quick(r)  PROVE Holding'
  BY <1>0, <1>1, <1>6 DEF Quick, SnapshotDeleted, Unsupported, Reconnected, Go
<1>7. ASSUME NEW r \in Requests, Done(r), UNCHANGED owner  PROVE Holding'
  BY <1>0, <1>7 DEF Done, Holding, ReqOK, Go
<1>8. ASSUME NEW r \in Requests, Proceed(r), pc[r] \in {"clear", "callback"},
             UNCHANGED owner
      PROVE  Holding'
  <2>1. CASE Done(r)  BY <1>7, <1>8, <2>1
  <2>2. CASE ~Done(r)
    BY <1>0, <1>8, <2>2 DEF Proceed, Holding, ReqOK, Go
  <2> QED BY <2>1, <2>2
<1>9. ASSUME NEW r \in Requests, Start(r)  PROVE Holding'
  <2>1. UNCHANGED owner /\ new' = new
    BY <1>9 DEF Start, CreateMonitor, UpdateMonitor, DestroyMonitor, objVars
  <2>2. pc[r] = "idle" /\ pc' \in {[pc EXCEPT ![r] = "refresh"], [pc EXCEPT ![r] = "kill"]}
    BY <1>9 DEF Start, CreateMonitor, UpdateMonitor, DestroyMonitor, Begin, Go
  <2>3. \E m \in Mons : target' = [target EXCEPT ![r] = m]
    <3>1. ASSUME NEW on \in BOOLEAN, CreateMonitor(r, on)
          PROVE  ids + 1 \in Mons /\ target' = [target EXCEPT ![r] = ids + 1]
      BY <3>1 DEF CreateMonitor, Begin, IInv, TypeOK
    <3> QED BY <1>9, <3>1 DEF Start, UpdateMonitor, DestroyMonitor, Begin
  <2>4. \/ old' = old
        \/ pc'[r] = "kill" /\ \E n \in 0..MaxNotifs : old' = [old EXCEPT ![r] = n]
    <3>1. ASSUME NEW m \in Mons, DestroyMonitor(r, m)
          PROVE  pc'[r] = "kill" /\ ref[m] \in 0..MaxNotifs /\ old' = [old EXCEPT ![r] = ref[m]]
      BY <1>0, <3>1 DEF DestroyMonitor, IInv, TypeOK, Go
    <3> QED BY <1>9, <3>1 DEF Start, CreateMonitor, UpdateMonitor
  <2> QED BY <1>0, <2>1, <2>2, <2>3, <2>4 DEF Holding, ReqOK
<1>10. ASSUME NEW r \in Requests, Snapshot(r) \/ Drop(r) \/ CreateBroken(r)  PROVE Holding'
  <2>1. CASE Snapshot(r)  BY <1>0, <2>1 DEF Snapshot, Holding, ReqOK, Go, objVars
  <2>2. CASE Drop(r)  BY <1>0, <2>2 DEF Drop, Holding, ReqOK, Go
  <2>3. CASE CreateBroken(r)  BY <1>0, <2>3 DEF CreateBroken, Holding, ReqOK, Go, objVars
  <2> QED BY <1>10, <2>1, <2>2, <2>3
<1>11. ASSUME NEW r \in Requests, Clear(r) \/ Callback(r)  PROVE Holding'
  <2>1. CASE Proceed(r)  BY <1>8, <1>11, <2>1 DEF Clear, Callback, objVars
  <2>2. CASE ~Proceed(r)
    <3>1. Go(r, "callback") /\ pc[r] = "clear" /\ UNCHANGED <<reqVars, objVars>>
      BY <1>11, <2>2 DEF Clear, Callback, objVars
    <3> QED BY <1>0, <1>1, <3>1 DEF Go
  <2> QED BY <2>1, <2>2
<1>12. ASSUME NEW r \in Requests, CreateNotification(r)  PROVE Holding'
  <2>1. /\ pc[r] = "create" /\ Go(r, "install")
        /\ new' = [new EXCEPT ![r] = notifs + 1]
        /\ owner' = [owner EXCEPT ![notifs + 1] = target[r]]
        /\ UNCHANGED <<target, old>> /\ notifs < MaxNotifs
    BY <1>12 DEF CreateNotification
  <2>2. notifs + 1 \in Notifs /\ notifs \in Nat  BY <1>0, <2>1 DEF ObjOK
  <2>3. \A q \in Requests : new[q] # notifs + 1 /\ (new[q] # 0 => new[q] \in Notifs)
    BY <1>0, <2>2 DEF SingleOwner, ObjOK, ReqOK
  <2> QED BY <1>0, <2>1, <2>2, <2>3 DEF Holding, ReqOK, ObjOK, Go
<1>13. ASSUME NEW r \in Requests, Install(r)  PROVE Holding'
  <2>1. CASE Done(r)  BY <1>7, <1>13, <2>1 DEF Install, objVars
  <2>2. CASE ~Done(r)
    <3>1. /\ Go(r, "kill") /\ pc[r] = "install" /\ UNCHANGED <<target, owner>>
          /\ new' = [new EXCEPT ![r] = 0] /\ old' = [old EXCEPT ![r] = new[r]]
      BY <1>13, <2>2 DEF Install, objVars
    <3> QED BY <1>0, <3>1 DEF Holding, ReqOK, Go
  <2> QED BY <2>1, <2>2
<1>14. ASSUME NEW r \in Requests, Kill(r) \/ Fail(r)  PROVE Holding'
  BY <1>7, <1>14 DEF Kill, Fail, objVars
<1> QED BY Cases, <1>2, <1>3, <1>4, <1>5, <1>6, <1>9, <1>10, <1>11, <1>12, <1>13, <1>14

(* SingleOwner is kept: a notification moves from a monitor to the request
   that clears the field, and from a request to the field or to nobody. *)
LEMMA OwnerStep ==
    ASSUME SessionAssumption, MonitorAssumption, IInv, Next
    PROVE  SingleOwner'
<1> USE SessionAssumption, MonitorAssumption
        DEF SessionAssumption, MonitorAssumption, Mons, Notifs
<1>0. Holding /\ SingleOwner /\ MonOK /\ ObjOK /\ ReqOK
  BY DEF IInv, TypeOK, MonOK, ObjOK, ReqOK
(* Nothing the property speaks of changes. *)
<1>1. CASE UNCHANGED <<ref, deleted, live, owner, old, new>>
  BY <1>0, <1>1 DEF SingleOwner
<1>2. CASE \/ SessionStep /\ UNCHANGED Ours
           \/ EventApply \/ EventCallback
           \/ \E n \in Notifs, idle \in BOOLEAN : NotificationEvent(n, idle)
           \/ \E r \in Requests : Quick(r) \/ CreateBroken(r)
  BY <1>1, <1>2 DEF Ours, monVars, objVars, reqVars, EventApply, EventCallback,
     NotificationEvent, Quick, SnapshotDeleted, Unsupported, Reconnected, CreateBroken
<1>3. ASSUME NEW p \in Procs, InvalidateStaleProxies(p)  PROVE SingleOwner'
  BY <1>0, <1>3 DEF InvalidateStaleProxies, SingleOwner, objVars, reqVars, MonOK
(* A request ends and forgets what it had. *)
<1>4. ASSUME NEW r \in Requests, Done(r), UNCHANGED <<ref, deleted, live, owner>>
      PROVE  SingleOwner'
  BY <1>0, <1>4 DEF Done, SingleOwner, ReqOK
<1>5. ASSUME NEW r \in Requests, Clear(r) \/ Callback(r) \/ Fail(r)  PROVE SingleOwner'
  BY <1>1, <1>4, <1>5 DEF Clear, Callback, Fail, Proceed, objVars, monVars, reqVars
<1>6. ASSUME NEW r \in Requests, NEW m \in Mons, NEW on \in BOOLEAN,
             CreateMonitor(r, on) \/ UpdateMonitor(r, m, on)
      PROVE  SingleOwner'
  BY <1>1, <1>6 DEF CreateMonitor, UpdateMonitor, objVars
(* The notification moves from the monitor to the request. *)
<1>7. ASSUME NEW r \in Requests, NEW m \in Mons, DestroyMonitor(r, m)  PROVE SingleOwner'
  <2>1. /\ ref' = [ref EXCEPT ![m] = 0] /\ old' = [old EXCEPT ![r] = ref[m]]
        /\ deleted' = [deleted EXCEPT ![m] = TRUE]
        /\ UNCHANGED <<live, owner, new>>
    BY <1>7 DEF DestroyMonitor, objVars
  <2> QED BY <1>0, <2>1 DEF SingleOwner, MonOK, ReqOK
<1>8. ASSUME NEW r \in Requests, Snapshot(r)  PROVE SingleOwner'
  <2>1. /\ ref' = [ref EXCEPT ![target[r]] = 0]
        /\ old' = [old EXCEPT ![r] = ref[target[r]]]
        /\ UNCHANGED <<deleted, live, owner, new>>
    BY <1>8 DEF Snapshot, objVars
  <2>2. target[r] \in Mons  BY <1>0, <1>8 DEF Snapshot, Holding
  <2> QED BY <1>0, <2>1, <2>2 DEF SingleOwner, MonOK, ReqOK
(* It is destroyed, and nobody else has it. *)
<1>9. ASSUME NEW r \in Requests, Drop(r) \/ Kill(r)  PROVE SingleOwner'
  <2>1. /\ live' = live \ {old[r]}
        /\ old' = [old EXCEPT ![r] = 0]
        /\ new' \in {new, [new EXCEPT ![r] = 0]}
        /\ UNCHANGED <<ref, deleted, owner>>
    BY <1>9 DEF Drop, Kill, Done, monVars
  <2>2. new[r] = 0  BY <1>0, <1>9 DEF Drop, Kill, Holding
  <2>3. new' = new  BY <1>0, <2>1, <2>2 DEF ReqOK
  <2>4. \A q \in Requests : old[r] = 0 \/ old[r] # new[q]
    BY <1>0, <2>2 DEF SingleOwner
  <2> QED BY <1>0, <2>1, <2>3, <2>4 DEF SingleOwner, MonOK, ReqOK, ObjOK
(* It is created, with a number nobody has. *)
<1>10. ASSUME NEW r \in Requests, CreateNotification(r)  PROVE SingleOwner'
  <2>1. /\ live' = live \cup {notifs + 1}
        /\ new' = [new EXCEPT ![r] = notifs + 1]
        /\ owner' = [owner EXCEPT ![notifs + 1] = target[r]]
        /\ UNCHANGED <<ref, deleted, old>>
    BY <1>10 DEF CreateNotification, monVars
  <2>2. notifs + 1 \notin live \cup {0}  BY <1>0 DEF ObjOK
  <2>3. \A m \in Mons : ref[m] # notifs + 1
    BY <1>0, <2>2 DEF SingleOwner
  <2>4. \A q \in Requests : old[q] # notifs + 1
    BY <1>0, <2>2 DEF SingleOwner
  <2>5. \A n \in live : owner'[n] = owner[n]  BY <1>0, <2>1, <2>2 DEF ObjOK
  <2>6. \A q \in Requests : new'[q] = IF q = r THEN notifs + 1 ELSE new[q]
    BY <1>0, <2>1 DEF ReqOK
  <2>7. ASSUME NEW m \in Mons, ref'[m] # 0
        PROVE  /\ ref'[m] \in live' /\ owner'[ref'[m]] = m /\ ~deleted'[m]
               /\ \A q \in Requests : ref'[m] \notin {old'[q], new'[q]}
    BY <1>0, <2>1, <2>3, <2>5, <2>6, <2>7 DEF SingleOwner
  <2>8. \A q \in Requests : {old'[q], new'[q]} \subseteq live' \cup {0}
    BY <1>0, <2>1, <2>6 DEF SingleOwner
  <2>9. \A q, s \in Requests : q # s /\ old'[q] # 0 => old'[q] \notin {old'[s], new'[s]}
    BY <1>0, <2>1, <2>4, <2>6 DEF SingleOwner
  <2> QED BY <2>7, <2>8, <2>9 DEF SingleOwner
(* It moves to the monitor, or to the same request's hand that destroys. *)
<1>11. ASSUME NEW r \in Requests, Install(r)  PROVE SingleOwner'
  <2>1. target[r] \in Mons /\ old[r] = 0  BY <1>0, <1>11 DEF Install, Holding
  <2>2. new[r] # 0 => owner[new[r]] = target[r] /\ \A q \in Requests : r # q => new[r] # new[q]
    BY <1>0, <1>11 DEF Install, Holding
  <2>3. new[r] # 0 => \A q \in Requests : new[r] # old[q]
    BY <1>0, <2>1 DEF SingleOwner
  <2>4. CASE deleted[target[r]]
    <3>1. /\ old' = [old EXCEPT ![r] = new[r]] /\ new' = [new EXCEPT ![r] = 0]
          /\ UNCHANGED <<ref, deleted, live, owner>>
      BY <1>11, <2>4 DEF Install, objVars
    <3> QED BY <1>0, <2>1, <2>2, <2>3, <3>1 DEF SingleOwner, MonOK, ReqOK
  <2>5. CASE ~deleted[target[r]]
    <3>1. /\ ref' = [ref EXCEPT ![target[r]] = new[r]]
          /\ old' = [old EXCEPT ![r] = 0] /\ new' = [new EXCEPT ![r] = 0]
          /\ UNCHANGED <<deleted, live, owner>>
      BY <1>11, <2>5 DEF Install, Done, objVars
    <3> QED BY <1>0, <2>1, <2>2, <2>3, <2>5, <3>1 DEF SingleOwner, MonOK, ReqOK
  <2> QED BY <2>4, <2>5
<1>12. ASSUME NEW r \in Requests, Start(r)  PROVE SingleOwner'
  <2>1. 1 \in Mons  OBVIOUS
  <2> QED BY <1>6, <1>7, <1>12, <2>1 DEF Start
<1> QED BY Cases, <1>2, <1>3, <1>5, <1>8, <1>9, <1>10, <1>11, <1>12

(* Every step keeps the invariant. *)
LEMMA Inductive ==
    ASSUME SessionAssumption, MonitorAssumption, IInv, [Next]_vars
    PROVE  IInv'
<1>1. CASE UNCHANGED vars
  <2>1. TypeOK'
    BY <1>1 DEF IInv, TypeOK, SessionTypeOK, vars, sessionVars, monVars, objVars, reqVars, history
  <2>2. Holding'
    BY <1>1 DEF IInv, Holding, vars, sessionVars, objVars, reqVars
  <2>3. SingleOwner'
    BY <1>1 DEF IInv, SingleOwner, vars, monVars, objVars, reqVars
  <2> QED BY <2>1, <2>2, <2>3 DEF IInv
<1>2. CASE Next
  <2>1. TypeOK  BY DEF IInv
  <2>2. SessionTypeOK(RequestLabels)'  BY <1>2, <2>1, SessionTyped
  <2>3. MonOK' /\ ObjOK' /\ ReqOK' /\ EventOK' /\ HistoryOK'
    BY <1>2, MonitorsTyped, ObjectsTyped, RequestsTyped, EventTyped, HistoryTyped
  <2>4. TypeOK'
    BY <2>2, <2>3 DEF TypeOK, MonOK, ObjOK, ReqOK, EventOK, HistoryOK
  <2> QED BY <1>2, <2>4, HoldingStep, OwnerStep DEF IInv
<1> QED BY <1>1, <1>2

(* NewIdleManager starts in it. *)
LEMMA Initially ==
    ASSUME SessionAssumption, MonitorAssumption, Init
    PROVE  IInv
<1> USE SessionAssumption, MonitorAssumption
        DEF SessionAssumption, MonitorAssumption, Init, SessionInit, Mons, Notifs
<1>1. SessionTypeOK(RequestLabels)
  BY DEF SessionTypeOK, RequestLabels, Connections, Procs
<1>2. MonOK /\ ObjOK /\ ReqOK  BY DEF MonOK, ObjOK, ReqOK
<1>3. EventOK /\ HistoryOK  BY DEF EventOK, HistoryOK, NoEvent
<1>4. Holding  BY DEF Holding, RequestLabels, Procs
<1>5. SingleOwner  BY DEF SingleOwner
<1> QED BY <1>1, <1>2, <1>3, <1>4, <1>5
        DEF IInv, TypeOK, MonOK, ObjOK, ReqOK, EventOK, HistoryOK

(* IInv is an invariant of the idle monitors. *)
THEOREM Invariance == Spec => []IInv
<1>1. Init => IInv  BY Initially, SessionAssumption, MonitorAssumption
<1>2. IInv /\ [Next]_vars => IInv'  BY Inductive, SessionAssumption, MonitorAssumption
<1> QED BY <1>1, <1>2, PTL DEF Spec

(* Every field of the monitors keeps its type. *)
THEOREM TypeCorrect == Spec => []TypeOK
<1>1. IInv => TypeOK  BY DEF IInv
<1> QED BY <1>1, Invariance, PTL

(* refreshMonitor, DestroyIdleMonitor and invalidateStaleProxies never leave
   a notification in two hands, so that none is destroyed twice, whatever
   the number of requests, monitors, connections and compositor exits. *)
THEOREM OneHand == Spec => []SingleOwner
<1>1. IInv => SingleOwner  BY DEF IInv
<1> QED BY <1>1, Invariance, PTL

----------------------------------------------------------------------------

\* With the first connection up nobody connects, and no request fails but for
\* a monitor that was destroyed.
FirstSession ==
    /\ opened = 1 /\ globals = 1 /\ display = 1 /\ 1 \in synced
    /\ pc[Dispatcher] \in {"top", "read", "event", "callback"}
    /\ pc[Dispatcher] = "read" => gen[Dispatcher] = 1
    /\ \A r \in Requests : pc[r] \in {"idle", "refresh", "drop", "clear", "callback",
                                      "create", "install", "kill", "error"}
    /\ \A n \in live : conn[n] = 1

\* Monitors not created yet, and destroyed ones.
Numbered ==
    /\ \A m \in Mons : m > ids => ref[m] = 0 /\ ~deleted[m] /\ \A r \in Requests : target[r] # m
    /\ \A m \in table : ~deleted[m]

\* The labels of a refresh after it took the notification out of the field.
Emptied == {"drop", "clear", "callback", "create", "install"}

\* A request that refreshes m and has begun has cleared its field and works
\* with its flag.
Stage(r, m) ==
    /\ pc[r] = "error" => deleted[m]
    /\ pc[r] # "error" /\ ~deleted[m] => m \in table
    /\ pc[r] \in Emptied => ref[m] = 0 /\ want[r] = enabled[m]
    /\ pc[r] \in {"create", "install"} => want[r]
    /\ pc[r] = "install" => new[r] # 0

\* Only one request refreshes m; when none does, the field is set just if m
\* is there and enabled.
Alone(m) ==
    /\ \A r, q \in Requests : Refreshing(r, m) /\ Refreshing(q, m) => r = q
    /\ \A r \in Requests : Refreshing(r, m) => Stage(r, m)
    /\ (\A r \in Requests : ~Refreshing(r, m)) =>
          (ref[m] # 0 <=> m \in table /\ enabled[m])

\* The notifications of m are the field's or in the hand of a request on m.
Accounted(m) ==
    \A n \in live : owner[n] = m =>
        n = ref[m] \/ \E r \in Requests : target[r] = m /\ n \in {old[r], new[r]}

FirstConnection ==
    1 \in alive =>
        /\ FirstSession
        /\ \A m \in Mons : ~overlapped[m] => Alone(m) /\ Accounted(m)

\* The inductive invariant about notifications.
IInv1 == IInv /\ Numbered /\ FirstConnection

\* Nothing about monitor m changes.
Same(m) ==
    /\ ref'[m] = ref[m] /\ deleted'[m] = deleted[m] /\ enabled'[m] = enabled[m]
    /\ m \in table' <=> m \in table
    /\ overlapped'[m] = overlapped[m]
    /\ \A r \in Requests :
          /\ target'[r] = m <=> target[r] = m
          /\ target[r] = m => /\ pc'[r] = pc[r] /\ old'[r] = old[r]
                              /\ new'[r] = new[r] /\ want'[r] = want[r]
    /\ \A n \in live' : owner'[n] = m => n \in live /\ owner[n] = m

(* A step that does not touch m keeps what is known of m. *)
LEMMA SameKeeps ==
    ASSUME NEW m \in Mons, Same(m), ~overlapped[m] => Alone(m) /\ Accounted(m)
    PROVE  ~overlapped'[m] => Alone(m)' /\ Accounted(m)'
<1> SUFFICES ASSUME ~overlapped'[m]  PROVE Alone(m)' /\ Accounted(m)'
  OBVIOUS
<1>0. Alone(m) /\ Accounted(m)  BY DEF Same
<1>1. \A r \in Requests : Refreshing(r, m)' <=> Refreshing(r, m)
  BY DEF Same, Refreshing
<1>2. \A r \in Requests : Refreshing(r, m) =>
         pc'[r] = pc[r] /\ want'[r] = want[r] /\ new'[r] = new[r]
  BY DEF Same, Refreshing
<1>3. \A r \in Requests : Refreshing(r, m)' => Stage(r, m)'
  BY <1>0, <1>1, <1>2 DEF Alone, Same, Stage
<1>4. Alone(m)'  BY <1>0, <1>1, <1>3 DEF Alone, Same
<1>5. Accounted(m)'  BY <1>0 DEF Accounted, Same
<1> QED BY <1>4, <1>5

(* A step that changes no monitor and no notification and moves no request
   touches no monitor. *)
LEMMA AllSame ==
    ASSUME UNCHANGED <<monVars, reqVars, objVars, overlapped>>,
           \A r \in Requests : pc'[r] = pc[r]
    PROVE  \A m \in Mons : Same(m)
BY DEF Same, monVars, reqVars, objVars

(* While the first connection lasts it has lasted from the start, nobody opens
   another one (getIdleConn finds it), and so no stale proxy is invalidated. *)
LEMMA FirstLasts ==
    ASSUME SessionAssumption, MonitorAssumption, IInv1, Next, 1 \in alive'
    PROVE  /\ 1 \in alive
           /\ SessionStep /\ UNCHANGED Ours => UNCHANGED <<pc, opened, globals, display, synced, gen>>
                \/ LoopTop
           /\ \A p \in Procs : ~InvalidateStaleProxies(p)
<1>0. opened \in Nat \ {0}  BY DEF IInv1, IInv, TypeOK, SessionTypeOK, Connections
<1>1. 1 \in alive
  <2>1. CASE alive' \subseteq alive  BY <2>1
  <2>2. CASE \E p \in Procs : Connect(p)  BY <1>0, <2>2 DEF Connect
  <2>3. CASE SessionStep
    BY <2>1, <2>2, <2>3 DEF SessionStep, LoopTop, ReadFails, HandshakeStolen, CompositorExit,
       CompositorStart, ConnectRefused, Handshake, HandshakeFails, HandshakeResumed
  <2>4. CASE UNCHANGED alive  BY <2>4
  <2>5. CASE \E p \in Procs : InvalidateStaleProxies(p)
    BY <2>4, <2>5 DEF InvalidateStaleProxies, Invalidate
  <2>6. CASE \/ EventApply \/ EventCallback
             \/ \E n \in Notifs, idle \in BOOLEAN : NotificationEvent(n, idle)
    BY <2>4, <2>6 DEF EventApply, EventCallback, NotificationEvent, SessionRest
  <2>7. ASSUME NEW r \in Requests,
               \/ Start(r) \/ Quick(r) \/ Snapshot(r) \/ Drop(r) \/ Clear(r) \/ Callback(r)
               \/ CreateNotification(r) \/ CreateBroken(r) \/ Install(r) \/ Kill(r) \/ Fail(r)
        PROVE  UNCHANGED alive
    BY <2>7 DEF SessionRest, Start, CreateMonitor, UpdateMonitor, DestroyMonitor, Quick, SnapshotDeleted,
       Unsupported, Reconnected, Snapshot, Drop, Clear, Callback, CreateNotification,
       CreateBroken, Install, Kill, Fail
  <2> QED BY Cases, <2>3, <2>4, <2>5, <2>6, <2>7
<1>2. FirstSession  BY <1>1 DEF IInv1, FirstConnection
<1>3. \A p \in Procs : pc[p] \notin {"connect", "handshake", "bound"}
  BY <1>2 DEF FirstSession, Procs
<1>4. \A p \in Procs : ~InvalidateStaleProxies(p)
  BY <1>3 DEF InvalidateStaleProxies, Invalidate
<1>5. ASSUME SessionStep
      PROVE  UNCHANGED <<pc, opened, globals, display, synced, gen>> \/ LoopTop
  <2>1. CASE CompositorExit \/ CompositorStart  BY <2>1 DEF CompositorExit, CompositorStart
  <2>2. ~ReadFails /\ ~HandshakeStolen
    BY <1>1, <1>2 DEF FirstSession, ReadFails, HandshakeStolen
  <2>3. \A p \in Procs : ~(Connect(p) \/ ConnectRefused(p) \/ Handshake(p)
                           \/ HandshakeFails(p) \/ HandshakeResumed(p))
    BY <1>3 DEF Connect, ConnectRefused, Handshake, HandshakeFails, HandshakeResumed
  <2> QED BY <1>5, <2>1, <2>2, <2>3 DEF SessionStep
<1> QED BY <1>1, <1>4, <1>5

(* Every step that leaves the first connection up leaves the session on it. *)
LEMMA FirstSessionStep ==
    ASSUME SessionAssumption, MonitorAssumption, IInv1, Next, 1 \in alive'
    PROVE  FirstSession'
<1> USE SessionAssumption DEF SessionAssumption, Procs
<1>0. 1 \in alive /\ FirstSession  BY FirstLasts DEF IInv1, FirstConnection
<1>a. pc \in [Procs -> RequestLabels \cup {"top", "read", "event", "callback", "connect",
                "handshake", "bound"}] /\ gen \in [Procs -> 0..opened]
      /\ Dispatcher \in Procs /\ Requests \subseteq Procs
  BY DEF IInv1, IInv, TypeOK, SessionTypeOK
<1>1. CASE SessionStep /\ UNCHANGED Ours
  <2>1. CASE UNCHANGED <<pc, opened, globals, display, synced, gen>>
    BY <1>0, <1>1, <2>1 DEF FirstSession, Ours, objVars
  <2>2. CASE LoopTop
    BY <1>0, <1>a, <1>1, <2>2 DEF LoopTop, FirstSession, Ours, objVars, Go
  <2> QED BY <1>1, <2>1, <2>2, FirstLasts
(* A step that keeps the session and moves one process. *)
<1>2. ASSUME NEW p \in Procs, NEW l, Go(p, l),
             UNCHANGED <<opened, globals, display, synced, gen>>,
             p = Dispatcher => l \in {"top", "event", "callback"},
             p # Dispatcher => l \in {"idle", "refresh", "drop", "clear", "callback",
                                      "create", "install", "kill", "error"},
             \A n \in live' : conn'[n] = 1
      PROVE  FirstSession'
  BY <1>0, <1>a, <1>2 DEF FirstSession, Go
<1>3. CASE \/ EventApply \/ EventCallback
           \/ \E n \in Notifs, idle \in BOOLEAN : NotificationEvent(n, idle)
  BY <1>0, <1>2, <1>3 DEF EventApply, EventCallback, NotificationEvent, SessionRest, objVars,
     FirstSession
<1>4. ASSUME NEW r \in Requests,
             Start(r) \/ Snapshot(r) \/ Clear(r) \/ Callback(r) \/ Install(r) \/ Fail(r)
      PROVE  FirstSession'
  <2>1. \A n \in live' : conn'[n] = 1
    BY <1>0, <1>4 DEF FirstSession, Start, CreateMonitor, UpdateMonitor, DestroyMonitor,
       Snapshot, Clear, Callback, Install, Fail, objVars
  <2>2. CASE Start(r) \/ Snapshot(r)
    BY <1>2, <2>1, <2>2 DEF Start, CreateMonitor, UpdateMonitor, DestroyMonitor,
       Snapshot, SessionRest
  <2>3. CASE Clear(r) \/ Callback(r) \/ Install(r) \/ Fail(r)
    BY <1>2, <2>1, <2>3 DEF Clear, Callback, Install, Fail, Done, Proceed, SessionRest
  <2> QED BY <1>4, <2>2, <2>3
<1>5. ASSUME NEW r \in Requests, Drop(r) \/ Kill(r)  PROVE FirstSession'
  BY <1>0, <1>2, <1>5 DEF Drop, Kill, Done, SessionRest, FirstSession
<1>6. ASSUME NEW r \in Requests, CreateNotification(r)  PROVE FirstSession'
  <2>1. ObjOK  BY DEF IInv1, IInv, TypeOK, ObjOK
  <2>2. /\ conn' = [conn EXCEPT ![notifs + 1] = globals] /\ live' = live \cup {notifs + 1}
        /\ notifs < MaxNotifs
    BY <1>6 DEF CreateNotification
  <2>3. \A n \in live' : conn'[n] = 1
    BY <1>0, <2>1, <2>2, MonitorAssumption DEF FirstSession, ObjOK, Notifs, MonitorAssumption
  <2> QED BY <1>2, <1>6, <2>3 DEF CreateNotification, SessionRest
<1>7. ASSUME NEW r \in Requests  PROVE ~CreateBroken(r) /\ (Quick(r) => SnapshotDeleted(r))
  BY <1>0 DEF CreateBroken, Quick, Unsupported, Reconnected, FirstSession
<1>8. ASSUME NEW r \in Requests, SnapshotDeleted(r)  PROVE FirstSession'
  BY <1>0, <1>2, <1>8 DEF SnapshotDeleted, SessionRest, objVars, FirstSession
<1> QED BY Cases, FirstLasts, <1>1, <1>3, <1>4, <1>5, <1>6, <1>7, <1>8

(* CreateIdleMonitor never hands out a number twice, and DestroyIdleMonitor
   takes the monitor out of the table as it marks it deleted. *)
LEMMA NumberedStep ==
    ASSUME SessionAssumption, MonitorAssumption, IInv1, Next
    PROVE  Numbered'
<1> USE MonitorAssumption DEF MonitorAssumption, Mons
<1>0. Numbered /\ MonOK /\ ReqOK
  BY DEF IInv1, IInv, TypeOK, MonOK, ReqOK
<1>1. CASE UNCHANGED <<ids, ref, deleted, target, table>>
  BY <1>0, <1>1 DEF Numbered
<1>2. CASE \/ SessionStep /\ UNCHANGED Ours
           \/ EventApply \/ EventCallback
           \/ \E n \in Notifs, idle \in BOOLEAN : NotificationEvent(n, idle)
           \/ \E r \in Requests : \/ Quick(r) \/ Drop(r) \/ CreateNotification(r)
                                  \/ CreateBroken(r)
  BY <1>1, <1>2 DEF Ours, monVars, reqVars, EventApply, EventCallback, NotificationEvent,
     Quick, SnapshotDeleted, Unsupported, Reconnected, Drop, CreateNotification, CreateBroken
<1>3. ASSUME NEW r \in Requests, Done(r), UNCHANGED <<ids, ref, deleted>>, table' \subseteq table
      PROVE  Numbered'
  BY <1>0, <1>3 DEF Numbered, Done, ReqOK
<1>4. ASSUME NEW r \in Requests, Clear(r) \/ Callback(r) \/ Kill(r) \/ Fail(r)
      PROVE  Numbered'
  BY <1>1, <1>3, <1>4 DEF Clear, Callback, Kill, Fail, Proceed, monVars, reqVars
<1>5. ASSUME NEW r \in Requests, NEW on \in BOOLEAN, CreateMonitor(r, on)  PROVE Numbered'
  <2>1. /\ ids' = ids + 1 /\ table' = table \cup {ids + 1} /\ UNCHANGED <<ref, deleted>>
        /\ target' = [target EXCEPT ![r] = ids + 1] /\ ids < MaxIds
    BY <1>5 DEF CreateMonitor, Begin
  <2>2. ids + 1 \in Mons /\ ids + 1 > ids /\ ids \in Nat  BY <1>0, <2>1 DEF MonOK
  <2> QED BY <1>0, <2>1, <2>2 DEF Numbered, ReqOK, MonOK
<1>6. ASSUME NEW r \in Requests, NEW m \in Mons,
             DestroyMonitor(r, m) \/ \E on \in BOOLEAN : UpdateMonitor(r, m, on)
      PROVE  Numbered'
  <2>1. m <= ids  BY <1>0, <1>6 DEF DestroyMonitor, UpdateMonitor, MonOK
  <2>2. ids' = ids /\ target' = [target EXCEPT ![r] = m]
    BY <1>6 DEF DestroyMonitor, UpdateMonitor, Begin
  <2>3. CASE UNCHANGED <<ref, deleted, table>>  BY <1>0, <2>1, <2>2, <2>3 DEF Numbered, ReqOK, MonOK
  <2>4. CASE DestroyMonitor(r, m)
    <3>1. /\ ref' = [ref EXCEPT ![m] = 0] /\ deleted' = [deleted EXCEPT ![m] = TRUE]
          /\ table' = table \ {m}
      BY <2>4 DEF DestroyMonitor
    <3> QED BY <1>0, <2>1, <2>2, <3>1 DEF Numbered, ReqOK, MonOK
  <2> QED BY <1>6, <2>3, <2>4 DEF UpdateMonitor
<1>7. ASSUME NEW r \in Requests, Snapshot(r)  PROVE Numbered'
  <2>1. ref' = [ref EXCEPT ![target[r]] = 0] /\ UNCHANGED <<ids, deleted, table, target>>
    BY <1>7 DEF Snapshot
  <2> QED BY <1>0, <2>1 DEF Numbered, MonOK
<1>8. ASSUME NEW r \in Requests, Install(r)  PROVE Numbered'
  <2>1. CASE Done(r)
    <3>1. target[r] \in Mons /\ target[r] <= ids
      <4>1. target[r] \in Mons  BY <1>8 DEF Install, IInv1, IInv, Holding
      <4>2. ~(target[r] > ids)  BY <1>0, <4>1 DEF Numbered
      <4>3. ids \in Nat  BY <1>0 DEF MonOK
      <4> QED BY <4>1, <4>2, <4>3
    <3>2. \/ ref' = ref \/ ref' = [ref EXCEPT ![target[r]] = new[r]]
      BY <1>8 DEF Install
    <3>3. UNCHANGED <<ids, deleted, table>> /\ target' = [target EXCEPT ![r] = 0]
      BY <1>8, <2>1 DEF Install, Done
    <3> QED BY <1>0, <3>1, <3>2, <3>3 DEF Numbered, MonOK, ReqOK
  <2>2. CASE ~Done(r)  BY <1>1, <1>8, <2>2 DEF Install
  <2> QED BY <2>1, <2>2
<1>9. ASSUME NEW r \in Requests, Start(r)  PROVE Numbered'
  <2>1. 1 \in Mons  OBVIOUS
  <2> QED BY <1>5, <1>6, <1>9, <2>1 DEF Start
<1>10. ASSUME NEW p \in Procs, InvalidateStaleProxies(p)  PROVE Numbered'
  BY <1>0, <1>10 DEF InvalidateStaleProxies, Numbered, MonOK, reqVars
<1> QED BY Cases, <1>2, <1>4, <1>7, <1>8, <1>9, <1>10

(* While the first connection lasts, every step leaves m with at most one request
   that refreshes it and with no notification out of everyone's hand, unless a
   second request begins before the first has ended. *)
LEMMA MonitorStep ==
    ASSUME SessionAssumption, MonitorAssumption, IInv1, Next, 1 \in alive', NEW m \in Mons
    PROVE  ~overlapped'[m] => Alone(m)' /\ Accounted(m)'
<1> USE SessionAssumption, MonitorAssumption DEF SessionAssumption, MonitorAssumption, Procs
<1>0. /\ Holding /\ SingleOwner /\ MonOK /\ ObjOK /\ ReqOK /\ HistoryOK
      /\ FirstSession /\ Numbered /\ (~overlapped[m] => Alone(m) /\ Accounted(m))
  BY FirstLasts DEF IInv1, FirstConnection, IInv, TypeOK, MonOK, ObjOK, ReqOK, HistoryOK
<1>a. pc \in [Procs -> RequestLabels \cup {"top", "read", "event", "callback", "connect",
                "handshake", "bound"}]
  BY DEF IInv1, IInv, TypeOK, SessionTypeOK
<1>1. CASE Same(m)  BY <1>0, <1>1, SameKeeps
<1>2. CASE SessionStep /\ UNCHANGED Ours
  <2>1. \A r \in Requests : pc'[r] = pc[r]
    BY <1>2, <1>a, FirstLasts DEF LoopTop, Go
  <2> QED BY <1>1, <1>2, <2>1, AllSame DEF Ours, history
<1>3. CASE EventApply \/ EventCallback
           \/ \E n \in Notifs, idle \in BOOLEAN : NotificationEvent(n, idle)
  <2>1. \A r \in Requests : pc'[r] = pc[r]
    BY <1>3, <1>a DEF EventApply, EventCallback, NotificationEvent, Go
  <2>2. UNCHANGED <<ids, table, enabled, deleted, ref, reqVars, objVars, overlapped>>
    BY <1>3 DEF EventApply, EventCallback, NotificationEvent, monVars, history
  <2>3. Same(m)  BY <2>1, <2>2 DEF Same, reqVars, objVars
  <2> QED BY <1>1, <2>3
(* What a request's step leaves alone. *)
<1>4. ASSUME NEW r \in Requests,
             \/ Quick(r) \/ Snapshot(r) \/ Drop(r) \/ Clear(r) \/ Callback(r)
             \/ CreateNotification(r) \/ CreateBroken(r) \/ Install(r) \/ Kill(r) \/ Fail(r)
      PROVE  /\ \A q \in Requests : q # r =>
                   /\ pc'[q] = pc[q] /\ target'[q] = target[q] /\ old'[q] = old[q]
                   /\ new'[q] = new[q] /\ want'[q] = want[q]
             /\ UNCHANGED <<deleted, enabled, overlapped>>
  <2>1. CASE Quick(r) \/ Snapshot(r) \/ Drop(r) \/ CreateNotification(r) \/ CreateBroken(r)
    BY <1>0, <1>a, <1>4, <2>1 DEF Quick, SnapshotDeleted, Unsupported, Reconnected, Snapshot, Drop,
       CreateNotification, CreateBroken, Go, reqVars, ReqOK, monVars, history
  <2>2. CASE Clear(r) \/ Callback(r) \/ Install(r) \/ Kill(r) \/ Fail(r)
    BY <1>0, <1>a, <1>4, <2>2 DEF Clear, Callback, Install, Kill, Fail, Proceed, Done, Go,
       reqVars, ReqOK, monVars, history
  <2> QED BY <1>4, <2>1, <2>2
(* Requests on another monitor. *)
<1>5. ASSUME NEW r \in Requests, target[r] # m,
             \/ Quick(r) \/ Snapshot(r) \/ Drop(r) \/ Clear(r) \/ Callback(r)
             \/ CreateNotification(r) \/ CreateBroken(r) \/ Install(r) \/ Kill(r) \/ Fail(r)
      PROVE  Same(m)
  <2>2. target'[r] \in {target[r], 0}
    <3>1. CASE Quick(r) \/ Snapshot(r) \/ Drop(r) \/ CreateNotification(r) \/ CreateBroken(r)
      BY <1>5, <3>1 DEF Quick, SnapshotDeleted, Unsupported, Reconnected, Snapshot, Drop,
         CreateNotification, CreateBroken, reqVars
    <3>2. CASE Clear(r) \/ Callback(r) \/ Install(r) \/ Kill(r) \/ Fail(r)
      BY <1>0, <1>5, <3>2 DEF Clear, Callback, Install, Kill, Fail, Proceed, Done,
         reqVars, ReqOK
    <3> QED BY <1>5, <3>1, <3>2
  <2>3. m # 0  BY DEF Mons
  <2>4. /\ ref'[m] = ref[m] /\ deleted'[m] = deleted[m] /\ enabled'[m] = enabled[m]
        /\ m \in table' <=> m \in table
    <3>1. UNCHANGED <<deleted, enabled>>  BY <1>4, <1>5
    <3>2. ref' = ref \/ \E x : ref' = [ref EXCEPT ![target[r]] = x]
      BY <1>5 DEF Quick, SnapshotDeleted, Unsupported, Reconnected, Snapshot, Drop,
         CreateNotification, CreateBroken, Clear, Callback, Install, Kill, Fail, monVars
    <3>3. table' \in {table, table \ {target[r]}}
      BY <1>5 DEF Quick, SnapshotDeleted, Unsupported, Reconnected, Snapshot, Drop,
         CreateNotification, CreateBroken, Clear, Callback, Install, Kill, Fail, monVars
    <3> QED BY <1>0, <1>5, <3>1, <3>2, <3>3 DEF MonOK
  <2>5. overlapped' = overlapped  BY <1>4, <1>5
  <2>6. \A n \in live' : owner'[n] = m => n \in live /\ owner[n] = m
    <3>1. CASE CreateNotification(r)
      <4>1. /\ live' = live \cup {notifs + 1} /\ notifs < MaxNotifs
            /\ owner' = [owner EXCEPT ![notifs + 1] = target[r]]
        BY <3>1 DEF CreateNotification
      <4>2. notifs + 1 \in Notifs  BY <1>0, <4>1 DEF ObjOK, Notifs
      <4> QED BY <1>0, <1>5, <4>1, <4>2 DEF ObjOK
    <3>2. CASE ~CreateNotification(r)
      BY <1>5, <3>2 DEF Quick, SnapshotDeleted, Unsupported, Reconnected, Snapshot, Drop,
         CreateBroken, Clear, Callback, Install, Kill, Fail, objVars
    <3> QED BY <3>1, <3>2
  <2> QED BY <1>5, <1>4, <2>2, <2>3, <2>4, <2>5, <2>6 DEF Same
(* The request that refreshes m, or destroys a notification of it. *)
<1>6. ASSUME NEW r \in Requests, target[r] = m, pc[r] # "kill", ~overlapped[m],
             \/ Quick(r) \/ Snapshot(r) \/ Drop(r) \/ Clear(r) \/ Callback(r)
             \/ CreateNotification(r) \/ CreateBroken(r) \/ Install(r) \/ Kill(r) \/ Fail(r)
      PROVE  /\ Stage(r, m)
             /\ \A q \in Requests : q # r => ~Refreshing(q, m) /\ ~Refreshing(q, m)'
             /\ target'[r] = m /\ pc'[r] # "kill" /\ Stage(r, m)' => Alone(m)'
             /\ /\ target'[r] # m \/ pc'[r] = "kill"
                /\ ref'[m] # 0 <=> m \in table' /\ enabled'[m]
                => Alone(m)'
  <2>1. Refreshing(r, m) /\ Alone(m)  BY <1>0, <1>6 DEF Refreshing
  <2>2. \A q \in Requests : q # r => ~Refreshing(q, m)  BY <2>1 DEF Alone
  <2>3. \A q \in Requests : q # r => ~Refreshing(q, m)'
    BY <1>4, <1>6, <2>2 DEF Refreshing
  <2>4. Stage(r, m)  BY <2>1 DEF Alone
  <2>5. ASSUME target'[r] = m /\ pc'[r] # "kill" /\ Stage(r, m)'  PROVE Alone(m)'
    <3>1. Refreshing(r, m)'  BY <2>5 DEF Refreshing
    <3> QED BY <2>3, <2>5, <3>1 DEF Alone
  <2>6. ASSUME target'[r] # m \/ pc'[r] = "kill", ref'[m] # 0 <=> m \in table' /\ enabled'[m]
        PROVE  Alone(m)'
    <3>1. ~Refreshing(r, m)'  BY <2>6 DEF Refreshing
    <3> QED BY <2>3, <2>6, <3>1 DEF Alone
  <2> QED BY <2>2, <2>3, <2>4, <2>5, <2>6
<1>7. ASSUME NEW r \in Requests, target[r] = m, Quick(r), ~overlapped'[m]
      PROVE  Alone(m)' /\ Accounted(m)'
  <2>1. SnapshotDeleted(r)
    BY <1>0, <1>7 DEF Quick, Unsupported, Reconnected, FirstSession
  <2>2. /\ pc[r] = "refresh" /\ pc'[r] = "error" /\ deleted[m]
        /\ UNCHANGED <<monVars, objVars, reqVars>>
    BY <1>a, <1>7, <2>1 DEF SnapshotDeleted, Go
  <2>3. Stage(r, m)'  BY <2>2 DEF Stage, monVars, reqVars, Emptied
  <2>4. ~overlapped[m]  BY <1>4, <1>7
  <2>5. Alone(m)'  BY <1>6, <1>7, <2>2, <2>3, <2>4 DEF reqVars
  <2>6. Accounted(m)'  BY <1>0, <2>2, <2>4 DEF Accounted, monVars, objVars, reqVars
  <2> QED BY <2>5, <2>6
<1>8. ASSUME NEW r \in Requests, target[r] = m, Snapshot(r), ~overlapped'[m]
      PROVE  Alone(m)' /\ Accounted(m)'
  <2>1. /\ pc[r] = "refresh" /\ pc'[r] = "drop" /\ ~deleted[m]
        /\ ref' = [ref EXCEPT ![m] = 0] /\ old' = [old EXCEPT ![r] = ref[m]]
        /\ want'[r] = enabled[m]
        /\ UNCHANGED <<table, enabled, deleted, objVars, target, new>>
    BY <1>0, <1>a, <1>8 DEF Snapshot, Go, ReqOK
  <2>2. ~overlapped[m]  BY <1>4, <1>8
  <2>3. Stage(r, m)'
    BY <1>0, <1>6, <1>8, <2>1, <2>2 DEF Stage, MonOK, Emptied
  <2>4. Alone(m)'  BY <1>6, <1>8, <2>1, <2>2, <2>3
  <2>5. old[r] = 0 /\ new[r] = 0  BY <1>0, <2>1 DEF Holding
  <2>6. Accounted(m)'
    BY <1>0, <1>8, <2>1, <2>2, <2>5 DEF Accounted, objVars, MonOK, ReqOK
  <2> QED BY <2>4, <2>6
<1>9. ASSUME NEW r \in Requests, target[r] = m, Drop(r), ~overlapped'[m]
      PROVE  Alone(m)' /\ Accounted(m)'
  <2>1. /\ pc[r] = "drop" /\ pc'[r] = "clear" /\ live' = live \ {old[r]}
        /\ old' = [old EXCEPT ![r] = 0]
        /\ UNCHANGED <<monVars, owner, target, want, new>>
    BY <1>a, <1>9 DEF Drop, Go
  <2>2. ~overlapped[m]  BY <1>4, <1>9
  <2>3. Stage(r, m)'
    BY <1>6, <1>9, <2>1, <2>2 DEF Stage, monVars, Emptied
  <2>4. Alone(m)'  BY <1>6, <1>9, <2>1, <2>2, <2>3
  <2>5. Accounted(m)'
    BY <1>0, <1>9, <2>1, <2>2 DEF Accounted, monVars, ReqOK
  <2> QED BY <2>4, <2>5
(* A request that ends has nothing in its hand, or has just handed it over. *)
<1>10. ASSUME NEW r \in Requests, target[r] = m, Done(r), ~overlapped[m],
              \A n \in live' : n \in {old[r], new[r]} => n = ref'[m],
              \A n \in live : n = ref[m] => n = ref'[m],
              live' \subseteq live, UNCHANGED owner
       PROVE  Accounted(m)'
  <2>1. \A q \in Requests : q # r =>
           target'[q] = target[q] /\ old'[q] = old[q] /\ new'[q] = new[q]
    BY <1>0, <1>10 DEF Done, ReqOK
  <2> QED BY <1>0, <1>10, <2>1 DEF Accounted
<1>11. ASSUME NEW r \in Requests, target[r] = m, Clear(r) \/ Callback(r), ~overlapped'[m]
       PROVE  Alone(m)' /\ Accounted(m)'
  <2>1. /\ pc[r] \in {"clear", "callback"}
        /\ UNCHANGED <<ref, table, enabled, deleted, objVars>>
    BY <1>11 DEF Clear, Callback, monVars
  <2>2. ~overlapped[m]  BY <1>4, <1>11
  <2>3. Stage(r, m) /\ old[r] = 0 /\ new[r] = 0
    BY <1>0, <1>6, <1>11, <2>1, <2>2 DEF Holding
  <2>4. m # 0  BY DEF Mons
  <2>5. CASE Done(r)
    <3>1. target'[r] # m  BY <1>0, <2>4, <2>5 DEF Done, ReqOK
    <3>2. ~want[r]
      <4>1. CASE Proceed(r)
        <5>1. want[r] => pc'[r] = "create"  BY <1>a, <4>1 DEF Proceed, Go
        <5>2. pc'[r] = "idle"  BY <1>a, <2>5 DEF Done, Go
        <5> QED BY <5>1, <5>2
      <4>2. CASE ~Proceed(r)
        <5>1. pc'[r] = "callback"  BY <1>a, <1>11, <4>2 DEF Clear, Callback, Go
        <5>2. pc'[r] = "idle"  BY <1>a, <2>5 DEF Done, Go
        <5> QED BY <5>1, <5>2
      <4> QED BY <4>1, <4>2
    <3>3. ref'[m] = 0 /\ ~enabled'[m]  BY <2>1, <2>3, <3>2 DEF Stage, Emptied
    <3>4. Alone(m)'  BY <1>6, <1>11, <2>1, <2>2, <3>1, <3>3
    <3>5. 0 \notin live  BY <1>0 DEF ObjOK
    <3>6. Accounted(m)'  BY <1>10, <1>11, <2>1, <2>2, <2>3, <2>5, <3>5 DEF objVars
    <3> QED BY <3>4, <3>6
  <2>6. CASE ~Done(r)
    <3>1. /\ pc'[r] \in {"create", "callback"}
          /\ pc'[r] = "create" => want[r]
          /\ UNCHANGED <<target, old, new, want>>
      BY <1>a, <1>11, <2>6 DEF Clear, Callback, Proceed, Go, reqVars
    <3>2. Stage(r, m)'
      <4>1. ref[m] = 0 /\ want[r] = enabled[m] /\ (~deleted[m] => m \in table)
        BY <2>1, <2>3 DEF Stage, Emptied
      <4> QED BY <2>1, <3>1, <4>1 DEF Stage
    <3>3. Alone(m)'  BY <1>6, <1>11, <2>1, <2>2, <3>1, <3>2
    <3>4. Accounted(m)'  BY <1>0, <2>1, <2>2, <3>1 DEF Accounted, objVars
    <3> QED BY <3>3, <3>4
  <2> QED BY <2>5, <2>6
<1>12. ASSUME NEW r \in Requests, target[r] = m, CreateNotification(r), ~overlapped'[m]
       PROVE  Alone(m)' /\ Accounted(m)'
  <2>1. /\ pc[r] = "create" /\ pc'[r] = "install" /\ notifs < MaxNotifs
        /\ live' = live \cup {notifs + 1}
        /\ owner' = [owner EXCEPT ![notifs + 1] = m]
        /\ new' = [new EXCEPT ![r] = notifs + 1]
        /\ UNCHANGED <<monVars, target, old, want>>
    BY <1>a, <1>12 DEF CreateNotification, Go
  <2>2. ~overlapped[m]  BY <1>4, <1>12
  <2>3. notifs + 1 # 0 /\ notifs + 1 \notin live /\ new'[r] = notifs + 1
    BY <1>0, <2>1 DEF ObjOK, ReqOK
  <2>4. Stage(r, m)'
    BY <1>6, <1>12, <2>1, <2>2, <2>3 DEF Stage, monVars, Emptied
  <2>5. Alone(m)'  BY <1>6, <1>12, <2>1, <2>2, <2>4
  <2>6. new[r] = 0  BY <1>0, <2>1 DEF Holding
  <2>7. \A n \in live : owner'[n] = owner[n]  BY <1>0, <2>1, <2>3 DEF ObjOK
  <2>8. \A q \in Requests : q # r => new'[q] = new[q]  BY <1>4, <1>12
  <2>9. Accounted(m)'
    <3> SUFFICES ASSUME NEW n \in live', owner'[n] = m
                 PROVE  n = ref[m] \/ \E q \in Requests : target[q] = m /\ n \in {old[q], new'[q]}
      BY <2>1 DEF Accounted, monVars
    <3>1. CASE n = notifs + 1  BY <1>12, <2>3, <3>1
    <3>2. CASE n # notifs + 1
      <4>1. n \in live /\ owner[n] = m /\ n # 0  BY <1>0, <2>1, <2>7, <3>2 DEF ObjOK
      <4>2. n = ref[m] \/ \E q \in Requests : target[q] = m /\ n \in {old[q], new[q]}
        BY <1>0, <2>2, <4>1 DEF Accounted
      <4> QED BY <2>6, <2>8, <4>1, <4>2
    <3> QED BY <3>1, <3>2
  <2> QED BY <2>5, <2>9
<1>13. ASSUME NEW r \in Requests, target[r] = m, Install(r), ~overlapped'[m]
       PROVE  Alone(m)' /\ Accounted(m)'
  <2>1. pc[r] = "install" /\ UNCHANGED <<table, enabled, deleted, objVars>>
    BY <1>13 DEF Install
  <2>2. ~overlapped[m]  BY <1>4, <1>13
  <2>3. Stage(r, m) /\ old[r] = 0  BY <1>0, <1>6, <1>13, <2>1, <2>2 DEF Holding
  <2>4. m # 0 /\ 0 \notin live  BY <1>0 DEF Mons, ObjOK
  <2>5. CASE deleted[m]
    <3>1. /\ pc'[r] = "kill" /\ old' = [old EXCEPT ![r] = new[r]]
          /\ new' = [new EXCEPT ![r] = 0] /\ UNCHANGED <<ref, target>>
      BY <1>a, <1>13, <2>5 DEF Install, Go
    <3>2. ref[m] = 0 /\ m \notin table  BY <1>0, <2>5 DEF SingleOwner, Numbered
    <3>3. Alone(m)'  BY <1>6, <1>13, <2>1, <2>2, <3>1, <3>2
    <3>4. Accounted(m)'
      BY <1>0, <1>13, <2>1, <2>2, <2>3, <2>4, <3>1 DEF Accounted, objVars, ReqOK
    <3> QED BY <3>3, <3>4
  <2>6. CASE ~deleted[m]
    <3>1. ref' = [ref EXCEPT ![m] = new[r]] /\ Done(r)  BY <1>13, <2>6 DEF Install
    <3>2. /\ ref'[m] = new[r] /\ new[r] # 0 /\ m \in table /\ enabled[m] /\ ref[m] = 0
      BY <1>0, <2>1, <2>3, <2>6, <3>1 DEF Stage, MonOK, Emptied
    <3>3. target'[r] # m  BY <1>0, <2>4, <3>1 DEF Done, ReqOK
    <3>4. Alone(m)'  BY <1>6, <1>13, <2>1, <2>2, <3>2, <3>3
    <3>5. Accounted(m)'  BY <1>10, <1>13, <2>1, <2>2, <2>3, <2>4, <3>1, <3>2 DEF objVars
    <3> QED BY <3>4, <3>5
  <2> QED BY <2>5, <2>6
<1>14. ASSUME NEW r \in Requests, target[r] = m, Kill(r), ~overlapped'[m]
       PROVE  Alone(m)' /\ Accounted(m)'
  <2>1. pc[r] = "kill" /\ live' = live \ {old[r]} /\ Done(r) /\ UNCHANGED <<monVars, owner>>
    BY <1>14 DEF Kill
  <2>2. ~overlapped[m]  BY <1>4, <1>14
  <2>3. new[r] = 0 /\ 0 \notin live  BY <1>0, <2>1 DEF Holding, ObjOK
  <2>4. Accounted(m)'  BY <1>10, <1>14, <2>1, <2>2, <2>3 DEF monVars
  <2>5. \A q \in Requests : Refreshing(q, m)' <=> Refreshing(q, m)
    <3>1. target'[r] # m  BY <1>0, <2>1 DEF Done, ReqOK, Mons
    <3>2. ~Refreshing(r, m) /\ ~Refreshing(r, m)'  BY <2>1, <3>1 DEF Refreshing
    <3>3. ASSUME NEW q \in Requests, q # r  PROVE Refreshing(q, m)' <=> Refreshing(q, m)
      BY <1>4, <1>14, <3>3 DEF Refreshing
    <3> QED BY <3>2, <3>3
  <2>6. \A q \in Requests : Refreshing(q, m) => q # r  BY <2>1 DEF Refreshing
  <2>7. \A q \in Requests : Refreshing(q, m)' => Stage(q, m)'
    BY <1>0, <1>4, <1>14, <2>1, <2>2, <2>5, <2>6 DEF Alone, Stage, monVars
  <2>8. Alone(m)'  BY <1>0, <2>1, <2>2, <2>5, <2>7 DEF Alone, monVars
  <2> QED BY <2>4, <2>8
<1>15. ASSUME NEW r \in Requests, target[r] = m, Fail(r), ~overlapped'[m]
       PROVE  Alone(m)' /\ Accounted(m)'
  <2>1. pc[r] = "error" /\ table' \subseteq table /\ Done(r) /\ UNCHANGED <<ref, objVars>>
    BY <1>15 DEF Fail
  <2>2. ~overlapped[m]  BY <1>4, <1>15
  <2>3. old[r] = 0 /\ new[r] = 0 /\ 0 \notin live  BY <1>0, <2>1 DEF Holding, ObjOK
  <2>4. Accounted(m)'  BY <1>10, <1>15, <2>1, <2>2, <2>3 DEF objVars
  <2>5. deleted[m]  BY <1>6, <1>15, <2>1, <2>2 DEF Stage
  <2>6. ref[m] = 0 /\ m \notin table  BY <1>0, <2>5 DEF SingleOwner, Numbered
  <2>7. target'[r] # m  BY <1>0, <2>1 DEF Done, ReqOK, Mons
  <2>8. Alone(m)'  BY <1>6, <1>15, <2>1, <2>2, <2>6, <2>7
  <2> QED BY <2>4, <2>8
(* New requests. *)
<1>16. ASSUME NEW r \in Requests, NEW on \in BOOLEAN, CreateMonitor(r, on), ~overlapped'[m]
       PROVE  Alone(m)' /\ Accounted(m)'
  <2>1. /\ pc[r] = "idle" /\ pc' = [pc EXCEPT ![r] = "refresh"] /\ ids < MaxIds
        /\ target' = [target EXCEPT ![r] = ids + 1]
        /\ table' = table \cup {ids + 1}
        /\ enabled' = [enabled EXCEPT ![ids + 1] = on]
        /\ UNCHANGED <<deleted, ref, objVars, old, new, want, overlapped>>
    BY <1>16 DEF CreateMonitor, Begin, Go, history
  <2>2. ids + 1 \in Mons /\ ids + 1 > ids /\ ids + 1 # 0  BY <1>0, <2>1 DEF MonOK, Mons
  <2>3. /\ target[r] = 0 /\ target'[r] = ids + 1 /\ pc'[r] = "refresh"
        /\ \A q \in Requests : q # r => pc'[q] = pc[q] /\ target'[q] = target[q]
    BY <1>0, <1>a, <2>1 DEF ReqOK, Holding
  <2>4. m # 0  BY DEF Mons
  <2>5. CASE m # ids + 1
    <3>1. Same(m)  BY <1>0, <2>1, <2>3, <2>4, <2>5 DEF Same, MonOK, objVars
    <3> QED BY <1>1, <1>16, <3>1
  <2>6. CASE m = ids + 1
    <3>1. \A q \in Requests : Refreshing(q, m)' <=> q = r
      BY <1>0, <2>2, <2>3, <2>6 DEF Numbered, Refreshing
    <3>2. Stage(r, m)'  BY <2>1, <2>3, <2>6 DEF Stage, Emptied
    <3>3. Alone(m)'  BY <3>1, <3>2 DEF Alone
    <3>4. Accounted(m)'
      BY <1>0, <1>16, <2>1, <2>2, <2>3, <2>6 DEF Accounted, Numbered, objVars
    <3> QED BY <3>3, <3>4
  <2> QED BY <2>5, <2>6
<1>17. ASSUME NEW r \in Requests, NEW k \in Mons, NEW on \in BOOLEAN, UpdateMonitor(r, k, on),
              ~overlapped'[m]
       PROVE  Alone(m)' /\ Accounted(m)'
  <2>1. /\ pc[r] = "idle" /\ pc' = [pc EXCEPT ![r] = "refresh"]
        /\ k \in table /\ target' = [target EXCEPT ![r] = k]
        /\ enabled' = [enabled EXCEPT ![k] = on]
        /\ overlapped' = [overlapped EXCEPT ![k] = @ \/ \E q \in Requests : Refreshing(q, k)]
        /\ UNCHANGED <<table, deleted, ref, objVars, old, new, want>>
    BY <1>17 DEF UpdateMonitor, Begin, Go
  <2>2. /\ target[r] = 0 /\ target'[r] = k /\ pc'[r] = "refresh"
        /\ \A q \in Requests : q # r => pc'[q] = pc[q] /\ target'[q] = target[q]
    BY <1>0, <1>a, <2>1 DEF ReqOK, Holding
  <2>3. m # 0  BY DEF Mons
  <2>4. CASE m # k
    <3>1. overlapped'[m] = overlapped[m]  BY <1>0, <2>1, <2>4 DEF HistoryOK
    <3>2. Same(m)  BY <1>0, <2>1, <2>2, <2>3, <2>4, <3>1 DEF Same, MonOK, objVars
    <3> QED BY <1>1, <1>17, <3>2
  <2>5. CASE m = k
    <3>1. ~overlapped[m] /\ \A q \in Requests : ~Refreshing(q, m)
      BY <1>0, <1>17, <2>1, <2>5 DEF HistoryOK
    <3>2. \A q \in Requests : Refreshing(q, m)' <=> q = r
      BY <2>2, <2>5, <3>1 DEF Refreshing
    <3>3. Stage(r, m)'  BY <2>1, <2>2, <2>5 DEF Stage, Emptied
    <3>4. Alone(m)'  BY <3>2, <3>3 DEF Alone
    <3>5. Accounted(m)'
      BY <1>0, <2>1, <2>2, <2>3, <3>1 DEF Accounted, objVars
    <3> QED BY <3>4, <3>5
  <2> QED BY <2>4, <2>5
<1>18. ASSUME NEW r \in Requests, NEW k \in Mons, DestroyMonitor(r, k), ~overlapped'[m]
       PROVE  Alone(m)' /\ Accounted(m)'
  <2>1. /\ pc[r] = "idle" /\ pc' = [pc EXCEPT ![r] = "kill"]
        /\ target' = [target EXCEPT ![r] = k]
        /\ deleted' = [deleted EXCEPT ![k] = TRUE] /\ table' = table \ {k}
        /\ ref' = [ref EXCEPT ![k] = 0] /\ old' = [old EXCEPT ![r] = ref[k]]
        /\ UNCHANGED <<enabled, objVars, new, want, overlapped>>
    BY <1>18 DEF DestroyMonitor, Begin, Go, history
  <2>2. /\ target[r] = 0 /\ target'[r] = k /\ pc'[r] = "kill"
        /\ \A q \in Requests : q # r =>
              pc'[q] = pc[q] /\ target'[q] = target[q] /\ old'[q] = old[q]
    BY <1>0, <1>a, <2>1 DEF ReqOK, Holding
  <2>3. m # 0  BY DEF Mons
  <2>4. CASE m # k
    <3>1. Same(m)  BY <1>0, <2>1, <2>2, <2>3, <2>4 DEF Same, MonOK, objVars
    <3> QED BY <1>1, <1>18, <3>1
  <2>5. CASE m = k
    <3>1. /\ ref'[m] = 0 /\ deleted'[m] /\ m \notin table' /\ old'[r] = ref[m]
          /\ ~overlapped[m]
      BY <1>0, <1>18, <2>1, <2>5 DEF MonOK, ReqOK
    <3>2. \A q \in Requests : Refreshing(q, m)' <=> Refreshing(q, m)
      BY <2>2, <2>3 DEF Refreshing
    <3>3. \A q \in Requests : Refreshing(q, m) => q # r
      BY <2>2, <2>3 DEF Refreshing
    <3>4. \A q \in Requests : Refreshing(q, m)' => Stage(q, m)'
      BY <1>0, <2>1, <2>2, <3>1, <3>2, <3>3 DEF Alone, Stage
    <3>5. Alone(m)'  BY <1>0, <3>1, <3>2, <3>4 DEF Alone
    <3>6. Accounted(m)'
      BY <1>0, <2>1, <2>2, <2>3, <2>5, <3>1 DEF Accounted, objVars
    <3> QED BY <3>5, <3>6
  <2> QED BY <2>4, <2>5
<1>19. ASSUME NEW r \in Requests, Start(r), ~overlapped'[m]  PROVE Alone(m)' /\ Accounted(m)'
  BY <1>16, <1>17, <1>18, <1>19 DEF Start
<1>20. ASSUME NEW r \in Requests
       PROVE  ~CreateBroken(r)
  BY <1>0, FirstLasts DEF CreateBroken, FirstSession
<1>21. ASSUME NEW r \in Requests,
              \/ Quick(r) \/ Snapshot(r) \/ Drop(r) \/ Clear(r) \/ Callback(r)
              \/ CreateNotification(r) \/ CreateBroken(r) \/ Install(r) \/ Kill(r) \/ Fail(r)
       PROVE  ~overlapped'[m] => Alone(m)' /\ Accounted(m)'
  BY <1>1, <1>5, <1>7, <1>8, <1>9, <1>11, <1>12, <1>13, <1>14, <1>15, <1>20, <1>21
<1> QED BY Cases, FirstLasts, <1>2, <1>3, <1>19, <1>21

(* The invariant about the first connection is inductive. *)
LEMMA FirstInductive ==
    ASSUME SessionAssumption, MonitorAssumption, IInv1, [Next]_vars
    PROVE  IInv1'
<1>1. CASE UNCHANGED vars
  <2>1. IInv'  BY <1>1, Inductive DEF IInv1
  <2>2. FirstSession' <=> FirstSession
    BY <1>1 DEF FirstSession, vars, sessionVars, objVars
  <2>3. Numbered' <=> Numbered
    BY <1>1 DEF Numbered, vars, monVars, reqVars
  <2>4. \A m \in Mons : Same(m)
    BY <1>1 DEF Same, vars, sessionVars, monVars, objVars, reqVars, history
  <2>5. (1 \in alive)' <=> 1 \in alive  BY <1>1 DEF vars, sessionVars
  <2>6. FirstConnection'
    BY <2>2, <2>3, <2>4, <2>5, SameKeeps DEF IInv1, FirstConnection
  <2> QED BY <2>1, <2>3, <2>6 DEF IInv1
<1>2. CASE Next
  <2>1. IInv'  BY <1>2, Inductive DEF IInv1
  <2>2. FirstConnection'
    BY <1>2, FirstSessionStep, NumberedStep, MonitorStep DEF FirstConnection
  <2> QED BY <1>2, <2>1, <2>2, NumberedStep DEF IInv1
<1> QED BY <1>1, <1>2

(* It holds at the start, before any monitor exists. *)
LEMMA FirstInitially ==
    ASSUME SessionAssumption, MonitorAssumption, Init
    PROVE  IInv1
<1> USE SessionAssumption, MonitorAssumption
        DEF SessionAssumption, MonitorAssumption, Init, SessionInit, Mons, Notifs
<1>1. IInv  BY Initially
<1>2. FirstSession /\ Numbered  BY DEF FirstSession, Numbered, Procs
<1>3. ASSUME NEW m \in Mons  PROVE Alone(m) /\ Accounted(m)
  BY DEF Alone, Accounted, Refreshing
<1> QED BY <1>1, <1>2, <1>3 DEF IInv1, FirstConnection

(* Every reachable state satisfies it. *)
THEOREM FirstInvariance == Spec => []IInv1
<1>1. Init => IInv1  BY FirstInitially, SessionAssumption, MonitorAssumption
<1>2. IInv1 /\ [Next]_vars => IInv1'  BY FirstInductive, SessionAssumption, MonitorAssumption
<1> QED BY <1>1, <1>2, PTL DEF Spec

(* On the first connection a monitor whose requests are over has exactly the
   notification its field names if it is enabled, and none otherwise, even if it
   was destroyed between the deletion checks of refreshMonitor. *)
THEOREM NotificationsMatch == Spec => []OneNotificationPerMonitor
<1>1. ASSUME IInv1, 1 \in alive, NEW m \in Mons, Quiet(m), ~overlapped[m]
      PROVE  IF m \in table /\ enabled[m]
             THEN ref[m] # 0 /\ NotificationsOf(m) = {ref[m]}
             ELSE ref[m] = 0 /\ NotificationsOf(m) = {}
  <2>1. /\ FirstSession /\ Alone(m) /\ Accounted(m) /\ SingleOwner /\ ObjOK
    BY <1>1 DEF IInv1, FirstConnection, IInv, TypeOK, ObjOK
  <2>2. ref[m] # 0 <=> m \in table /\ enabled[m]
    BY <1>1, <2>1 DEF Alone, Quiet, Refreshing
  <2>3. \A n \in NotificationsOf(m) : n = ref[m] /\ n # 0
    BY <1>1, <2>1 DEF NotificationsOf, Accounted, Quiet, ObjOK
  <2>4. ref[m] # 0 => ref[m] \in NotificationsOf(m)
    BY <1>1, <2>1 DEF NotificationsOf, SingleOwner, FirstSession
  <2> QED BY <2>2, <2>3, <2>4
<1>2. IInv1 => OneNotificationPerMonitor  BY <1>1 DEF OneNotificationPerMonitor
<1> QED BY <1>2, FirstInvariance, PTL

-----------------------------------------------------------------------------
(* What the clients are told. *)

\* Nothing has happened to a monitor that is not created yet, and what a
\* request destroys is of a destroyed monitor.
Untouched ==
    /\ \A m \in Mons : m > ids =>
          ~isIdle[m] /\ ~told[m] /\ event.mon # m /\ \A n \in Notifs : owner[n] # m
    /\ \A r \in Requests : pc[r] = "kill" => deleted[target[r]]

\* Only one goroutine changes the idle flag of m at a time, and until it has
\* called back the flag is what it set.
Telling(m) ==
    /\ \A r, q \in Requests : Refreshing(r, m) /\ Refreshing(q, m) => r = q
    /\ \A r \in Requests : Refreshing(r, m) =>
          event.mon # m /\ (pc[r] = "callback" => ~isIdle[m])
    /\ event.mon = m /\ pc[Dispatcher] = "callback" => isIdle[m] = event.idle
    /\ \/ told[m] = isIdle[m]
       \/ \E r \in Requests : Refreshing(r, m) /\ pc[r] = "callback"
       \/ event.mon = m /\ pc[Dispatcher] = "callback"

\* An idle monitor is enabled, or about to be cleared.
IdleEnabled(m) ==
    /\ isIdle[m] => \/ enabled[m]
                    \/ \E r \in Requests : Refreshing(r, m) /\ pc[r] \in {"refresh", "drop", "clear"}
    /\ event.mon = m => enabled[m]

\* Monitors that nothing excludes are as Telling and IdleEnabled say.
Informed ==
    \A m \in table : ~overlapped[m] /\ ~raced[m] =>
        Telling(m) /\ (1 \in alive => IdleEnabled(m))

\* The inductive invariant about what clients are told.
IInv2 == IInv1 /\ Untouched /\ Informed

(* A number that is not handed out has no event and no notification, and only
   the notifications of destroyed monitors are destroyed without a refresh. *)
LEMMA UntouchedStep ==
    ASSUME SessionAssumption, MonitorAssumption, IInv1, Untouched, Next
    PROVE  Untouched'
<1> USE SessionAssumption, MonitorAssumption DEF SessionAssumption, MonitorAssumption, Procs
<1> DEFINE New(m) == ~isIdle[m] /\ ~told[m] /\ event.mon # m /\ \A n \in Notifs : owner[n] # m
           Killed == \A r \in Requests : pc[r] = "kill" => deleted[target[r]]
<1>0. Holding /\ Numbered /\ MonOK /\ ObjOK /\ ReqOK /\ EventOK /\ HistoryOK
  BY DEF IInv1, IInv, TypeOK, MonOK, ObjOK, ReqOK, EventOK, HistoryOK
<1>a. pc \in [Procs -> RequestLabels \cup {"top", "read", "event", "callback", "connect",
                "handshake", "bound"}]
  BY DEF IInv1, IInv, TypeOK, SessionTypeOK
<1>b. \A m \in Mons : m > ids' => m > ids
  <2>1. ids' \in {ids, ids + 1}
    BY Cases, <1>0 DEF Ours, InvalidateStaleProxies, EventApply, EventCallback, NotificationEvent,
       Start, CreateMonitor, UpdateMonitor, DestroyMonitor, Quick, SnapshotDeleted, Unsupported, Reconnected,
       Snapshot, Drop, Clear, Callback, CreateNotification, CreateBroken, Install, Kill, Fail, monVars
  <2> QED BY <1>0, <2>1 DEF MonOK, Mons
<1>c. \A m \in Mons : m > ids => New(m)  BY DEF Untouched
<1>1. ASSUME NEW m \in Mons, m > ids  PROVE New(m)'
  <2>1. CASE UNCHANGED <<isIdle, told, event, owner>>  BY <1>c, <1>1, <2>1
  <2>2. CASE EventApply
    <3>1. event'.mon \in {event.mon, 0} /\ isIdle'[m] = isIdle[m] /\ UNCHANGED <<told, owner>>
      BY <1>0, <1>c, <1>1, <2>2 DEF EventApply, NoEvent, EventOK, MonOK, history, objVars
    <3> QED BY <1>c, <1>1, <3>1 DEF Mons
  <2>3. CASE EventCallback
    <3>1. event'.mon = 0 /\ told'[m] = told[m] /\ UNCHANGED <<isIdle, owner>>
      BY <1>0, <1>c, <1>1, <2>3 DEF EventCallback, NoEvent, HistoryOK, monVars, objVars
    <3> QED BY <1>c, <1>1, <3>1 DEF Mons
  <2>4. ASSUME NEW n \in Notifs, NEW idle \in BOOLEAN, NotificationEvent(n, idle)
        PROVE  New(m)'
    <3>1. event'.mon = owner[n] /\ UNCHANGED <<isIdle, told, owner>>
      BY <2>4 DEF NotificationEvent, monVars, objVars
    <3> QED BY <1>c, <1>1, <3>1
  <2>5. ASSUME NEW r \in Requests, Clear(r) \/ Callback(r)  PROVE New(m)'
    <3>1. isIdle' \in {isIdle, [isIdle EXCEPT ![target[r]] = FALSE]}
      BY <2>5 DEF Clear, Callback, monVars
    <3>2. told' \in {told, [told EXCEPT ![target[r]] = FALSE]} /\ UNCHANGED <<event, owner>>
      BY <2>5 DEF Clear, Callback, history, objVars
    <3> QED BY <1>0, <1>c, <1>1, <3>1, <3>2 DEF MonOK, HistoryOK
  <2>6. ASSUME NEW r \in Requests, CreateNotification(r)  PROVE New(m)'
    <3>1. target[r] # m  BY <1>0, <1>1 DEF Numbered
    <3>2. owner' = [owner EXCEPT ![notifs + 1] = target[r]] /\ UNCHANGED <<isIdle, told, event>>
      BY <2>6 DEF CreateNotification, monVars, history
    <3> QED BY <1>0, <1>c, <1>1, <3>1, <3>2 DEF ObjOK
  <2>7. ASSUME NEW r \in Requests,
               \/ Start(r) \/ Quick(r) \/ Snapshot(r) \/ Drop(r)
               \/ CreateBroken(r) \/ Install(r) \/ Kill(r) \/ Fail(r)
        PROVE  UNCHANGED <<isIdle, told, event, owner>>
    BY <2>7 DEF Start, CreateMonitor, UpdateMonitor, DestroyMonitor, Quick, SnapshotDeleted,
       Unsupported, Reconnected, Snapshot, Drop, CreateBroken, Install, Kill, Fail, monVars, history, objVars
  <2>8. CASE \/ SessionStep /\ UNCHANGED Ours
             \/ \E p \in Procs : InvalidateStaleProxies(p)
    BY <2>1, <2>8 DEF Ours, InvalidateStaleProxies, monVars, history, objVars
  <2> QED BY Cases, <2>1, <2>2, <2>3, <2>4, <2>5, <2>6, <2>7, <2>8
<1>2. Killed'
  <2>0. Killed  BY DEF Untouched
  <2>1. CASE /\ \A r \in Requests : pc'[r] = "kill" => pc[r] = "kill" /\ target'[r] = target[r]
             /\ deleted' = deleted
    BY <2>0, <2>1
  <2>2. CASE SessionStep /\ UNCHANGED Ours
    <3>1. \A r \in Requests : pc'[r] = "kill" => pc[r] = "kill"
      BY <1>a, <2>2 DEF SessionStep, LoopTop, ReadFails, HandshakeStolen, CompositorExit, CompositorStart,
         Connect, ConnectRefused, Handshake, HandshakeFails, HandshakeResumed, Go
    <3> QED BY <2>1, <2>2, <3>1 DEF Ours, reqVars, monVars
  <2>3. CASE \/ EventApply \/ EventCallback
             \/ \E n \in Notifs, idle \in BOOLEAN : NotificationEvent(n, idle)
             \/ \E p \in Procs : InvalidateStaleProxies(p)
    BY <1>a, <2>1, <2>3 DEF EventApply, EventCallback, NotificationEvent, InvalidateStaleProxies,
       Invalidate, Go, reqVars, monVars
  <2>4. ASSUME NEW r \in Requests, Done(r), UNCHANGED deleted  PROVE Killed'
    BY <1>0, <1>a, <2>1, <2>4 DEF Done, Go, ReqOK
  <2>5. ASSUME NEW r \in Requests,
               Quick(r) \/ Snapshot(r) \/ Drop(r) \/ CreateNotification(r) \/ CreateBroken(r)
        PROVE  Killed'
    BY <1>a, <2>1, <2>5 DEF Quick, SnapshotDeleted, Unsupported, Reconnected, Snapshot, Drop,
       CreateNotification, CreateBroken, Go, reqVars, monVars
  <2>6. ASSUME NEW r \in Requests, Clear(r) \/ Callback(r) \/ Kill(r) \/ Fail(r)  PROVE Killed'
    <3>1. CASE Done(r)  BY <2>4, <2>6, <3>1 DEF Clear, Callback, Kill, Fail, monVars
    <3>2. CASE ~Done(r)
      BY <1>a, <2>1, <2>6, <3>2 DEF Clear, Callback, Kill, Fail, Proceed, Go, reqVars, monVars
    <3> QED BY <3>1, <3>2
  <2>7. ASSUME NEW r \in Requests, Install(r)  PROVE Killed'
    <3>1. CASE deleted[target[r]]
      <4>1. Go(r, "kill") /\ UNCHANGED <<target, deleted>>  BY <2>7, <3>1 DEF Install
      <4> QED BY <1>a, <2>0, <3>1, <4>1 DEF Go
    <3>2. CASE ~deleted[target[r]]  BY <2>4, <2>7, <3>2 DEF Install
    <3> QED BY <3>1, <3>2
  <2>8. ASSUME NEW r \in Requests, NEW m \in Mons, NEW on \in BOOLEAN,
               CreateMonitor(r, on) \/ UpdateMonitor(r, m, on)
        PROVE  Killed'
    <3>1. /\ Go(r, "refresh") /\ UNCHANGED deleted
          /\ \E k : target' = [target EXCEPT ![r] = k]
      BY <2>8 DEF CreateMonitor, UpdateMonitor, Begin
    <3> QED BY <1>0, <1>a, <2>1, <3>1 DEF Go, ReqOK
  <2>9. ASSUME NEW r \in Requests, NEW m \in Mons, DestroyMonitor(r, m)  PROVE Killed'
    <3>1. /\ Go(r, "kill") /\ target' = [target EXCEPT ![r] = m]
          /\ deleted' = [deleted EXCEPT ![m] = TRUE]
      BY <2>9 DEF DestroyMonitor, Begin
    <3>2. deleted'[m] /\ \A k \in Mons : deleted[k] => deleted'[k]
      BY <1>0, <3>1 DEF MonOK
    <3>3. \A q \in Requests : pc[q] = "kill" => target[q] \in Mons  BY <1>0 DEF Holding
    <3> QED BY <1>0, <1>a, <2>0, <3>1, <3>2, <3>3 DEF Go, ReqOK
  <2>10. 1 \in Mons  BY DEF Mons
  <2> QED BY Cases, <2>2, <2>3, <2>5, <2>6, <2>7, <2>8, <2>9, <2>10 DEF Start
<1> QED BY <1>1, <1>2, <1>b DEF Untouched

\* Nothing changes that Telling and IdleEnabled speak of.
Unheard(m) ==
    /\ told'[m] = told[m] /\ isIdle'[m] = isIdle[m] /\ enabled'[m] = enabled[m]
    /\ event'.mon = m <=> event.mon = m
    /\ event.mon = m => /\ event'.idle = event.idle
                        /\ pc'[Dispatcher] = "callback" <=> pc[Dispatcher] = "callback"
    /\ \A r \in Requests : Refreshing(r, m)' <=> Refreshing(r, m)
    /\ \A r \in Requests : Refreshing(r, m) =>
          \/ pc'[r] = pc[r]
          \/ {pc[r], pc'[r]} \cap {"refresh", "drop", "clear", "callback"} = {}

(* A step that leaves alone what the clients of m hear keeps what is known of it. *)
LEMMA UnheardKeeps ==
    ASSUME NEW m \in Mons, Unheard(m)
    PROVE  /\ Telling(m) => Telling(m)'
           /\ IdleEnabled(m) => IdleEnabled(m)'
<1>1. ASSUME NEW r \in Requests, Refreshing(r, m)
      PROVE  /\ pc'[r] = "callback" <=> pc[r] = "callback"
             /\ pc'[r] \in {"refresh", "drop", "clear"} <=> pc[r] \in {"refresh", "drop", "clear"}
  BY <1>1 DEF Unheard
<1>2. ASSUME Telling(m)  PROVE Telling(m)'
  BY <1>1, <1>2 DEF Telling, Unheard
<1>3. ASSUME IdleEnabled(m)  PROVE IdleEnabled(m)'
  BY <1>1, <1>3 DEF IdleEnabled, Unheard
<1> QED BY <1>2, <1>3

(* Every step, of the dispatch loop or of a request, leaves the clients of m told
   or the callback before it, unless an event and a refresh of m met. *)
LEMMA InformedStep ==
    ASSUME SessionAssumption, MonitorAssumption, IInv2, Next,
           NEW m \in table', ~overlapped'[m], ~raced'[m]
    PROVE  Telling(m)' /\ (1 \in alive' => IdleEnabled(m)')
<1> USE SessionAssumption, MonitorAssumption DEF SessionAssumption, MonitorAssumption, Procs
<1>0. /\ Holding /\ SingleOwner /\ Numbered /\ Untouched
      /\ MonOK /\ ObjOK /\ ReqOK /\ EventOK /\ HistoryOK
  BY DEF IInv2, IInv1, IInv, TypeOK, MonOK, ObjOK, ReqOK, EventOK, HistoryOK
<1>a. pc \in [Procs -> RequestLabels \cup {"top", "read", "event", "callback", "connect",
                "handshake", "bound"}]
  BY DEF IInv2, IInv1, IInv, TypeOK, SessionTypeOK
<1>b. 1 \in alive' => 1 \in alive  BY FirstLasts DEF IInv2
<1>c. m \in Mons /\ m # 0
  <2>1. MonOK'  BY MonitorsTyped DEF IInv2, IInv1
  <2> QED BY <2>1 DEF MonOK, Mons
<1>1. CASE m \in table /\ ~overlapped[m] /\ ~raced[m] /\ Unheard(m)
  BY <1>1, <1>b, <1>c, UnheardKeeps DEF IInv2, Informed
<1>2. CASE SessionStep /\ UNCHANGED Ours
  <2>1. \A r \in Requests : \/ pc'[r] = pc[r]
                            \/ /\ pc[r] \in {"connect", "handshake", "bound"}
                               /\ pc'[r] \in {"connect", "handshake", "bound", "connected", "refused"}
    BY <1>a, <1>2 DEF SessionStep, LoopTop, ReadFails, HandshakeStolen, CompositorExit, CompositorStart,
       Connect, ConnectRefused, Handshake, HandshakeFails, HandshakeResumed, Go
  <2>2. pc'[Dispatcher] = "callback" <=> pc[Dispatcher] = "callback"
    BY <1>a, <1>2 DEF SessionStep, LoopTop, ReadFails, HandshakeStolen, CompositorExit, CompositorStart,
       Connect, ConnectRefused, Handshake, HandshakeFails, HandshakeResumed, Go
  <2>3. \A r \in Requests : Refreshing(r, m)' <=> Refreshing(r, m)
    BY <1>2, <2>1 DEF Refreshing, Ours, reqVars
  <2>4. Unheard(m)  BY <1>2, <2>1, <2>2, <2>3 DEF Unheard, Ours, monVars, history
  <2> QED BY <1>1, <1>2, <2>4 DEF Ours, monVars, history
<1>3. ASSUME NEW p \in Procs, InvalidateStaleProxies(p)
      PROVE  Telling(m)' /\ (1 \in alive' => IdleEnabled(m)')
  <2>1. /\ pc[p] = "bound" /\ pc'[p] \in {"top", "connected"}
        /\ \A q \in Procs : q # p => pc'[q] = pc[q]
        /\ UNCHANGED <<table, enabled, isIdle, event, target, history>>
    BY <1>a, <1>3 DEF InvalidateStaleProxies, Invalidate, Go, reqVars
  <2>2. \A r \in Requests : Refreshing(r, m)' <=> Refreshing(r, m)
    BY <2>1 DEF Refreshing
  <2>3. Unheard(m)  BY <2>1, <2>2 DEF Unheard, history
  <2> QED BY <1>1, <2>1, <2>3 DEF history
<1>4. ASSUME NEW n \in Notifs, NEW idle \in BOOLEAN, NotificationEvent(n, idle)
      PROVE  Telling(m)' /\ (1 \in alive' => IdleEnabled(m)')
  <2>1. /\ pc[Dispatcher] = "read" /\ pc'[Dispatcher] = "event" /\ event'.mon = owner[n]
        /\ n \in live /\ conn[n] \in alive
        /\ \A r \in Requests : pc'[r] = pc[r]
        /\ raced' = [raced EXCEPT ![owner[n]] = @ \/ \E r \in Requests : Refreshing(r, owner[n])]
        /\ UNCHANGED <<monVars, target, told, overlapped, alive>>
    BY <1>a, <1>4 DEF NotificationEvent, Reads, Go, SessionRest, reqVars
  <2>2. /\ m \in table /\ ~overlapped[m] /\ ~raced[m]
        /\ owner[n] = m => \A r \in Requests : ~Refreshing(r, m)
    BY <1>0, <1>c, <2>1 DEF HistoryOK, monVars
  <2>3. Telling(m) /\ (1 \in alive => IdleEnabled(m))  BY <2>2 DEF IInv2, Informed
  <2>4. \A r \in Requests : Refreshing(r, m)' <=> Refreshing(r, m)
    BY <2>1 DEF Refreshing
  <2>5. Telling(m)'
    BY <2>1, <2>2, <2>3, <2>4 DEF Telling, monVars
  <2>6. ASSUME 1 \in alive, owner[n] = m  PROVE enabled[m]
    <3>1. Alone(m) /\ Accounted(m)
      BY <1>c, <2>2, <2>6 DEF IInv2, IInv1, FirstConnection
    <3>2. ref[m] # 0 <=> m \in table /\ enabled[m]
      BY <2>2, <2>6, <3>1 DEF Alone
    <3>3. \A r \in Requests : target[r] # m
      <4>1. ~deleted[m]  BY <1>0, <2>2 DEF Numbered
      <4> QED BY <1>0, <2>2, <2>6, <4>1 DEF Untouched, Refreshing
    <3>4. n = ref[m] /\ n # 0
      BY <1>0, <2>1, <2>6, <3>1, <3>3 DEF Accounted, ObjOK
    <3> QED BY <3>2, <3>4
  <2>7. 1 \in alive => IdleEnabled(m)'
    BY <2>1, <2>2, <2>3, <2>4, <2>6 DEF IdleEnabled, monVars
  <2> QED BY <1>b, <2>5, <2>7
<1>5. CASE EventApply
  <2>1. /\ pc[Dispatcher] = "event" /\ \A r \in Requests : pc'[r] = pc[r]
        /\ UNCHANGED <<table, enabled, deleted, target, history>>
    BY <1>a, <1>5 DEF EventApply, Go, reqVars
  <2>2. \A r \in Requests : Refreshing(r, m)' <=> Refreshing(r, m)
    BY <2>1 DEF Refreshing
  <2>3. m \in table /\ ~overlapped[m] /\ ~raced[m]  BY <2>1 DEF history
  <2>4. Telling(m) /\ (1 \in alive => IdleEnabled(m))  BY <2>3 DEF IInv2, Informed
  <2>5. CASE event.mon # m
    <3>1. event'.mon # m /\ isIdle'[m] = isIdle[m]
      BY <1>0, <1>5, <1>c, <2>5 DEF EventApply, NoEvent, MonOK
    <3>2. Unheard(m)  BY <2>1, <2>2, <2>5, <3>1 DEF Unheard, history
    <3> QED BY <1>1, <2>3, <3>2
  <2>6. CASE event.mon = m /\ isIdle[m] = event.idle
    <3>1. event' = NoEvent /\ isIdle' = isIdle
      BY <1>5, <2>6 DEF EventApply
    <3>2. Telling(m)'
      BY <1>c, <2>1, <2>2, <2>4, <2>6, <3>1 DEF Telling, NoEvent, history
    <3>3. IdleEnabled(m) => IdleEnabled(m)'
      BY <1>c, <2>1, <2>2, <3>1 DEF IdleEnabled, NoEvent
    <3> QED BY <1>b, <2>4, <3>2, <3>3
  <2>7. CASE event.mon = m /\ isIdle[m] # event.idle
    <3>1. ~deleted[m]  BY <1>0, <2>3 DEF Numbered
    <3>2. /\ pc'[Dispatcher] = "callback" /\ event' = event
          /\ isIdle' = [isIdle EXCEPT ![m] = event.idle]
      BY <1>a, <1>5, <2>7, <3>1 DEF EventApply, Go
    <3>3. isIdle'[m] = event.idle  BY <1>0, <1>c, <3>2 DEF MonOK
    <3>4. \A r \in Requests : ~Refreshing(r, m)  BY <2>4, <2>7 DEF Telling
    <3>5. Telling(m)'  BY <2>2, <2>7, <3>2, <3>3, <3>4 DEF Telling
    <3>6. IdleEnabled(m) => IdleEnabled(m)'
      BY <2>1, <2>7, <3>2 DEF IdleEnabled
    <3> QED BY <1>b, <2>4, <3>5, <3>6
  <2> QED BY <2>5, <2>6, <2>7
<1>6. CASE EventCallback
  <2>1. /\ pc[Dispatcher] = "callback" /\ \A r \in Requests : pc'[r] = pc[r]
        /\ event' = NoEvent /\ told' = [told EXCEPT ![event.mon] = event.idle]
        /\ UNCHANGED <<table, enabled, isIdle, target, overlapped, raced>>
    BY <1>a, <1>6 DEF EventCallback, Go, reqVars, monVars
  <2>2. \A r \in Requests : Refreshing(r, m)' <=> Refreshing(r, m)
    BY <2>1 DEF Refreshing
  <2>3. m \in table /\ ~overlapped[m] /\ ~raced[m]  BY <2>1
  <2>4. Telling(m) /\ (1 \in alive => IdleEnabled(m))  BY <2>3 DEF IInv2, Informed
  <2>5. IdleEnabled(m) => IdleEnabled(m)'
    BY <1>c, <2>1, <2>2 DEF IdleEnabled, NoEvent
  <2>6. told'[m] = IF event.mon = m THEN event.idle ELSE told[m]
    BY <1>0, <1>c, <2>1 DEF HistoryOK
  <2>7. Telling(m)'
    BY <1>c, <2>1, <2>2, <2>4, <2>6 DEF Telling, NoEvent
  <2> QED BY <1>b, <2>4, <2>5, <2>7
(* Requests under way: what they leave alone. *)
<1> DEFINE Under(r) == \/ Quick(r) \/ Snapshot(r) \/ Drop(r) \/ Clear(r) \/ Callback(r)
                       \/ CreateNotification(r) \/ CreateBroken(r) \/ Install(r) \/ Kill(r) \/ Fail(r)
<1>7. ASSUME NEW r \in Requests, Under(r)
      PROVE  /\ \A p \in Procs : p # r => pc'[p] = pc[p]
             /\ \A q \in Requests : q # r => target'[q] = target[q]
             /\ target'[r] \in {target[r], 0}
             /\ table' \subseteq table
             /\ isIdle' \in {isIdle, [isIdle EXCEPT ![target[r]] = FALSE]}
             /\ told' \in {told, [told EXCEPT ![target[r]] = FALSE]}
             /\ UNCHANGED <<enabled, deleted, overlapped, raced, event>>
  <2>1. CASE Quick(r) \/ Snapshot(r) \/ Drop(r) \/ CreateNotification(r) \/ CreateBroken(r)
    BY <1>0, <1>a, <1>7, <2>1 DEF Quick, SnapshotDeleted, Unsupported, Reconnected, Snapshot, Drop,
       CreateNotification, CreateBroken, Go, reqVars, ReqOK, monVars, history
  <2>2. CASE Clear(r) \/ Callback(r) \/ Install(r) \/ Kill(r) \/ Fail(r)
    BY <1>0, <1>a, <1>7, <2>2 DEF Clear, Callback, Install, Kill, Fail, Proceed, Done, Go,
       reqVars, ReqOK, monVars, history
  <2> QED BY <1>7, <2>1, <2>2
<1>8. ASSUME NEW r \in Requests, Under(r)
      PROVE  /\ m \in table /\ ~overlapped[m] /\ ~raced[m] /\ ~deleted[m]
             /\ Telling(m) /\ (1 \in alive => IdleEnabled(m))
  <2>1. m \in table /\ ~overlapped[m] /\ ~raced[m]  BY <1>7, <1>8
  <2> QED BY <1>0, <2>1 DEF IInv2, Informed, Numbered
<1>9. ASSUME NEW r \in Requests, Under(r), target[r] # m
      PROVE  Telling(m)' /\ (1 \in alive' => IdleEnabled(m)')
  <2>1. told'[m] = told[m] /\ isIdle'[m] = isIdle[m]
    BY <1>0, <1>c, <1>7, <1>9 DEF MonOK, HistoryOK
  <2>2. \A q \in Requests : (Refreshing(q, m)' <=> Refreshing(q, m)) /\ (Refreshing(q, m) => q # r)
    BY <1>c, <1>7, <1>9 DEF Refreshing
  <2>3. Unheard(m)  BY <1>7, <1>9, <2>1, <2>2 DEF Unheard
  <2> QED BY <1>1, <1>8, <1>9, <2>3
(* A request on m: it alone refreshes m, and no event of m is in hand. *)
<1>10. ASSUME NEW r \in Requests, Under(r), target[r] = m
       PROVE  /\ pc[r] # "kill" /\ Refreshing(r, m) /\ event.mon # m
              /\ \A q \in Requests : q # r => ~Refreshing(q, m) /\ ~Refreshing(q, m)'
  <2>1. pc[r] # "kill" /\ Refreshing(r, m)  BY <1>0, <1>8, <1>10 DEF Untouched, Refreshing
  <2>2. \A q \in Requests : q # r => ~Refreshing(q, m)  BY <1>8, <1>10, <2>1 DEF Telling
  <2>3. \A q \in Requests : q # r => ~Refreshing(q, m)'
    BY <1>7, <1>10, <2>2 DEF Refreshing
  <2> QED BY <1>8, <1>10, <2>1, <2>2, <2>3 DEF Telling
(* It goes on with the flag unchanged or cleared. *)
<1>11. ASSUME NEW r \in Requests, Under(r), target[r] = m, UNCHANGED <<told, isIdle>>,
              \/ Refreshing(r, m)' /\ pc[r] # "callback" /\ pc'[r] # "callback"
                   /\ (pc[r] \in {"refresh", "drop", "clear"} => pc'[r] \in {"refresh", "drop", "clear"})
              \/ ~Refreshing(r, m)' /\ pc[r] \notin {"refresh", "drop", "clear", "callback"}
       PROVE  Telling(m)' /\ (1 \in alive' => IdleEnabled(m)')
  <2>1. told[m] = isIdle[m]  BY <1>8, <1>10, <1>11 DEF Telling
  <2>2. Telling(m)'  BY <1>7, <1>10, <1>11, <2>1 DEF Telling
  <2>3. IdleEnabled(m) => IdleEnabled(m)'
    BY <1>7, <1>10, <1>11 DEF IdleEnabled
  <2> QED BY <1>b, <1>8, <1>11, <2>2, <2>3
<1>12. ASSUME NEW r \in Requests, Under(r), target[r] = m, ~isIdle'[m],
              ~told'[m] \/ (Refreshing(r, m)' /\ pc'[r] = "callback")
       PROVE  Telling(m)' /\ (1 \in alive' => IdleEnabled(m)')
  <2>1. Telling(m)'
    <3>1. told'[m] \in BOOLEAN /\ isIdle'[m] \in BOOLEAN
      BY <1>c, MonitorsTyped, HistoryTyped DEF IInv2, IInv1, MonOK, HistoryOK
    <3> QED BY <1>7, <1>10, <1>12, <3>1 DEF Telling
  <2>2. IdleEnabled(m)'  BY <1>7, <1>10, <1>12 DEF IdleEnabled
  <2> QED BY <2>1, <2>2
<1>13. ASSUME NEW r \in Requests, target[r] = m, Quick(r) \/ Snapshot(r) \/ Drop(r)
                \/ CreateNotification(r) \/ CreateBroken(r)
       PROVE  Telling(m)' /\ (1 \in alive' => IdleEnabled(m)')
  <2>1. UNCHANGED <<told, isIdle, target>>
    BY <1>13 DEF Quick, SnapshotDeleted, Unsupported, Reconnected, Snapshot, Drop,
       CreateNotification, CreateBroken, reqVars, monVars, history
  <2>2. CASE SnapshotDeleted(r)
    BY <1>8, <1>13, <2>2 DEF SnapshotDeleted
  <2>3. CASE ~SnapshotDeleted(r)
    <3>1. \/ pc[r] = "refresh" /\ pc'[r] = "drop"
          \/ pc[r] = "drop" /\ pc'[r] = "clear"
          \/ /\ pc[r] \in {"create", "connected", "refused"}
             /\ pc'[r] \in {"create", "install", "error", "connect"}
      BY <1>a, <1>13, <2>3 DEF Quick, Unsupported, Reconnected, Snapshot, Drop,
         CreateNotification, CreateBroken, Go
    <3>2. Refreshing(r, m)'  BY <1>13, <2>1, <3>1 DEF Refreshing
    <3> QED BY <1>11, <1>13, <2>1, <3>1, <3>2
  <2> QED BY <2>2, <2>3
<1>14. ASSUME NEW r \in Requests, target[r] = m, Clear(r)
       PROVE  Telling(m)' /\ (1 \in alive' => IdleEnabled(m)')
  <2>1. CASE isIdle[m]
    <3>1. /\ isIdle' = [isIdle EXCEPT ![m] = FALSE] /\ Go(r, "callback") /\ UNCHANGED target
      BY <1>8, <1>14, <2>1 DEF Clear, reqVars
    <3>2. ~isIdle'[m] /\ pc'[r] = "callback" /\ Refreshing(r, m)'
      BY <1>0, <1>a, <1>c, <1>14, <3>1 DEF MonOK, Go, Refreshing
    <3> QED BY <1>12, <1>14, <3>2
  <2>2. CASE ~isIdle[m]
    <3>1. UNCHANGED <<told, isIdle>> /\ pc[r] = "clear"
      BY <1>14, <2>2 DEF Clear, history
    <3>2. told[m] = isIdle[m]  BY <1>8, <1>10, <1>14, <3>1 DEF Telling
    <3> QED BY <1>12, <1>14, <2>2, <3>1, <3>2
  <2> QED BY <2>1, <2>2
<1>15. ASSUME NEW r \in Requests, target[r] = m, Callback(r)
       PROVE  Telling(m)' /\ (1 \in alive' => IdleEnabled(m)')
  <2>1. pc[r] = "callback" /\ told' = [told EXCEPT ![m] = FALSE] /\ isIdle' = isIdle
    BY <1>15 DEF Callback, monVars
  <2>2. ~isIdle[m]  BY <1>8, <1>10, <1>15, <2>1 DEF Telling
  <2>3. ~told'[m]  BY <1>0, <1>c, <2>1 DEF HistoryOK
  <2> QED BY <1>12, <1>15, <2>1, <2>2, <2>3
<1>16. ASSUME NEW r \in Requests, target[r] = m, Install(r) \/ Kill(r) \/ Fail(r)
       PROVE  Telling(m)' /\ (1 \in alive' => IdleEnabled(m)')
  <2>1. ~Kill(r)  BY <1>10, <1>16 DEF Kill
  <2>2. /\ pc[r] \in {"install", "error"} /\ UNCHANGED <<told, isIdle>> /\ target'[r] = 0
    BY <1>0, <1>8, <1>16, <2>1 DEF Install, Fail, Done, ReqOK, history
  <2>3. ~Refreshing(r, m)'  BY <1>c, <2>2 DEF Refreshing
  <2> QED BY <1>11, <1>16, <2>2, <2>3
(* New requests. *)
<1>17. ASSUME NEW r \in Requests, NEW on \in BOOLEAN, CreateMonitor(r, on)
       PROVE  Telling(m)' /\ (1 \in alive' => IdleEnabled(m)')
  <2>1. /\ pc[r] = "idle" /\ pc' = [pc EXCEPT ![r] = "refresh"] /\ ids < MaxIds
        /\ target' = [target EXCEPT ![r] = ids + 1]
        /\ table' = table \cup {ids + 1}
        /\ enabled' = [enabled EXCEPT ![ids + 1] = on]
        /\ UNCHANGED <<isIdle, event, told, overlapped, raced>>
    BY <1>17 DEF CreateMonitor, Begin, Go, history
  <2>2. ids + 1 \in Mons /\ ids + 1 > ids  BY <1>0, <2>1 DEF MonOK, Mons
  <2>3. /\ target[r] = 0 /\ target'[r] = ids + 1 /\ pc'[r] = "refresh"
        /\ \A p \in Procs : p # r => pc'[p] = pc[p]
        /\ \A q \in Requests : q # r => target'[q] = target[q]
    BY <1>0, <1>a, <2>1 DEF ReqOK, Holding
  <2>4. CASE m # ids + 1
    <3>1. m \in table /\ enabled'[m] = enabled[m]  BY <1>0, <1>c, <2>1, <2>4 DEF MonOK
    <3>2. \A q \in Requests : (Refreshing(q, m)' <=> Refreshing(q, m)) /\ (Refreshing(q, m) => q # r)
      BY <1>c, <2>3, <2>4 DEF Refreshing
    <3>3. Unheard(m)  BY <2>1, <2>3, <3>1, <3>2 DEF Unheard
    <3> QED BY <1>1, <2>1, <3>1, <3>3
  <2>5. CASE m = ids + 1
    <3>1. \A q \in Requests : Refreshing(q, m)' <=> q = r
      BY <1>0, <2>2, <2>3, <2>5 DEF Numbered, Refreshing
    <3>2. ~isIdle[m] /\ ~told[m] /\ event.mon # m
      BY <1>0, <2>2, <2>5 DEF Untouched
    <3>3. told[m] = isIdle[m]  BY <1>0, <1>c, <3>2 DEF MonOK, HistoryOK
    <3>4. Telling(m)' /\ IdleEnabled(m)'
      BY <2>1, <2>3, <3>1, <3>2, <3>3 DEF Telling, IdleEnabled
    <3> QED BY <3>4
  <2> QED BY <2>4, <2>5
<1>18. ASSUME NEW r \in Requests, NEW k \in Mons, NEW on \in BOOLEAN, UpdateMonitor(r, k, on)
       PROVE  Telling(m)' /\ (1 \in alive' => IdleEnabled(m)')
  <2>1. /\ pc[r] = "idle" /\ pc' = [pc EXCEPT ![r] = "refresh"]
        /\ target' = [target EXCEPT ![r] = k]
        /\ enabled' = [enabled EXCEPT ![k] = on]
        /\ overlapped' = [overlapped EXCEPT ![k] = @ \/ \E q \in Requests : Refreshing(q, k)]
        /\ raced' = [raced EXCEPT ![k] = @ \/ event.mon = k]
        /\ UNCHANGED <<table, isIdle, event, told>>
    BY <1>18 DEF UpdateMonitor, Begin, Go
  <2>2. /\ target[r] = 0 /\ target'[r] = k /\ pc'[r] = "refresh"
        /\ \A p \in Procs : p # r => pc'[p] = pc[p]
        /\ \A q \in Requests : q # r => target'[q] = target[q]
    BY <1>0, <1>a, <2>1 DEF ReqOK, Holding
  <2>3. /\ m \in table /\ ~overlapped[m] /\ ~raced[m]
        /\ m = k => event.mon # m /\ \A q \in Requests : ~Refreshing(q, m)
    BY <1>0, <1>c, <2>1 DEF HistoryOK
  <2>4. CASE m # k
    <3>1. enabled'[m] = enabled[m]  BY <1>0, <1>c, <2>1, <2>4 DEF MonOK
    <3>2. \A q \in Requests : (Refreshing(q, m)' <=> Refreshing(q, m)) /\ (Refreshing(q, m) => q # r)
      BY <1>c, <2>2, <2>4 DEF Refreshing
    <3>3. Unheard(m)  BY <2>1, <2>2, <3>1, <3>2 DEF Unheard
    <3> QED BY <1>1, <2>3, <3>3
  <2>5. CASE m = k
    <3>1. \A q \in Requests : Refreshing(q, m)' <=> q = r
      BY <2>2, <2>3, <2>5 DEF Refreshing
    <3>2. told[m] = isIdle[m]
      BY <2>3, <2>5 DEF IInv2, Informed, Telling
    <3>3. Telling(m)' /\ IdleEnabled(m)'
      BY <2>1, <2>2, <2>3, <2>5, <3>1, <3>2 DEF Telling, IdleEnabled
    <3> QED BY <3>3
  <2> QED BY <2>4, <2>5
<1>19. ASSUME NEW r \in Requests, NEW k \in Mons, DestroyMonitor(r, k)
       PROVE  Telling(m)' /\ (1 \in alive' => IdleEnabled(m)')
  <2>1. /\ pc[r] = "idle" /\ pc' = [pc EXCEPT ![r] = "kill"]
        /\ target' = [target EXCEPT ![r] = k] /\ table' = table \ {k}
        /\ UNCHANGED <<enabled, isIdle, event, told, overlapped, raced>>
    BY <1>19 DEF DestroyMonitor, Begin, Go, history
  <2>2. /\ target[r] = 0 /\ target'[r] = k /\ pc'[r] = "kill"
        /\ \A p \in Procs : p # r => pc'[p] = pc[p]
        /\ \A q \in Requests : q # r => target'[q] = target[q]
    BY <1>0, <1>a, <2>1 DEF ReqOK, Holding
  <2>3. m # k /\ m \in table  BY <2>1
  <2>4. \A q \in Requests : (Refreshing(q, m)' <=> Refreshing(q, m)) /\ (Refreshing(q, m) => q # r)
    BY <1>c, <2>2, <2>3 DEF Refreshing
  <2>5. Unheard(m)  BY <2>1, <2>2, <2>4 DEF Unheard
  <2> QED BY <1>1, <2>1, <2>3, <2>5
<1>20. ASSUME NEW r \in Requests, Under(r)
       PROVE  Telling(m)' /\ (1 \in alive' => IdleEnabled(m)')
  BY <1>9, <1>13, <1>14, <1>15, <1>16, <1>20
<1>21. ASSUME NEW r \in Requests, Start(r)
       PROVE  Telling(m)' /\ (1 \in alive' => IdleEnabled(m)')
  BY <1>17, <1>18, <1>19, <1>21 DEF Start
<1> QED BY Cases, <1>2, <1>3, <1>4, <1>5, <1>6, <1>20, <1>21

(* The invariant about what clients are told is inductive. *)
LEMMA InformedInductive ==
    ASSUME SessionAssumption, MonitorAssumption, IInv2, [Next]_vars
    PROVE  IInv2'
<1>0. IInv1'  BY FirstInductive DEF IInv2
<1>1. CASE UNCHANGED vars
  <2>1. Untouched'
    BY <1>1 DEF IInv2, Untouched, vars, sessionVars, monVars, objVars, reqVars, history
  <2>2. \A m \in Mons : Unheard(m)
    BY <1>1 DEF Unheard, Refreshing, vars, sessionVars, monVars, reqVars, history
  <2>3. table \subseteq Mons
    BY MonitorAssumption DEF IInv2, IInv1, IInv, TypeOK, Mons, MonitorAssumption
  <2>4. UNCHANGED <<table, overlapped, raced, alive>>
    BY <1>1 DEF vars, sessionVars, monVars, history
  <2>5. Informed'
    BY <2>2, <2>3, <2>4, UnheardKeeps DEF IInv2, Informed
  <2> QED BY <1>0, <2>1, <2>5 DEF IInv2
<1>2. CASE Next
  <2>1. Untouched'  BY <1>2, UntouchedStep DEF IInv2
  <2>2. Informed'  BY <1>2, InformedStep DEF Informed
  <2> QED BY <1>0, <2>1, <2>2 DEF IInv2
<1> QED BY <1>1, <1>2

(* Every reachable state satisfies it, on whatever connection. *)
THEOREM InformedInvariance == Spec => []IInv2
<1>1. Init => IInv2
  <2> USE SessionAssumption, MonitorAssumption
          DEF SessionAssumption, MonitorAssumption, Mons, Notifs
  <2>1. ASSUME Init  PROVE IInv1 /\ Untouched /\ Informed
    <3>1. Untouched  BY <2>1 DEF Init, SessionInit, Untouched, NoEvent, Procs
    <3>2. Informed  BY <2>1 DEF Init, Informed
    <3> QED BY <2>1, <3>1, <3>2, FirstInitially
  <2> QED BY <2>1 DEF IInv2
<1>2. IInv2 /\ [Next]_vars => IInv2'
  BY InformedInductive, SessionAssumption, MonitorAssumption
<1> QED BY <1>1, <1>2, PTL DEF Spec

(* Once nobody works on a monitor its clients have heard the state it is in, and
   on the first connection a disabled monitor is not idle. *)
THEOREM ClientsAreTold == Spec => []ToldState
<1>1. ASSUME IInv2, NEW m \in table, Quiet(m), event.mon # m, ~overlapped[m], ~raced[m]
      PROVE  /\ told[m] = isIdle[m]
             /\ 1 \in alive /\ isIdle[m] => enabled[m]
  <2>1. Telling(m) /\ (1 \in alive => IdleEnabled(m))  BY <1>1 DEF IInv2, Informed
  <2>2. \A r \in Requests : ~Refreshing(r, m)  BY <1>1 DEF Quiet, Refreshing
  <2> QED BY <1>1, <2>1, <2>2 DEF Telling, IdleEnabled
<1>2. IInv2 => ToldState  BY <1>1 DEF ToldState
<1> QED BY <1>2, InformedInvariance, PTL
=============================================================================
