------------------------ MODULE IdleInhibitorsProofs ------------------------
(***************************************************************************)
(* The safety properties of IdleInhibitors, for any number of connections, *)
(* compositor exits, inhibitors and requests, and the refinement of        *)
(* InhibitorTable.                                                         *)
(*                                                                         *)
(* The inductive invariant IInv adds to the properties what they rest on:  *)
(* proxies are of connections that were opened; an inhibitor that a        *)
(* request works on is in the table and off, which Pending says; the       *)
(* object a request was just given exists too; and as long as the first    *)
(* connection lasts, every goroutine works with it and nobody connects.    *)
(***************************************************************************)
EXTENDS IdleInhibitors, TLAPS

\* A step of the session that leaves the inhibitors alone.
SessionStep ==
    \/ LoopTop \/ ReadFails \/ HandshakeStolen \/ CompositorExit \/ CompositorStart
    \/ \E p \in Procs : \/ Connect(p) \/ ConnectRefused(p) \/ Handshake(p)
                        \/ HandshakeFails(p) \/ HandshakeResumed(p)

\* Steps that only move a program counter.
Waiting == \/ Configured \/ Unmapped \/ IdleEvent \/ IdleEventHandled

(* A step is one of the session, or of the request. *)
LEMMA Cases ==
    ASSUME Next
    PROVE  \/ SessionStep /\ UNCHANGED <<inhVars, reqVars, crashed>>
           \/ Waiting
           \/ \E p \in Procs : InvalidateStaleProxies(p)
           \/ RequestStart
           \/ CreateSurface \/ ManagerGone \/ CreateBroken \/ CreateInhibitor
           \/ Assign \/ Reconnected
<1>1. CASE DispatcherStep
  <2>1. CASE Session(LoopTop)    BY <2>1 DEF Session, SessionStep
  <2>2. CASE Session(ReadFails)  BY <2>2 DEF Session, SessionStep
  <2>3. CASE Session(Steps(Dispatcher))  BY <2>3 DEF Session, SessionStep, Steps, Procs
  <2> QED BY <1>1, <2>1, <2>2, <2>3 DEF DispatcherStep, Waiting, Procs
<1>2. CASE RequestStep
  <2>1. CASE Session(Steps(Request)) BY <2>1, InhibitorAssumption DEF Session,
       SessionStep, Steps, Procs
  <2> QED BY <1>2, <2>1, InhibitorAssumption DEF RequestStep, Waiting, Procs
<1>3. CASE \/ Session(HandshakeStolen) \/ (\E p \in Procs : Session(HandshakeResumed(p)))
           \/ Session(CompositorExit) \/ Session(CompositorStart)
  BY <1>3 DEF Session, SessionStep
<1> QED BY <1>1, <1>2, <1>3 DEF Next, Waiting

\* No proxy is of a connection that does not exist yet.
Within == \A i \in Inhs : proxy[i] \in 0..opened

\* The request and the inhibitor it works on.
Pending ==
    /\ pc[Request] \in RequestLabels \cup {"connect", "handshake", "bound"}
    /\ pc[Request] = "idle" <=> target = 0
    /\ target # 0 => target \in table /\ ~enabled[target]
    /\ fresh => target # 0
    /\ \A i \in Inhs : i > ids => ~enabled[i]

\* ReferencedObjectExists, also for the object that is not referenced yet.
ObjectsExist ==
    /\ ReferencedObjectExists
    /\ pc[Request] = "assign" /\ gen[Request] \in alive => live[target][gen[Request]] > 0

\* The session while the first connection lasts.
FirstSession ==
    /\ opened = 1 /\ globals = 1 /\ display = 1 /\ 1 \in synced
    /\ pc[Dispatcher] \in {"top", "read", "event"}
    /\ pc[Dispatcher] = "read" => gen[Dispatcher] = 1
    /\ pc[Request] \in {"idle", "create", "map", "inhibit", "assign"}
    /\ pc[Request] \in {"map", "inhibit", "assign"} => gen[Request] = 1

\* Both ends agree on inhibitor i while the first connection lasts.
Exact(i) ==
    /\ proxy[i] = IF i \in table /\ enabled[i] THEN 1 ELSE 0
    /\ live[i][1] = IF \/ i \in table /\ enabled[i]
                       \/ i = target /\ pc[Request] = "assign"
                    THEN 1 ELSE 0

\* While the first connection lasts.
FirstConnection == 1 \in alive => FirstSession /\ \A i \in Inhs : Exact(i)

\* The inductive invariant.
IInv == TypeOK /\ Within /\ Pending /\ ReferencedMeansOn /\ ObjectsExist /\ FirstConnection

(* The variables of the session keep their types. *)
LEMMA SessionTyped ==
    ASSUME SessionAssumption, InhibitorAssumption, TypeOK, Within, Next
    PROVE  SessionTypeOK(RequestLabels)'
<1> USE SessionAssumption, InhibitorAssumption DEF SessionAssumption,
     InhibitorAssumption, Connections, RequestLabels, Procs, Go
<1>0. SessionTypeOK(RequestLabels)  BY DEF TypeOK
<1>1. CASE UNCHANGED sessionVars
  BY <1>0, <1>1 DEF SessionTypeOK, sessionVars
<1>2. CASE LoopTop  BY <1>0, <1>2 DEF SessionTypeOK, LoopTop
<1>3. CASE ReadFails  BY <1>0, <1>3 DEF SessionTypeOK, ReadFails
<1>4. CASE HandshakeStolen  BY <1>0, <1>4 DEF SessionTypeOK, HandshakeStolen
<1>5. CASE CompositorExit
  <2>1. restarts' \in 0..MaxRestarts  BY <1>0, <1>5 DEF SessionTypeOK, CompositorExit
  <2> QED BY <1>0, <1>5, <2>1 DEF SessionTypeOK, CompositorExit
<1>6. CASE CompositorStart  BY <1>0, <1>6 DEF SessionTypeOK, CompositorStart
<1>7. ASSUME NEW p \in Procs, Connect(p) PROVE SessionTypeOK(RequestLabels)'
  <2>1. opened' \in Connections /\ opened' = opened + 1  BY <1>0, <1>7
       DEF SessionTypeOK, Connect, Connections
  <2>2. 0..opened \subseteq 0..opened' /\ 1..opened \subseteq 1..opened'  BY <1>0,
       <2>1 DEF SessionTypeOK, Connections
  <2>3. gen' \in [Procs -> 0..opened']
    BY <1>0, <1>7, <2>1, <2>2 DEF SessionTypeOK, Connect, Connections
  <2>4. alive' \subseteq 1..opened' /\ display' \in 0..opened' /\ globals' \in 0..opened' /\ synced' \subseteq 1..opened'
    BY <1>0, <1>7, <2>1, <2>2 DEF SessionTypeOK, Connect, Connections
  <2> QED BY <1>0, <1>7, <2>1, <2>3, <2>4 DEF SessionTypeOK, Connect
<1>8. ASSUME NEW p \in Procs,
     ConnectRefused(p) \/ HandshakeFails(p) \/ HandshakeResumed(p) \/ Invalidate(p)
      PROVE SessionTypeOK(RequestLabels)'
  <2>1. CASE ConnectRefused(p)  BY <1>0, <2>1 DEF SessionTypeOK, ConnectRefused
  <2>2. CASE HandshakeFails(p)  BY <1>0, <2>2 DEF SessionTypeOK, HandshakeFails
  <2>3. CASE HandshakeResumed(p)  BY <1>0, <2>3 DEF SessionTypeOK, HandshakeResumed
  <2>4. CASE Invalidate(p)  BY <1>0, <2>4 DEF SessionTypeOK, Invalidate
  <2> QED BY <1>8, <2>1, <2>2, <2>3, <2>4
<1>9. ASSUME NEW p \in Procs, Handshake(p) PROVE SessionTypeOK(RequestLabels)'
  BY <1>0, <1>9 DEF SessionTypeOK, Handshake
<1>10. CASE Waiting
  BY <1>0, <1>10 DEF SessionTypeOK, Waiting, Configured, Unmapped, IdleEvent,
       IdleEventHandled
<1>11. ASSUME NEW i \in Inhs, NEW new \in BOOLEAN, Enabling(i, new)
       PROVE  SessionTypeOK(RequestLabels)'
  BY <1>0, <1>11 DEF SessionTypeOK, Enabling, Within
<1>12. CASE CreateEnabled \/ InhibitOnFirst
  <2>0. ids < MaxIds  BY <1>12 DEF CreateEnabled, InhibitOnFirst
  <2>1. ids + 1 \in Inhs  BY <2>0 DEF TypeOK, Inhs
  <2> QED BY <1>11, <1>12, <2>1 DEF CreateEnabled, InhibitOnFirst
<1>18. ASSUME NEW i \in Inhs, Enable(i) PROVE SessionTypeOK(RequestLabels)'
  BY <1>11, <1>18 DEF Enable
<1>19. CASE CreateDisabled \/ InhibitOffFirst
  BY <1>1, <1>19 DEF CreateDisabled, InhibitOffFirst
<1>20. ASSUME NEW i \in Inhs,
     Disable(i) \/ DestroyInhibitor(i) \/ (\E on \in BOOLEAN : SetUnchanged(i, on))
       PROVE  SessionTypeOK(RequestLabels)'
  BY <1>1, <1>20 DEF Disable, DestroyInhibitor, SetUnchanged
<1>13. CASE CreateSurface
  BY <1>0, <1>13 DEF SessionTypeOK, CreateSurface
<1>14. CASE CreateBroken
  BY <1>0, <1>14 DEF SessionTypeOK, CreateBroken
<1>15. CASE CreateInhibitor
  BY <1>0, <1>15 DEF SessionTypeOK, CreateInhibitor
<1>16. CASE Assign
  BY <1>0, <1>16 DEF SessionTypeOK, Assign
<1>17. CASE Reconnected
  BY <1>0, <1>17 DEF SessionTypeOK, Reconnected
<1> QED BY Cases, <1>1, <1>2, <1>3, <1>4, <1>5, <1>6, <1>7, <1>8, <1>9, <1>10, <1>12,
     <1>18, <1>19, <1>20, <1>13, <1>14, <1>15, <1>16, <1>17 DEF SessionStep,
     InvalidateStaleProxies, ManagerGone, RequestStart
\* The part of TypeOK that is neither the session nor live.
TableTypeOK ==
    /\ ids \in 0..MaxIds
    /\ legacy \in 0..MaxIds
    /\ table \subseteq 1..ids
    /\ enabled \in [Inhs -> BOOLEAN]
    /\ proxy \in [Inhs -> 0..MaxConns]
    /\ target \in 0..MaxIds
    /\ fresh \in BOOLEAN
    /\ attempt \in 0..2
    /\ ops \in 0..MaxOps
    /\ crashed \in BOOLEAN

(* So do those of the table and of the request. *)
LEMMA TableTyped ==
    ASSUME SessionAssumption, InhibitorAssumption, TypeOK, Within, Pending, Next
    PROVE  TableTypeOK'
<1> USE SessionAssumption, InhibitorAssumption DEF SessionAssumption,
     InhibitorAssumption, Inhs
<1>0. TableTypeOK  BY DEF TableTypeOK, TypeOK
<1>a. gen[Request] \in 0..MaxConns
  BY DEF TypeOK, SessionTypeOK, Procs, Connections
<1>b. CASE Fail /\ UNCHANGED <<proxy, enabled>>
  <2>1. table' \subseteq 1..ids'  BY <1>0, <1>b DEF Fail, TableTypeOK
  <2>2. target' \in 0..MaxIds /\ attempt' \in 0..2  BY <1>b DEF Fail
  <2>3. fresh' \in BOOLEAN  BY <1>b DEF Fail
  <2> QED BY <1>0, <1>b, <2>1, <2>2, <2>3 DEF Fail, TableTypeOK
<1>c. ASSUME NEW j \in Inhs, NEW new \in BOOLEAN, Enabling(j, new), ops' \in 0..MaxOps,
             ids' \in 0..MaxIds, legacy' \in 0..MaxIds, table' \subseteq 1..ids'
      PROVE  TableTypeOK'
  BY <1>0, <1>c DEF Enabling, TableTypeOK
<1>1. CASE UNCHANGED <<inhVars, reqVars, crashed>>
  BY <1>1, <1>0 DEF inhVars, reqVars, TableTypeOK
<1>2. ASSUME NEW p \in Procs, InvalidateStaleProxies(p) PROVE TableTypeOK'
  BY <1>2, <1>0 DEF InvalidateStaleProxies, reqVars, TableTypeOK
<1>3. CASE CreateDisabled
  BY <1>3, <1>0 DEF CreateDisabled, Begin, TableTypeOK
<1>4. CASE InhibitOffFirst
  BY <1>4, <1>0 DEF InhibitOffFirst, Begin, TableTypeOK
<1>5. CASE CreateEnabled
  <2>1. ids' \in 0..MaxIds /\ legacy' \in 0..MaxIds /\ table' \subseteq 1..ids' /\ ops' \in 0..MaxOps /\ ids + 1 \in Inhs
    BY <1>0, <1>5 DEF CreateEnabled, Begin, TableTypeOK
  <2> QED BY <1>c, <1>5, <2>1 DEF CreateEnabled
<1>6. CASE InhibitOnFirst
  <2>1. ids' \in 0..MaxIds /\ legacy' \in 0..MaxIds /\ table' \subseteq 1..ids' /\ ops' \in 0..MaxOps /\ ids + 1 \in Inhs
    BY <1>0, <1>6 DEF InhibitOnFirst, Begin, TableTypeOK
  <2> QED BY <1>c, <1>6, <2>1 DEF InhibitOnFirst
<1>7. ASSUME NEW i \in Inhs, Enable(i) PROVE TableTypeOK'
  <2>1. ids' \in 0..MaxIds /\ legacy' \in 0..MaxIds /\ table' \subseteq 1..ids' /\ ops' \in 0..MaxOps
    BY <1>0, <1>7 DEF Enable, Begin, TableTypeOK
  <2> QED BY <1>c, <1>7, <2>1 DEF Enable
<1>8. ASSUME NEW i \in Inhs, Disable(i) PROVE TableTypeOK'
  BY <1>8, <1>0 DEF Disable, Begin, Release, TableTypeOK
<1>9. ASSUME NEW i \in Inhs, DestroyInhibitor(i) PROVE TableTypeOK'
  BY <1>9, <1>0 DEF DestroyInhibitor, Begin, Release, TableTypeOK
<1>10. ASSUME NEW i \in Inhs, NEW on \in BOOLEAN, SetUnchanged(i, on) PROVE TableTypeOK'
  BY <1>10, <1>0 DEF SetUnchanged, Begin, inhVars, TableTypeOK
<1>11. CASE CreateSurface
  <2>1. CASE Fail  BY <1>b, <2>1 DEF Fail
  <2>2. CASE UNCHANGED <<inhVars, reqVars, crashed>>  BY <1>1, <2>2
  <2> QED BY <1>11, <2>1, <2>2 DEF CreateSurface
<1>12. CASE ManagerGone
  BY <1>12, <1>0 DEF ManagerGone, inhVars, reqVars, TableTypeOK
<1>13. CASE CreateBroken
  <2>1. CASE Fail  BY <1>b, <2>1 DEF Fail
  <2>2. CASE attempt' = 2 /\ UNCHANGED <<inhVars, target, fresh, ops, crashed>>
    BY <1>0, <2>2 DEF inhVars, TableTypeOK
  <2> QED BY <1>13, <2>1, <2>2 DEF CreateBroken
<1>14. CASE CreateInhibitor
  BY <1>14, <1>0 DEF CreateInhibitor, reqVars, TableTypeOK
<1>15. CASE Assign
  <2>1. proxy' \in [Inhs -> 0..MaxConns] /\ enabled' \in [Inhs -> BOOLEAN]
    BY <1>0, <1>a, <1>15 DEF Assign, TableTypeOK
  <2>2. target' \in 0..MaxIds /\ attempt' \in 0..2  BY <1>15 DEF Assign
  <2>3. fresh' \in BOOLEAN  BY <1>15 DEF Assign
  <2> QED BY <1>0, <1>15, <2>1, <2>2, <2>3 DEF Assign, TableTypeOK
<1>16. CASE Reconnected
  <2>1. CASE Fail  BY <1>b, <2>1 DEF Fail
  <2>2. CASE UNCHANGED <<inhVars, reqVars, crashed>>  BY <1>1, <2>2
  <2> QED BY <1>16, <2>1, <2>2 DEF Reconnected
<1> QED BY Cases, <1>1, <1>2, <1>3, <1>4, <1>5, <1>6, <1>7, <1>8, <1>9, <1>10, <1>11,
     <1>12, <1>13, <1>14, <1>15, <1>16 DEF RequestStart, SessionStep, Waiting,
     Configured, Unmapped, IdleEvent, IdleEventHandled

(* No object count goes below zero: only what exists is destroyed. *)
LEMMA LiveTyped ==
    ASSUME SessionAssumption, InhibitorAssumption, TypeOK, Pending, ObjectsExist, Next
    PROVE  live' \in [Inhs -> [Connections -> Nat]]
<1> USE SessionAssumption, InhibitorAssumption DEF SessionAssumption,
     InhibitorAssumption, Inhs
<1>0. live \in [Inhs -> [Connections -> Nat]]  BY DEF TypeOK
<1>a. ASSUME NEW i \in Inhs, Release(i) PROVE live' \in [Inhs -> [Connections -> Nat]]
  <2>1. CASE proxy[i] \notin alive  BY <1>0, <1>a, <2>1 DEF Release, Destroyed
  <2>2. CASE proxy[i] \in alive
    <3>1. proxy[i] \in Connections  BY <2>2 DEF TypeOK, SessionTypeOK, Connections
    <3>2. live[i] \in [Connections -> Nat]  BY <1>0
    <3>3. live[i][proxy[i]] \in Nat \ {0}
      BY <2>2, <3>1, <3>2 DEF ObjectsExist, ReferencedObjectExists
    <3>4. [live[i] EXCEPT ![proxy[i]] = @ - 1] \in [Connections -> Nat]  BY <3>1,
         <3>2, <3>3
    <3>5. live' = [live EXCEPT ![i] = [live[i] EXCEPT ![proxy[i]] = @ - 1]]
      BY <1>a, <2>2 DEF Release, Destroyed
    <3> QED BY <1>0, <3>4, <3>5
  <2> QED BY <2>1, <2>2
<1>1. CASE UNCHANGED <<inhVars, reqVars, crashed>>
  BY <1>1, <1>0 DEF inhVars, reqVars
<1>2. ASSUME NEW p \in Procs, InvalidateStaleProxies(p)
     PROVE live' \in [Inhs -> [Connections -> Nat]]
  BY <1>2, <1>0 DEF InvalidateStaleProxies, reqVars
<1>3. CASE CreateDisabled
  BY <1>3, <1>0 DEF CreateDisabled, Begin
<1>4. CASE InhibitOffFirst
  BY <1>4, <1>0 DEF InhibitOffFirst, Begin
<1>5. CASE CreateEnabled
  BY <1>5, <1>0 DEF CreateEnabled, Begin, Enabling
<1>6. CASE InhibitOnFirst
  BY <1>6, <1>0 DEF InhibitOnFirst, Begin, Enabling
<1>7. ASSUME NEW i \in Inhs, Enable(i) PROVE live' \in [Inhs -> [Connections -> Nat]]
  BY <1>7, <1>0 DEF Enable, Begin, Enabling
<1>8. ASSUME NEW i \in Inhs, Disable(i) PROVE live' \in [Inhs -> [Connections -> Nat]]
  BY <1>a, <1>8 DEF Disable
<1>9. ASSUME NEW i \in Inhs, DestroyInhibitor(i)
     PROVE live' \in [Inhs -> [Connections -> Nat]]
  BY <1>a, <1>9 DEF DestroyInhibitor
<1>10. ASSUME NEW i \in Inhs, NEW on \in BOOLEAN, SetUnchanged(i, on)
     PROVE live' \in [Inhs -> [Connections -> Nat]]
  BY <1>10, <1>0 DEF SetUnchanged, Begin, inhVars
<1>11. CASE CreateSurface
  BY <1>11, <1>0 DEF CreateSurface, Fail, inhVars, reqVars
<1>12. CASE ManagerGone
  BY <1>12, <1>0 DEF ManagerGone, inhVars, reqVars
<1>13. CASE CreateBroken
  BY <1>13, <1>0 DEF CreateBroken, Fail, inhVars
<1>14. CASE CreateInhibitor
  <2>1. CASE UNCHANGED live  BY <1>0, <2>1
  <2>2. CASE live' = [live EXCEPT ![target][globals] = @ + 1]
    <3>1. globals \in Connections /\ target \in Inhs
      BY <1>14 DEF CreateInhibitor, TypeOK, SessionTypeOK, Connections, Pending
    <3>2. [live[target] EXCEPT ![globals] = @ + 1] \in [Connections -> Nat]  BY <1>0,
         <3>1
    <3> QED BY <1>0, <2>2, <3>1, <3>2
  <2> QED BY <1>14, <2>1, <2>2 DEF CreateInhibitor
<1>15. CASE Assign
  BY <1>15, <1>0 DEF Assign
<1>16. CASE Reconnected
  BY <1>16, <1>0 DEF Reconnected, Fail, inhVars, reqVars
<1> QED BY Cases, <1>1, <1>2, <1>3, <1>4, <1>5, <1>6, <1>7, <1>8, <1>9, <1>10, <1>11,
     <1>12, <1>13, <1>14, <1>15, <1>16 DEF RequestStart, SessionStep, Waiting,
     Configured, Unmapped, IdleEvent, IdleEventHandled

(* Type correctness is preserved. *)
LEMMA TypeStep ==
    ASSUME SessionAssumption, InhibitorAssumption, TypeOK, Within, Pending,
         ObjectsExist, Next
    PROVE  TypeOK'
BY SessionTyped, TableTyped, LiveTyped DEF TypeOK, TableTypeOK

(* Who writes the proxy fields: Assign, Release and invalidateStaleProxies. *)
LEMMA ProxyChanges ==
    ASSUME Next
    PROVE  \/ UNCHANGED proxy
           \/ Assign
           \/ \E i \in Inhs : Release(i)
           \/ \E p \in Procs : InvalidateStaleProxies(p)
<1>1. CASE (SessionStep /\ UNCHANGED <<inhVars, reqVars, crashed>>) \/ Waiting
  BY <1>1 DEF Waiting, Configured, Unmapped, IdleEvent, IdleEventHandled, inhVars
<1>2. CASE RequestStart
  BY <1>2 DEF RequestStart, CreateDisabled, CreateEnabled, InhibitOnFirst,
       InhibitOffFirst,
              Enable, Enabling, Disable, DestroyInhibitor, SetUnchanged, inhVars
<1>3. CASE CreateSurface \/ ManagerGone \/ CreateBroken \/ CreateInhibitor \/ Reconnected
  BY <1>3 DEF CreateSurface, ManagerGone, CreateBroken, CreateInhibitor, Reconnected,
              Fail, inhVars
<1> QED BY <1>1, <1>2, <1>3, Cases

(* Connections are only added. *)
LEMMA OpenedGrows ==
    ASSUME SessionAssumption, TypeOK, Next
    PROVE  opened' \in Nat /\ opened <= opened'
<1>0. opened \in Nat  BY DEF TypeOK, SessionTypeOK, SessionAssumption, Connections
<1>1. CASE UNCHANGED opened  BY <1>0, <1>1
<1>2. ASSUME NEW p \in Procs, Connect(p) PROVE opened' \in Nat /\ opened <= opened'
  BY <1>0, <1>2 DEF Connect
<1>3. CASE SessionStep
  BY <1>1, <1>2, <1>3 DEF SessionStep, LoopTop, ReadFails, HandshakeStolen,
       CompositorExit,
       CompositorStart, ConnectRefused, Handshake, HandshakeFails, HandshakeResumed
<1>4. CASE Waiting \/ (\E p \in Procs : InvalidateStaleProxies(p))
  BY <1>1, <1>4 DEF Waiting, Configured, Unmapped, IdleEvent, IdleEventHandled,
       InvalidateStaleProxies, Invalidate
<1>5. CASE RequestStart
  BY <1>1, <1>5 DEF RequestStart, CreateDisabled, CreateEnabled, InhibitOnFirst,
       InhibitOffFirst,
              Enable, Enabling, Disable, DestroyInhibitor, SetUnchanged, sessionVars
<1>6. CASE CreateSurface \/ ManagerGone \/ CreateBroken \/ CreateInhibitor \/ Assign \/ Reconnected
  BY <1>1, <1>6 DEF CreateSurface, ManagerGone, CreateBroken, CreateInhibitor, Assign,
       Reconnected, sessionVars
<1> QED BY <1>3, <1>4, <1>5, <1>6, Cases

(* Within is preserved. *)
LEMMA WithinStep ==
    ASSUME SessionAssumption, InhibitorAssumption, TypeOK, Within, Next
    PROVE  Within'
<1>0. /\ opened \in Nat /\ opened' \in Nat /\ opened <= opened'
      /\ proxy \in [Inhs -> Nat] /\ gen[Request] \in 0..opened
  BY OpenedGrows DEF TypeOK, SessionTypeOK, Procs, Connections, SessionAssumption,
       InhibitorAssumption
<1>1. CASE UNCHANGED proxy  BY <1>0, <1>1 DEF Within
<1>2. CASE Assign  BY <1>0, <1>2 DEF Assign, Within
<1>3. ASSUME NEW i \in Inhs, Release(i) PROVE Within'  BY <1>0, <1>3 DEF Release, Within
<1>4. ASSUME NEW p \in Procs, InvalidateStaleProxies(p) PROVE Within'
  BY <1>0, <1>4 DEF InvalidateStaleProxies, Within
<1> QED BY <1>1, <1>2, <1>3, <1>4, ProxyChanges

(* The session moves a request only through connectWayland. *)
LEMMA RequestInSession ==
    ASSUME SessionAssumption, InhibitorAssumption, TypeOK, SessionStep
    PROVE  \/ pc'[Request] = pc[Request]
           \/ /\ pc[Request] \in {"connect", "handshake"}
              /\ pc'[Request] \in {"handshake", "bound", "refused"}
<1> USE SessionAssumption, InhibitorAssumption DEF SessionAssumption,
     InhibitorAssumption, Procs, Go
<1>0. Request # Dispatcher /\ pc = [p \in Procs |-> pc[p]]
  BY DEF TypeOK, SessionTypeOK, RequestLabels
<1>1. CASE CompositorExit \/ CompositorStart  BY <1>1 DEF CompositorExit,
     CompositorStart
<1>2. CASE LoopTop \/ ReadFails \/ HandshakeStolen
  BY <1>0, <1>2 DEF LoopTop, ReadFails, HandshakeStolen
<1>3. ASSUME NEW p \in Procs,
             Connect(p) \/ Handshake(p) \/ HandshakeResumed(p) \/ ConnectRefused(p) \/ HandshakeFails(p)
      PROVE  \/ pc'[Request] = pc[Request]
             \/ /\ pc[Request] \in {"connect", "handshake"}
                /\ pc'[Request] \in {"handshake", "bound", "refused"}
  <2>1. CASE p = Request
    BY <1>0, <1>3, <2>1 DEF Connect, Handshake, HandshakeResumed, ConnectRefused,
         HandshakeFails
  <2>2. CASE p # Request
    <3>1. PICK l : pc' = [pc EXCEPT ![p] = l]
      BY <1>3 DEF Connect, Handshake, HandshakeResumed, ConnectRefused, HandshakeFails
    <3> QED BY <1>0, <2>2, <3>1
  <2> QED BY <2>1, <2>2
<1> QED BY <1>1, <1>2, <1>3 DEF SessionStep

(* Pending is preserved. *)
LEMMA PendingStep ==
    ASSUME SessionAssumption, InhibitorAssumption, TypeOK, Pending,
         ReferencedMeansOn, Next
    PROVE  Pending'
<1> USE SessionAssumption, InhibitorAssumption DEF SessionAssumption,
     InhibitorAssumption
<1>0. /\ Request # Dispatcher /\ Request \in Procs /\ Dispatcher \in Procs /\ pc = [p \in Procs |-> pc[p]]
      /\ ids \in Nat /\ table \subseteq 1..ids /\ enabled \in [Inhs -> BOOLEAN] /\ target \in Nat
  BY DEF TypeOK, SessionTypeOK, RequestLabels, Procs
<1>1. CASE SessionStep /\ UNCHANGED <<inhVars, reqVars, crashed>>
  <2>1. SessionStep /\ UNCHANGED <<inhVars, reqVars>>  BY <1>1
  <2> QED BY <2>1, RequestInSession DEF Pending, inhVars, reqVars, RequestLabels
<1>2. CASE Waiting
  BY <1>2, <1>0 DEF Waiting, Configured, Unmapped, IdleEvent, IdleEventHandled,
       inhVars, reqVars, Go, Pending, Inhs, RequestLabels, Go, sessionVars
<1>3. ASSUME NEW p \in Procs, InvalidateStaleProxies(p) PROVE Pending'
  BY <1>3, <1>0 DEF InvalidateStaleProxies, reqVars, Pending, Inhs, RequestLabels,
       Go, sessionVars, Invalidate
<1>4. CASE CreateDisabled
  BY <1>4, <1>0 DEF CreateDisabled, Begin, Pending, Inhs, RequestLabels, Go, sessionVars
<1>5. CASE InhibitOffFirst
  BY <1>5, <1>0 DEF InhibitOffFirst, Begin, Pending, Inhs, RequestLabels, Go,
       sessionVars
<1>6. CASE CreateEnabled
  BY <1>6, <1>0 DEF CreateEnabled, Begin, Enabling, Pending, Inhs, RequestLabels, Go,
       sessionVars
<1>7. CASE InhibitOnFirst
  BY <1>7, <1>0 DEF InhibitOnFirst, Begin, Enabling, Pending, Inhs, RequestLabels,
       Go, sessionVars
<1>8. ASSUME NEW i \in Inhs, Enable(i) PROVE Pending'
  BY <1>8, <1>0 DEF Enable, Begin, Enabling, Pending, Inhs, RequestLabels, Go,
       sessionVars
<1>9. ASSUME NEW i \in Inhs, Disable(i) PROVE Pending'
  BY <1>9, <1>0 DEF Disable, Begin, Release, Pending, Inhs, RequestLabels, Go,
       sessionVars
<1>10. ASSUME NEW i \in Inhs, DestroyInhibitor(i) PROVE Pending'
  BY <1>10, <1>0 DEF DestroyInhibitor, Begin, Release, Pending, Inhs, RequestLabels,
       Go, sessionVars
<1>11. ASSUME NEW i \in Inhs, NEW on \in BOOLEAN, SetUnchanged(i, on) PROVE Pending'
  BY <1>11, <1>0 DEF SetUnchanged, Begin, inhVars, Pending, Inhs, RequestLabels, Go,
       sessionVars
<1>12. CASE CreateSurface
  BY <1>12, <1>0 DEF CreateSurface, Fail, inhVars, reqVars, Pending, Inhs,
       RequestLabels, Go, sessionVars
<1>13. CASE ManagerGone
  BY <1>13, <1>0 DEF ManagerGone, inhVars, reqVars, Pending, Inhs, RequestLabels, Go,
       sessionVars
<1>14. CASE CreateBroken
  BY <1>14, <1>0 DEF CreateBroken, Fail, inhVars, Pending, Inhs, RequestLabels, Go,
       sessionVars
<1>15. CASE CreateInhibitor
  BY <1>15, <1>0 DEF CreateInhibitor, reqVars, Pending, Inhs, RequestLabels, Go,
       sessionVars
<1>16. CASE Assign
  BY <1>16, <1>0 DEF Assign, Pending, Inhs, RequestLabels, Go, sessionVars
<1>17. CASE Reconnected
  BY <1>17, <1>0 DEF Reconnected, Fail, inhVars, reqVars, Pending, Inhs,
       RequestLabels, Go, sessionVars
<1> QED BY Cases, <1>1, <1>2, <1>3, <1>4, <1>5, <1>6, <1>7, <1>8, <1>9, <1>10, <1>11,
     <1>12, <1>13, <1>14, <1>15, <1>16, <1>17 DEF RequestStart

(* ReferencedMeansOn is preserved. *)
LEMMA OnStep ==
    ASSUME SessionAssumption, InhibitorAssumption, TypeOK, Pending,
         ReferencedMeansOn, Next
    PROVE  ReferencedMeansOn'
<1> USE SessionAssumption, InhibitorAssumption DEF SessionAssumption,
     InhibitorAssumption
<1>0. /\ enabled \in [Inhs -> BOOLEAN] /\ proxy \in [Inhs -> 0..MaxConns] /\ target \in 0..MaxIds
  BY DEF TypeOK
<1>1. CASE SessionStep /\ UNCHANGED <<inhVars, reqVars, crashed>>
  BY <1>1, <1>0 DEF inhVars, reqVars, ReferencedMeansOn
<1>2. CASE Waiting
  BY <1>2, <1>0 DEF Waiting, Configured, Unmapped, IdleEvent, IdleEventHandled,
       inhVars, reqVars, Go, ReferencedMeansOn
<1>3. ASSUME NEW p \in Procs, InvalidateStaleProxies(p) PROVE ReferencedMeansOn'
  BY <1>3, <1>0 DEF InvalidateStaleProxies, reqVars, ReferencedMeansOn
<1>4. CASE CreateDisabled
  BY <1>4, <1>0 DEF CreateDisabled, ReferencedMeansOn
<1>5. CASE InhibitOffFirst
  BY <1>5, <1>0 DEF InhibitOffFirst, ReferencedMeansOn
<1>6. CASE CreateEnabled
  BY <1>6, <1>0 DEF CreateEnabled, Enabling, ReferencedMeansOn
<1>7. CASE InhibitOnFirst
  BY <1>7, <1>0 DEF InhibitOnFirst, Enabling, ReferencedMeansOn
<1>8. ASSUME NEW i \in Inhs, Enable(i) PROVE ReferencedMeansOn'
  BY <1>8, <1>0 DEF Enable, Enabling, ReferencedMeansOn, Pending
<1>9. ASSUME NEW i \in Inhs, Disable(i) PROVE ReferencedMeansOn'
  BY <1>9, <1>0 DEF Disable, Release, ReferencedMeansOn
<1>10. ASSUME NEW i \in Inhs, DestroyInhibitor(i) PROVE ReferencedMeansOn'
  BY <1>10, <1>0 DEF DestroyInhibitor, Release, ReferencedMeansOn
<1>11. ASSUME NEW i \in Inhs, NEW on \in BOOLEAN, SetUnchanged(i, on)
     PROVE ReferencedMeansOn'
  BY <1>11, <1>0 DEF SetUnchanged, inhVars, ReferencedMeansOn
<1>12. CASE CreateSurface
  BY <1>12, <1>0 DEF CreateSurface, Fail, inhVars, reqVars, ReferencedMeansOn, Pending
<1>13. CASE ManagerGone
  BY <1>13, <1>0 DEF ManagerGone, inhVars, reqVars, ReferencedMeansOn
<1>14. CASE CreateBroken
  BY <1>14, <1>0 DEF CreateBroken, Fail, inhVars, ReferencedMeansOn, Pending
<1>15. CASE CreateInhibitor
  BY <1>15, <1>0 DEF CreateInhibitor, reqVars, ReferencedMeansOn
<1>16. CASE Assign
  BY <1>16, <1>0 DEF Assign, ReferencedMeansOn, Pending
<1>17. CASE Reconnected
  BY <1>17, <1>0 DEF Reconnected, Fail, inhVars, reqVars, ReferencedMeansOn, Pending
<1> QED BY Cases, <1>1, <1>2, <1>3, <1>4, <1>5, <1>6, <1>7, <1>8, <1>9, <1>10, <1>11,
     <1>12, <1>13, <1>14, <1>15, <1>16, <1>17 DEF RequestStart

(* The only new connection has a new number, and a request keeps its own. *)
LEMMA SessionKeeps ==
    ASSUME SessionAssumption, InhibitorAssumption, TypeOK, SessionStep
    PROVE  /\ alive' \subseteq alive \cup {opened + 1}
           /\ pc[Request] \in RequestLabels => gen'[Request] = gen[Request]
<1> USE SessionAssumption, InhibitorAssumption DEF SessionAssumption,
     InhibitorAssumption, Procs
<1>0. Request # Dispatcher /\ gen = [p \in Procs |-> gen[p]]  BY DEF TypeOK,
     SessionTypeOK, RequestLabels
<1>1. CASE LoopTop \/ ReadFails \/ HandshakeStolen \/ CompositorExit \/ CompositorStart
  BY <1>0, <1>1 DEF LoopTop, ReadFails, HandshakeStolen, CompositorExit, CompositorStart
<1>2. ASSUME NEW p \in Procs, Connect(p)
      PROVE  /\ alive' \subseteq alive \cup {opened + 1}
             /\ pc[Request] \in RequestLabels => gen'[Request] = gen[Request]
  BY <1>0, <1>2 DEF Connect, RequestLabels
<1>3. ASSUME NEW p \in Procs,
             ConnectRefused(p) \/ Handshake(p) \/ HandshakeFails(p) \/ HandshakeResumed(p)
      PROVE  UNCHANGED <<alive, gen>>
  BY <1>3 DEF ConnectRefused, Handshake, HandshakeFails, HandshakeResumed
<1> QED BY <1>1, <1>2, <1>3 DEF SessionStep

(* A new inhibitor has an id within the bound. *)
LEMMA NewIsInh ==
    ASSUME InhibitorAssumption, TypeOK, ids < MaxIds
    PROVE  ids + 1 \in Inhs
BY DEF TypeOK, InhibitorAssumption, Inhs

(* ObjectsExist is preserved. *)
LEMMA ExistStep ==
    ASSUME SessionAssumption, InhibitorAssumption, TypeOK, Within, Pending,
         ReferencedMeansOn, ObjectsExist, Next
    PROVE  ObjectsExist'
<1> USE SessionAssumption, InhibitorAssumption DEF SessionAssumption,
     InhibitorAssumption
<1>0. /\ Request # Dispatcher /\ Request \in Procs /\ Dispatcher \in Procs /\ pc = [p \in Procs |-> pc[p]]
      /\ proxy \in [Inhs -> 0..MaxConns] /\ target \in 0..MaxIds /\ live \in [Inhs -> [Connections -> Nat]]
      /\ gen \in [Procs -> 0..opened] /\ 0 \notin alive /\ alive \subseteq Connections /\ opened \in Connections
  BY DEF TypeOK, SessionTypeOK, RequestLabels, Procs, Connections
<1>a. ASSUME NEW i \in Inhs, Release(i), UNCHANGED alive, pc'[Request] = "idle"
      PROVE  ObjectsExist'
  <2> SUFFICES ASSUME NEW j \in Inhs, proxy'[j] \in alive
               PROVE  live'[j][proxy'[j]] > 0
    BY <1>a DEF ObjectsExist, ReferencedObjectExists
  <2>1. j # i /\ proxy'[j] = proxy[j]  BY <1>0, <1>a DEF Release
  <2>2. live'[j] = live[j]  BY <1>0, <1>a, <2>1 DEF Release, Destroyed
  <2> QED BY <2>1, <2>2 DEF ObjectsExist, ReferencedObjectExists
<1>1. CASE SessionStep /\ UNCHANGED <<inhVars, reqVars, crashed>>
  <2>1. UNCHANGED <<proxy, live, target>>  BY <1>1 DEF inhVars, reqVars
  <2>2. alive' \subseteq alive \cup {opened + 1}  BY <1>1, SessionKeeps
  <2>3. ASSUME NEW i \in Inhs, proxy[i] \in alive' PROVE proxy[i] \in alive
    BY <1>0, <2>2, <2>3 DEF Within, Connections
  <2>4. pc'[Request] = "assign" => pc[Request] = "assign" /\ gen'[Request] = gen[Request]
    BY <1>1, RequestInSession, SessionKeeps DEF RequestLabels
  <2>5. gen[Request] \in alive' => gen[Request] \in alive
    BY <1>0, <2>2 DEF Connections
  <2> QED BY <2>1, <2>3, <2>4, <2>5 DEF ObjectsExist, ReferencedObjectExists
<1>2. CASE Waiting
  BY <1>2, <1>0 DEF Waiting, Configured, Unmapped, IdleEvent, IdleEventHandled,
       inhVars, reqVars, Go, ObjectsExist, ReferencedObjectExists, Go, sessionVars
<1>3. ASSUME NEW p \in Procs, InvalidateStaleProxies(p) PROVE ObjectsExist'
  BY <1>3, <1>0 DEF InvalidateStaleProxies, reqVars, ObjectsExist,
       ReferencedObjectExists, Go, sessionVars, Invalidate
<1>4. CASE CreateDisabled
  BY <1>4, <1>0 DEF CreateDisabled, Begin, ObjectsExist, ReferencedObjectExists, Go,
       sessionVars
<1>5. CASE InhibitOffFirst
  BY <1>5, <1>0 DEF InhibitOffFirst, Begin, ObjectsExist, ReferencedObjectExists, Go,
       sessionVars
<1>6. CASE CreateEnabled
  <2>1. ids + 1 \in Inhs  BY <1>6, NewIsInh DEF CreateEnabled
  <2> QED BY <1>0, <1>6, <2>1 DEF CreateEnabled, Enabling, ObjectsExist,
       ReferencedObjectExists, Go
<1>7. CASE InhibitOnFirst
  <2>1. ids + 1 \in Inhs  BY <1>7, NewIsInh DEF InhibitOnFirst
  <2> QED BY <1>0, <1>7, <2>1 DEF InhibitOnFirst, Enabling, ObjectsExist,
       ReferencedObjectExists, Go
<1>8. ASSUME NEW i \in Inhs, Enable(i) PROVE ObjectsExist'
  BY <1>8, <1>0 DEF Enable, Begin, Enabling, ObjectsExist, ReferencedObjectExists,
       Go, sessionVars
<1>9. ASSUME NEW i \in Inhs, Disable(i) PROVE ObjectsExist'
  BY <1>a, <1>9 DEF Disable, Begin, sessionVars
<1>10. ASSUME NEW i \in Inhs, DestroyInhibitor(i) PROVE ObjectsExist'
  BY <1>a, <1>10 DEF DestroyInhibitor, Begin, sessionVars
<1>11. ASSUME NEW i \in Inhs, NEW on \in BOOLEAN, SetUnchanged(i, on)
     PROVE ObjectsExist'
  BY <1>11, <1>0 DEF SetUnchanged, Begin, inhVars, ObjectsExist,
       ReferencedObjectExists, Go, sessionVars
<1>12. CASE CreateSurface
  BY <1>12, <1>0 DEF CreateSurface, Fail, inhVars, reqVars, ObjectsExist,
       ReferencedObjectExists, Go, sessionVars, Pending, ReferencedMeansOn
<1>13. CASE ManagerGone
  BY <1>13, <1>0 DEF ManagerGone, inhVars, reqVars, ObjectsExist,
       ReferencedObjectExists, Go, sessionVars
<1>14. CASE CreateBroken
  BY <1>14, <1>0 DEF CreateBroken, Fail, inhVars, ObjectsExist,
       ReferencedObjectExists, Go, sessionVars, Pending, ReferencedMeansOn
<1>15. CASE CreateInhibitor
  <2>1. target \in Inhs /\ globals \in Connections
    BY <1>0, <1>15 DEF CreateInhibitor, Pending, Inhs
  <2>2. /\ UNCHANGED <<proxy, target>> /\ alive' \subseteq alive
        /\ gen'[Request] = globals
    BY <1>0, <1>15 DEF CreateInhibitor, reqVars
  <2>3. ASSUME NEW i \in Inhs, NEW g \in Connections, live[i][g] > 0
       PROVE live'[i][g] > 0
    <3>1. live[i][g] \in Nat  BY <1>0
    <3>2. CASE UNCHANGED live  BY <2>3, <3>2
    <3>3. CASE live' = [live EXCEPT ![target][globals] = @ + 1]
      BY <1>0, <2>1, <2>3, <3>1, <3>3
    <3> QED BY <1>15, <3>2, <3>3 DEF CreateInhibitor
  <2>4. globals \in alive' => live'[target][globals] > 0
    <3>1. CASE globals = gen[Request]
      <4>1. live' = [live EXCEPT ![target][globals] = @ + 1]  BY <1>15, <3>1
           DEF CreateInhibitor
      <4>2. live[target][globals] \in Nat  BY <1>0, <2>1
      <4> QED BY <1>0, <2>1, <4>1, <4>2
    <3>2. CASE globals # gen[Request]  BY <1>15, <3>2 DEF CreateInhibitor
    <3> QED BY <3>1, <3>2
  <2>5. ReferencedObjectExists'
    BY <1>0, <2>2, <2>3 DEF ObjectsExist, ReferencedObjectExists
  <2> QED BY <2>2, <2>4, <2>5 DEF ObjectsExist
<1>16. CASE Assign
  BY <1>16, <1>0 DEF Assign, ObjectsExist, ReferencedObjectExists, Go, sessionVars,
       Pending, ReferencedMeansOn
<1>17. CASE Reconnected
  BY <1>17, <1>0 DEF Reconnected, Fail, inhVars, reqVars, ObjectsExist,
       ReferencedObjectExists, Go, sessionVars, Pending, ReferencedMeansOn
<1> QED BY Cases, <1>1, <1>2, <1>3, <1>4, <1>5, <1>6, <1>7, <1>8, <1>9, <1>10, <1>11,
     <1>12, <1>13, <1>14, <1>15, <1>16, <1>17 DEF RequestStart

(* The first connection does not come back. *)
LEMMA FirstLasts ==
    ASSUME SessionAssumption, InhibitorAssumption, TypeOK, Next, 1 \in alive'
    PROVE  1 \in alive
<1>1. opened \in Connections  BY DEF TypeOK, SessionTypeOK
<1>2. alive' \subseteq alive \cup {opened + 1}
  BY Cases, SessionKeeps DEF RequestStart, Waiting, Configured, Unmapped, IdleEvent,
       IdleEventHandled,
     InvalidateStaleProxies, Invalidate, CreateDisabled, CreateEnabled, InhibitOnFirst,
     InhibitOffFirst, Enable, Enabling, Disable, DestroyInhibitor, SetUnchanged,
          CreateSurface,
     ManagerGone, CreateBroken, CreateInhibitor, Assign, Reconnected, sessionVars
<1> QED BY <1>1, <1>2 DEF SessionAssumption, Connections

(* While the first connection lasts nobody connects. *)
LEMMA FirstSessionStep ==
    ASSUME SessionAssumption, InhibitorAssumption, TypeOK, Within, FirstSession,
         1 \in alive,
           Next, 1 \in alive', \A i \in Inhs : proxy[i] \in {0, 1}
    PROVE  FirstSession'
<1> USE SessionAssumption, InhibitorAssumption DEF SessionAssumption,
     InhibitorAssumption, Procs, Go
<1>0. /\ Request # Dispatcher /\ pc = [p \in Procs |-> pc[p]] /\ gen = [p \in Procs |-> gen[p]]
  BY DEF TypeOK, SessionTypeOK, RequestLabels
<1>1. CASE SessionStep
  <2>1. \A p \in Procs : pc[p] \notin {"connect", "handshake"}  BY DEF FirstSession
  <2>2. CASE LoopTop  BY <1>0, <2>2 DEF LoopTop, FirstSession
  <2>3. CASE CompositorStart  BY <2>3 DEF CompositorStart, FirstSession
  <2>4. ~ReadFails /\ ~HandshakeStolen /\ ~CompositorExit
    BY DEF ReadFails, HandshakeStolen, CompositorExit, FirstSession
  <2> QED BY <1>1, <2>1, <2>2, <2>3, <2>4 DEF SessionStep, Connect, ConnectRefused,
       Handshake,
                                              HandshakeFails, HandshakeResumed
<1>2. CASE Waiting
  <2>1. CASE Configured  BY <1>0, <2>1 DEF Configured, FirstSession
  <2>2. CASE Unmapped  BY <1>0, <2>2 DEF Unmapped, FirstSession
  <2>3. CASE IdleEvent \/ IdleEventHandled  BY <1>0, <2>3 DEF IdleEvent,
       IdleEventHandled, FirstSession
  <2> QED BY <1>2, <2>1, <2>2, <2>3 DEF Waiting
<1>3. ASSUME NEW p \in Procs PROVE ~InvalidateStaleProxies(p)
  BY <1>3 DEF InvalidateStaleProxies, Invalidate, FirstSession
<1>4. CASE UNCHANGED sessionVars  BY <1>4 DEF sessionVars, FirstSession
<1>5. ASSUME NEW i \in Inhs, NEW new \in BOOLEAN, Enabling(i, new) PROVE FirstSession'
  <2>1. CASE proxy[i] # 0  BY <1>0, <1>5, <2>1 DEF Enabling, FirstSession
  <2>2. CASE proxy[i] = 0  BY <1>0, <1>5, <2>2 DEF Enabling, FirstSession
  <2> QED BY <2>1, <2>2
<1>6. CASE RequestStart
  BY <1>4, <1>5, <1>6, NewIsInh DEF RequestStart, CreateDisabled, CreateEnabled,
       InhibitOnFirst,
     InhibitOffFirst, Enable, Disable, DestroyInhibitor, SetUnchanged
<1>7. CASE CreateSurface  BY <1>0, <1>7 DEF CreateSurface, FirstSession
<1>8. CASE CreateInhibitor  BY <1>0, <1>8 DEF CreateInhibitor, FirstSession
<1>9. CASE Assign  BY <1>0, <1>9 DEF Assign, FirstSession
<1>10. ~CreateBroken /\ ~Reconnected  BY DEF CreateBroken, Reconnected, FirstSession
<1> QED BY <1>1, <1>2, <1>3, <1>4, <1>6, <1>7, <1>8, <1>9, <1>10, Cases DEF ManagerGone

(* While it lasts both ends go on agreeing on every inhibitor. *)
LEMMA ExactStep ==
    ASSUME SessionAssumption, InhibitorAssumption, TypeOK, Pending,
         ReferencedMeansOn, FirstSession, 1 \in alive, NEW i \in Inhs,
         \A j \in Inhs : Exact(j), Next
    PROVE  Exact(i)'
<1> USE SessionAssumption, InhibitorAssumption DEF SessionAssumption,
     InhibitorAssumption, Procs, Go
<1>0. /\ Request # Dispatcher /\ pc = [p \in Procs |-> pc[p]] /\ 1 \in Connections
      /\ proxy = [j \in Inhs |-> proxy[j]] /\ enabled \in [Inhs -> BOOLEAN] /\ target \in 0..MaxIds
      /\ live \in [Inhs -> [Connections -> Nat]] /\ ids \in Nat /\ table \subseteq 1..ids
  BY DEF TypeOK, SessionTypeOK, RequestLabels, Connections
<1>a. ASSUME NEW j \in Inhs, Release(j), pc[Request] = "idle"
      PROVE  live'[i][1] = IF i = j THEN 0 ELSE live[i][1]
  <2>1. proxy[j] \in {0, 1} /\ live[j][1] = proxy[j]  BY <1>0, <1>a DEF Exact,
       Pending, Inhs
  <2>2. CASE proxy[j] = 1
    <3>1. live' = [live EXCEPT ![j][1] = @ - 1]  BY <1>a, <2>2 DEF Release, Destroyed
    <3> QED BY <1>0, <2>1, <2>2, <3>1
  <2>3. CASE proxy[j] = 0
    <3>1. 0 \notin alive  BY DEF TypeOK, SessionTypeOK, Connections
    <3>2. live' = live  BY <1>a, <2>3, <3>1 DEF Release, Destroyed
    <3> QED BY <2>1, <2>3, <3>2
  <2> QED BY <2>1, <2>2, <2>3
<1>1. CASE SessionStep /\ UNCHANGED <<inhVars, reqVars, crashed>>
  <2>1. UNCHANGED <<table, enabled, proxy, live, target>>  BY <1>1 DEF inhVars, reqVars
  <2>2. pc'[Request] = pc[Request]  BY <1>1, RequestInSession DEF FirstSession
  <2> QED BY <2>1, <2>2 DEF Exact
<1>2. CASE Waiting
  <2>1. UNCHANGED <<table, enabled, proxy, live, target>>
    BY <1>2 DEF Waiting, Configured, Unmapped, IdleEvent, IdleEventHandled, inhVars,
         reqVars
  <2>2. pc'[Request] = "assign" <=> pc[Request] = "assign"
    BY <1>0, <1>2 DEF Waiting, Configured, Unmapped, IdleEvent, IdleEventHandled
  <2> QED BY <2>1, <2>2 DEF Exact
<1>3. CASE CreateDisabled
  BY <1>3, <1>0 DEF CreateDisabled, Begin, Exact, sessionVars, Pending
<1>4. CASE InhibitOffFirst
  BY <1>4, <1>0 DEF InhibitOffFirst, Begin, Exact, sessionVars, Pending
<1>5. CASE CreateEnabled
  BY <1>5, <1>0 DEF CreateEnabled, Begin, Enabling, Exact, sessionVars, Pending
<1>6. CASE InhibitOnFirst
  BY <1>6, <1>0 DEF InhibitOnFirst, Begin, Enabling, Exact, sessionVars, Pending
<1>7. ASSUME NEW j \in Inhs, Enable(j) PROVE Exact(i)'
  BY <1>7, <1>0 DEF Enable, Begin, Enabling, Exact, sessionVars, Pending
<1>8. ASSUME NEW j \in Inhs, Disable(j) PROVE Exact(i)'
  <2>1. live'[i][1] = IF i = j THEN 0 ELSE live[i][1]  BY <1>a, <1>8 DEF Disable, Begin
  <2>2. proxy'[i] = IF i = j THEN 0 ELSE proxy[i]  BY <1>0, <1>8 DEF Disable, Release
  <2> QED BY <1>0, <1>8, <2>1, <2>2 DEF Disable, Begin, Exact, sessionVars, Pending,
       Inhs
<1>9. ASSUME NEW j \in Inhs, DestroyInhibitor(j) PROVE Exact(i)'
  <2>1. live'[i][1] = IF i = j THEN 0 ELSE live[i][1]  BY <1>a, <1>9
       DEF DestroyInhibitor, Begin
  <2>2. proxy'[i] = IF i = j THEN 0 ELSE proxy[i]  BY <1>0, <1>9
       DEF DestroyInhibitor, Release
  <2> QED BY <1>0, <1>9, <2>1, <2>2 DEF DestroyInhibitor, Begin, Exact, sessionVars,
       Pending, Inhs
<1>10. ASSUME NEW j \in Inhs, NEW on \in BOOLEAN, SetUnchanged(j, on) PROVE Exact(i)'
  BY <1>10, <1>0 DEF SetUnchanged, Begin, inhVars, Exact, sessionVars, Pending
<1>11. CASE CreateSurface
  BY <1>11, <1>0 DEF CreateSurface, Fail, inhVars, reqVars, Exact, sessionVars,
       Pending, FirstSession
<1>12. CASE ManagerGone
  BY <1>12, <1>0 DEF ManagerGone, inhVars, reqVars, Exact, sessionVars, Pending
<1>13. CASE CreateInhibitor
  BY <1>13, <1>0 DEF CreateInhibitor, reqVars, Exact, sessionVars, Pending, FirstSession
<1>14. CASE Assign
  BY <1>14, <1>0 DEF Assign, Exact, sessionVars, Pending, FirstSession
<1>b. ~CreateBroken /\ ~Reconnected /\ \A p \in Procs : ~InvalidateStaleProxies(p)
  BY DEF CreateBroken, Reconnected, InvalidateStaleProxies, Invalidate, FirstSession
<1> QED BY <1>b, Cases, <1>1, <1>2, <1>3, <1>4, <1>5, <1>6, <1>7, <1>8, <1>9, <1>10,
     <1>11, <1>12, <1>13, <1>14 DEF RequestStart

(* IInv holds at first and is preserved by every step. *)
LEMMA Inductive ==
    ASSUME SessionAssumption, InhibitorAssumption
    PROVE  /\ Init => IInv
           /\ IInv /\ [Next]_vars => IInv'
<1>1. ASSUME Init PROVE IInv
  <2> USE <1>1, SessionAssumption, InhibitorAssumption DEF SessionAssumption,
       InhibitorAssumption, Init, SessionInit, Inhs, Connections, Procs
  <2>1. SessionTypeOK(RequestLabels)  BY DEF SessionTypeOK, RequestLabels
  <2>2. TableTypeOK
    <3>1. table \subseteq 1..ids  OBVIOUS
    <3>2. enabled \in [Inhs -> BOOLEAN] /\ fresh \in BOOLEAN /\ crashed \in BOOLEAN  OBVIOUS
    <3>3. proxy \in [Inhs -> 0..MaxConns]  OBVIOUS
    <3> QED BY <3>1, <3>2, <3>3 DEF TableTypeOK
  <2>7. live \in [Inhs -> [Connections -> Nat]]  OBVIOUS
  <2>3. TypeOK  BY <2>1, <2>2, <2>7 DEF TypeOK, TableTypeOK
  <2>4. Within /\ Pending /\ ReferencedMeansOn  BY DEF Within, Pending,
       ReferencedMeansOn, RequestLabels
  <2>5. ObjectsExist  BY DEF ObjectsExist, ReferencedObjectExists
  <2>6. FirstConnection  BY DEF FirstConnection, FirstSession, Exact
  <2> QED BY <2>3, <2>4, <2>5, <2>6 DEF IInv
<1>2. ASSUME IInv, Next PROVE IInv'
  <2> USE <1>2, SessionAssumption, InhibitorAssumption DEF IInv
  <2>1. TypeOK' /\ Within' /\ Pending' /\ ReferencedMeansOn' /\ ObjectsExist'
    BY TypeStep, WithinStep, PendingStep, OnStep, ExistStep
  <2>2. CASE 1 \in alive'
    <3>1. 1 \in alive /\ FirstSession /\ \A i \in Inhs : Exact(i)
      BY <2>2, FirstLasts DEF FirstConnection
    <3>2. FirstSession'  BY <2>2, <3>1, FirstSessionStep DEF Exact
    <3>3. ASSUME NEW i \in Inhs PROVE Exact(i)'  BY <3>1, <3>3, ExactStep
    <3> QED BY <2>1, <3>2, <3>3 DEF FirstConnection
  <2>3. CASE 1 \notin alive'  BY <2>1, <2>3 DEF FirstConnection
  <2> QED BY <2>2, <2>3
<1>3. ASSUME IInv, UNCHANGED vars PROVE IInv'
  BY <1>3 DEF IInv, TypeOK, SessionTypeOK, Within, Pending, ReferencedMeansOn,
       ObjectsExist,
     ReferencedObjectExists, FirstConnection, FirstSession, Exact, vars, sessionVars,
          inhVars, reqVars
<1> QED BY <1>1, <1>2, <1>3

(* IInv is an invariant of setInhibitorEnabledLocked and its callers. *)
THEOREM Invariance == Spec => []IInv
<1>1. Init => IInv  BY Inductive, SessionAssumption, InhibitorAssumption
<1>2. IInv /\ [Next]_vars => IInv'  BY Inductive, SessionAssumption, InhibitorAssumption
<1> QED BY <1>1, <1>2, PTL DEF Spec

(* Every variable of the inhibitors keeps its type. *)
THEOREM TypeCorrect == Spec => []TypeOK
<1>1. IInv => TypeOK  BY DEF IInv
<1> QED BY <1>1, Invariance, PTL

(* An object is only referenced by an inhibitor of the map that is on:      *)
(* im.inhibitors and the proxies in it never disagree.                      *)
THEOREM ReferenceMeansOn == Spec => []ReferencedMeansOn
<1>1. IInv => ReferencedMeansOn  BY DEF IInv
<1> QED BY <1>1, Invariance, PTL

(* While the first connection lasts the compositor holds exactly one object *)
(* for each inhibitor that is on, whatever requests succeeded or failed.    *)
THEOREM ExactlyEnabledInhibit == Spec => []InhibitsExactlyEnabled
<1>1. IInv => InhibitsExactlyEnabled
  BY DEF IInv, FirstConnection, Exact, InhibitsExactlyEnabled
<1> QED BY <1>1, Invariance, PTL

(* What destroyInhibitorLocked destroys on a live connection exists there.  *)
THEOREM ReferencesExist == Spec => []ReferencedObjectExists
<1>1. IInv => ReferencedObjectExists  BY DEF IInv, ObjectsExist
<1> QED BY <1>1, Invariance, PTL

(* The first states are those of the abstract table. *)
LEMMA TableInit ==
    ASSUME InhibitorAssumption, Init
    PROVE  Table!Init
BY DEF Init, Table!Init

(* A step changes the abstract table as one of its actions, or not at all. *)
LEMMA TableStep ==
    ASSUME SessionAssumption, InhibitorAssumption, IInv, Next
    PROVE  Table!Next \/ UNCHANGED Table!tableVars
<1> DEFINE Known == IF fresh THEN table \ {target} ELSE table
           On    == {i \in table : enabled[i]}
<1> USE SessionAssumption, InhibitorAssumption DEF SessionAssumption,
     InhibitorAssumption
<1>0. /\ ids \in 0..MaxIds /\ target \in 0..MaxIds /\ table \subseteq 1..ids
      /\ enabled \in [Inhs -> BOOLEAN] /\ fresh \in BOOLEAN /\ Inhs = 1..MaxIds
  BY DEF IInv, TypeOK, Inhs
<1>1. /\ pc[Request] = "idle" <=> target = 0
      /\ target # 0 => target \in table /\ ~enabled[target]
      /\ fresh => target # 0
      /\ ids + 1 \in Inhs => ~enabled[ids + 1]
  BY <1>0 DEF IInv, Pending
<1>2. CASE UNCHANGED <<ids, table, enabled, target, fresh>>
  BY <1>2 DEF Table!tableVars
<1>3. CASE Fail /\ target # 0
  <2>1. Known' = Known  BY <1>0, <1>3 DEF Fail
  <2>2. On' = On  BY <1>0, <1>1, <1>3 DEF Fail
  <2> QED BY <1>3, <2>1, <2>2 DEF Fail, Table!Next, Table!Refuse
<1>4. CASE CreateDisabled \/ InhibitOffFirst \/ CreateEnabled \/ InhibitOnFirst
  <2>0. /\ pc[Request] = "idle" /\ ids < MaxIds /\ ids' = ids + 1 /\ table' = table \cup {ids + 1}
        /\ UNCHANGED enabled
    BY <1>4 DEF CreateDisabled, InhibitOffFirst, CreateEnabled, InhibitOnFirst,
         Begin, Enabling
  <2>1. /\ ids + 1 \in Inhs /\ ids + 1 \notin 1..ids /\ 1..ids' = (1..ids) \cup {ids + 1}
    BY <1>0, <2>0
  <2>2. target = 0 /\ ~fresh  BY <1>1, <2>0
  <2>3. On' = On  BY <1>0, <1>1, <2>0, <2>1
  <2>4. CASE UNCHANGED <<target, fresh>>
    <3>1. Known' = Known \cup {ids + 1}  BY <2>0, <2>2, <2>4
    <3>2. Table!Create(ids + 1)  BY <2>1, <2>2, <2>3, <2>4, <3>1 DEF Table!Create
    <3> QED BY <2>1, <3>2 DEF Table!Next
  <2>5. ASSUME NEW new \in BOOLEAN, Enabling(ids + 1, new)
        PROVE  Table!Next
    <3>1. target' = ids + 1 /\ fresh' = new  BY <2>5 DEF Enabling
    <3>2. Known' \in {Known, Known \cup {ids + 1}}  BY <1>0, <2>0, <2>1, <2>2, <3>1
    <3>3. Table!Ask(ids + 1)  BY <2>1, <2>2, <2>3, <3>1, <3>2 DEF Table!Ask
    <3> QED BY <2>1, <3>3 DEF Table!Next
  <2>6. CASE CreateDisabled \/ InhibitOffFirst  BY <2>4, <2>6 DEF CreateDisabled,
       InhibitOffFirst
  <2>7. CASE CreateEnabled \/ InhibitOnFirst  BY <2>5, <2>7 DEF CreateEnabled,
       InhibitOnFirst
  <2> QED BY <1>4, <2>6, <2>7
<1>5. ASSUME NEW i \in Inhs, Enable(i) PROVE Table!Next
  <2>1. target = 0 /\ ~fresh /\ i \in Known /\ i \notin On  BY <1>1, <1>5 DEF Enable,
       Begin
  <2>2. /\ target' = i /\ fresh' = FALSE /\ UNCHANGED <<ids, table, enabled>>
    BY <1>5 DEF Enable, Enabling
  <2>3. Known' = Known /\ On' = On  BY <2>1, <2>2
  <2>4. Table!Ask(i)  BY <2>1, <2>2, <2>3 DEF Table!Ask
  <2> QED BY <1>0, <2>4 DEF Table!Next
<1>6. ASSUME NEW i \in Inhs, Disable(i) PROVE Table!Next
  <2>1. target = 0 /\ ~fresh /\ i \in On /\ UNCHANGED <<ids, table, target, fresh>>
    BY <1>1, <1>6 DEF Disable, Begin
  <2>2. On' = On \ {i}  BY <1>0, <1>6 DEF Disable
  <2>3. Table!Disable(i)  BY <2>1, <2>2 DEF Table!Disable
  <2> QED BY <1>0, <2>3 DEF Table!Next
<1>7. ASSUME NEW i \in Inhs, DestroyInhibitor(i) PROVE Table!Next
  <2>1. target = 0 /\ ~fresh /\ i \in Known /\ UNCHANGED <<ids, enabled, target, fresh>>
    BY <1>1, <1>7 DEF DestroyInhibitor, Begin
  <2>2. Known' = Known \ {i} /\ On' = On \ {i}  BY <1>7, <2>1 DEF DestroyInhibitor
  <2>3. Table!Destroy(i)  BY <2>1, <2>2 DEF Table!Destroy
  <2> QED BY <1>0, <2>3 DEF Table!Next
<1>8. CASE Assign
  <2>1. target # 0 /\ target \in table  BY <1>1, <1>8 DEF Assign
  <2>2. /\ enabled' = [enabled EXCEPT ![target] = TRUE] /\ target' = 0 /\ fresh' = FALSE
        /\ UNCHANGED <<ids, table>>
    BY <1>8 DEF Assign
  <2>3. Known' = Known \cup {target} /\ On' = On \cup {target}  BY <1>0, <2>1, <2>2
  <2>4. Table!Grant  BY <2>1, <2>2, <2>3 DEF Table!Grant
  <2> QED BY <2>4 DEF Table!Next
<1>9. CASE CreateSurface \/ CreateBroken \/ Reconnected
  <2>1. pc[Request] # "idle"  BY <1>9 DEF CreateSurface, CreateBroken, Reconnected
  <2>2. Fail \/ UNCHANGED <<ids, table, enabled, target, fresh>>
    BY <1>9 DEF CreateSurface, CreateBroken, Reconnected, inhVars, reqVars
  <2> QED BY <1>1, <1>2, <1>3, <2>1, <2>2
<1>10. CASE \/ SessionStep /\ UNCHANGED <<inhVars, reqVars, crashed>>
            \/ Waiting \/ ManagerGone \/ CreateInhibitor
            \/ \E i \in Inhs, on \in BOOLEAN : SetUnchanged(i, on)
            \/ \E p \in Procs : InvalidateStaleProxies(p)
  BY <1>2, <1>10 DEF Waiting, Configured, Unmapped, IdleEvent, IdleEventHandled,
       ManagerGone,
     CreateInhibitor, SetUnchanged, InvalidateStaleProxies, inhVars, reqVars
<1> QED BY <1>4, <1>5, <1>6, <1>7, <1>8, <1>9, <1>10, Cases DEF RequestStart

(* The requests are atomic to the clients through failures, reconnects and  *)
(* the steps in between: the inhibitors implement InhibitorTable.           *)
THEOREM TableImplemented == Spec => RequestsAreAtomic
<1>1. Init => Table!Init  BY TableInit, InhibitorAssumption
<1>2. IInv /\ [Next]_vars => [Table!Next]_Table!tableVars
  <2>1. CASE Next  BY <2>1, TableStep, SessionAssumption, InhibitorAssumption
  <2>2. CASE UNCHANGED vars
    BY <2>2 DEF vars, inhVars, reqVars, Table!tableVars
  <2> QED BY <2>1, <2>2
<1> QED BY <1>1, <1>2, Invariance, PTL DEF Spec, RequestsAreAtomic, Table!Spec

=============================================================================
