------------------------- MODULE EventFanoutProofs -------------------------
(***************************************************************************)
(* Proofs about EventFanout: type correctness, the consistency of the      *)
(* clients registry, and from it that nobody ever sends on a closed        *)
(* channel and that a subscription's notifications are delivered in order. *)
(***************************************************************************)
EXTENDS EventFanout, SequenceTheorems, TLAPS

----------------------------------------------------------------------------
(* Sequences *)

\* all is the concatenation of what was received, what is in hand and what is
\* queued.  The name keeps the provers from taking the equality apart.
InOrder(all, r, h, q) == all = r \o h \o q

\* Appending to the queue appends to the whole of what the channel carried.
LEMMA AppendToQueue ==
    ASSUME NEW S, NEW r \in Seq(S), NEW h \in Seq(S), NEW q \in Seq(S), NEW x \in S,
           NEW all, InOrder(all, r, h, q)
    PROVE  InOrder(Append(all, x), r, h, Append(q, x))
<1> DEFINE rh == r \o h
<1>1. rh \in Seq(S) /\ <<x>> \in Seq(S)
  BY ConcatProperties
<1>2. all = rh \o q /\ all \in Seq(S)
  BY <1>1, ConcatProperties DEF InOrder
<1>3. Append(all, x) = all \o <<x>>
  BY <1>2, AppendIsConcat
<1>4. Append(q, x) = q \o <<x>>
  BY AppendIsConcat
<1>5. (rh \o q) \o <<x>> = rh \o (q \o <<x>>)
  BY <1>1, ConcatAssociative
<1> QED
  BY <1>2, <1>3, <1>4, <1>5 DEF InOrder

\* A nonempty queue is its head followed by its tail.
LEMMA HeadThenTail ==
    ASSUME NEW S, NEW q \in Seq(S), q # <<>>
    PROVE  <<Head(q)>> \o Tail(q) = q
<1>1. /\ Head(q) \in S /\ Tail(q) \in Seq(S) /\ Len(Tail(q)) = Len(q) - 1
      /\ \A i \in 1..Len(Tail(q)) : Tail(q)[i] = q[i + 1]
  BY HeadTailProperties
<1>2. <<Head(q)>> \in Seq(S) /\ Len(<<Head(q)>>) = 1 /\ <<Head(q)>>[1] = Head(q)
  BY <1>1
<1>3. Len(q) \in Nat \ {0} /\ Head(q) = q[1]
  BY EmptySeq
<1> DEFINE r == <<Head(q)>> \o Tail(q)
<1>4. /\ r \in Seq(S) /\ Len(r) = Len(q)
      /\ \A i \in 1..Len(q) :
            r[i] = IF i <= 1 THEN <<Head(q)>>[i] ELSE Tail(q)[i - 1]
  BY <1>1, <1>2, <1>3, ConcatProperties
<1>5. \A i \in 1..Len(q) : r[i] = q[i]
  <2> SUFFICES ASSUME NEW i \in 1..Len(q) PROVE r[i] = q[i]
    OBVIOUS
  <2>1. CASE i = 1
    BY <2>1, <1>2, <1>3, <1>4
  <2>2. CASE i # 1
    <3>1. i - 1 \in 1..Len(Tail(q)) /\ (i - 1) + 1 = i /\ ~(i <= 1)
      BY <2>2, <1>1, <1>3
    <3> QED
      BY <3>1, <1>1, <1>4
  <2> QED
    BY <2>1, <2>2
<1> QED
  BY <1>4, <1>5, SeqEqual

\* Taking the head of the queue in hand leaves the whole unchanged.
LEMMA TakeFromQueue ==
    ASSUME NEW S, NEW r \in Seq(S), NEW q \in Seq(S), q # <<>>,
           NEW all, InOrder(all, r, <<>>, q)
    PROVE  InOrder(all, r, <<Head(q)>>, Tail(q))
<1> DEFINE h == <<Head(q)>>
           t == Tail(q)
<1>1. h \in Seq(S) /\ t \in Seq(S)
  BY HeadTailProperties
<1>2. h \o t = q
  BY HeadThenTail
<1>3. all = r \o q
  BY ConcatEmptySeq DEF InOrder
<1> HIDE DEF h, t
<1>4. (r \o h) \o t = r \o (h \o t)
  BY <1>1, ConcatAssociative
<1>5. InOrder(all, r, h, t)
  BY <1>2, <1>3, <1>4 DEF InOrder
<1> QED
  BY <1>5 DEF h, t

\* Writing what is in hand moves it to the end of what was received.
LEMMA WriteHand ==
    ASSUME NEW S, NEW r \in Seq(S), NEW q \in Seq(S), NEW x \in S,
           NEW all, InOrder(all, r, <<x>>, q)
    PROVE  InOrder(all, Append(r, x), <<>>, q)
<1>1. Append(r, x) = r \o <<x>> /\ Append(r, x) \in Seq(S)
  BY AppendIsConcat, AppendProperties
<1>2. Append(r, x) \o <<>> = Append(r, x)
  BY <1>1, ConcatEmptySeq
<1> QED
  BY <1>1, <1>2 DEF InOrder

----------------------------------------------------------------------------
(* Registry *)

\* The inductive invariant of every theorem below.
IndInv == TypeOK /\ RegistryConsistent

LEMMA InitIndInv == Init => IndInv
  BY ConstantsAssumption
  DEF Init, IndInv, TypeOK, RegistryConsistent, Registered, Channels, Versions,
      Broadcasters, Channel

\* A registered connection's channel is one of the channels.
LEMMA RegisteredChannel ==
    ASSUME TypeOK, NEW c \in Conns, current[c] # 0
    PROVE  current[c] \in 1..MaxSubs /\ Channel(c) \in Channels
  BY ConstantsAssumption DEF TypeOK, Channel, Channels

\* Every step keeps the invariant; one case per action of Next.
LEMMA NextIndInv == IndInv /\ [Next]_vars => IndInv'
<1> SUFFICES ASSUME IndInv, [Next]_vars PROVE IndInv'
  OBVIOUS
<1> USE ConstantsAssumption DEF IndInv
<1>1. CASE WatcherEvent \/ WatcherRefresh
  BY <1>1
  DEF TypeOK, RegistryConsistent, WatcherEvent, WatcherRefresh, Registered, Channel,
      Channels, Versions, Broadcasters, bvars, hvars, chvars
<1>2. ASSUME NEW b \in Others, Notice(b) PROVE IndInv'
  BY <1>2
  DEF TypeOK, RegistryConsistent, Notice, Registered, Channel, Channels,
      Versions, Broadcasters, bvars, hvars, chvars
<1>3. ASSUME NEW b \in Broadcasters, BroadcastBegin(b) PROVE IndInv'
  <2>1. Registered \in SUBSET Conns
    BY DEF Registered
  <2>2. TypeOK'
    BY <1>3, <2>1 DEF TypeOK, BroadcastBegin, hvars, chvars
  <2>3. UNCHANGED <<current, subs, hpc, closed, writer>> /\ Registered' = Registered
    BY <1>3 DEF BroadcastBegin, Registered, hvars, chvars
  <2>4. \A x \in Broadcasters : bpc'[x] = "send" =>
            \/ bpc[x] = "send" /\ targets'[x] = targets[x]
            \/ targets'[x] = Registered
    BY <1>3 DEF TypeOK, BroadcastBegin
  <2>5. RegistryConsistent'
    BY <2>3, <2>4 DEF RegistryConsistent, Channel
  <2> QED
    BY <2>2, <2>5
<1>4. ASSUME NEW b \in Broadcasters, NEW c \in Conns, BroadcastSend(b, c)
      PROVE  IndInv'
  <2> DEFINE ch == Channel(c)
  <2>1. bpc[b] = "send" /\ c \in targets[b] /\ current[c] # 0
    BY <1>4 DEF BroadcastSend, RegistryConsistent, Registered
  <2>2. ch \in Channels /\ snap[b] \in Versions /\ queue[ch] \in Seq(Versions)
        /\ accepted[ch] \in Seq(Versions) /\ Len(queue[ch]) <= Cap
    BY <2>1, RegisteredChannel DEF TypeOK
  <2>3. /\ Append(queue[ch], snap[b]) \in Seq(Versions)
        /\ Append(accepted[ch], snap[b]) \in Seq(Versions)
        /\ Len(Append(queue[ch], snap[b])) = Len(queue[ch]) + 1
        /\ Len(queue[ch]) \in Nat
    BY <2>2, AppendProperties, LenProperties
  <2>4. TypeOK'
    <3>0. /\ bpc' \in [Broadcasters -> {"idle", "notify", "send"}]
          /\ snap' \in [Broadcasters -> Versions]
          /\ targets' \in [Broadcasters -> SUBSET Conns]
      <4>1. /\ targets' = [targets EXCEPT ![b] = targets[b] \ {c}]
            /\ bpc' = bpc \/ bpc' = [bpc EXCEPT ![b] = "idle"]
            /\ snap' = snap \/ snap' = [snap EXCEPT ![b] = 0]
        BY <1>4 DEF BroadcastSend
      <4>2. targets[b] \ {c} \in SUBSET Conns /\ 0 \in Versions
        BY DEF TypeOK, Versions
      <4> QED
        BY <4>1, <4>2 DEF TypeOK
    <3>1. CASE Len(queue[ch]) < Cap
      <4>1. /\ queue' = [queue EXCEPT ![ch] = Append(queue[ch], snap[b])]
            /\ accepted' = [accepted EXCEPT ![ch] = Append(accepted[ch], snap[b])]
            /\ dropped' = dropped
        BY <3>1, <1>4 DEF BroadcastSend
      <4>2. /\ queue' \in [Channels -> Seq(Versions)]
            /\ accepted' \in [Channels -> Seq(Versions)]
            /\ \A k \in Channels : Len(queue'[k]) <= Cap
        BY <4>1, <2>2, <2>3, <3>1 DEF TypeOK
      <4> QED
        BY <4>1, <4>2, <1>4, <3>0 DEF TypeOK, BroadcastSend, hvars
    <3>2. CASE ~(Len(queue[ch]) < Cap)
      <4>1. /\ queue' = queue /\ accepted' = accepted
            /\ dropped' = [dropped EXCEPT ![ch] = TRUE]
        BY <3>2, <1>4 DEF BroadcastSend
      <4> QED
        BY <4>1, <3>0, <1>4, <2>2 DEF TypeOK, BroadcastSend, hvars
    <3> QED
      BY <3>1, <3>2
  <2>5. RegistryConsistent'
    BY <1>4 DEF TypeOK, RegistryConsistent, BroadcastSend, Registered, Channel, hvars
  <2> QED
    BY <2>4, <2>5
<1>5. ASSUME NEW c \in Conns, Subscribe(c) PROVE IndInv'
  <2> DEFINE new == <<c, subs[c] + 1>>
  <2>1. subs[c] + 1 \in 1..MaxSubs /\ new \in Channels
    BY <1>5 DEF Subscribe, TypeOK, Channels
  <2>2. TypeOK'
    <3>1. /\ closed' \in [Channels -> BOOLEAN]
          /\ writer' \in [Channels -> {"none", "receive", "write", "done"}]
      BY <1>5, <2>1 DEF TypeOK, Subscribe
    <3>2. /\ subs' \in [Conns -> 0..MaxSubs] /\ current' \in [Conns -> 0..MaxSubs]
          /\ hpc' \in [Conns -> {"open", "dump", "send", "gone"}]
      BY <1>5, <2>1 DEF TypeOK, Subscribe
    <3> QED
      BY <1>5, <3>1, <3>2 DEF TypeOK, Subscribe, bvars
  <2>3. closed'[new] = FALSE
    <3>1. closed[new] = FALSE
      BY <2>1 DEF TypeOK, RegistryConsistent
    <3>2. current[c] # 0 => Channel(c) # new
      BY <2>1 DEF TypeOK, RegistryConsistent, Channel
    <3> QED
      BY <3>1, <3>2, <1>5, <2>1 DEF Subscribe, TypeOK
  <2>4. \A d \in Conns : current'[d] # 0 =>
            current'[d] = subs'[d] /\ ~closed'[<<d, current'[d]>>]
    <3> SUFFICES ASSUME NEW d \in Conns, current'[d] # 0
                 PROVE  current'[d] = subs'[d] /\ ~closed'[<<d, current'[d]>>]
      OBVIOUS
    <3>1. CASE d = c
      BY <3>1, <2>3, <1>5 DEF Subscribe, TypeOK
    <3>2. CASE d # c
      BY <3>2, <1>5 DEF Subscribe, TypeOK, RegistryConsistent, Channel
    <3> QED
      BY <3>1, <3>2
  <2>5. \A d \in Conns, n \in 1..MaxSubs :
            closed'[<<d, n>>] \/ writer'[<<d, n>>] # "none" => n <= subs'[d]
    <3> SUFFICES ASSUME NEW d \in Conns, NEW n \in 1..MaxSubs,
                        closed'[<<d, n>>] \/ writer'[<<d, n>>] # "none"
                 PROVE  n <= subs'[d]
      OBVIOUS
    <3>1. subs[d] <= subs'[d] /\ subs[d] \in Nat /\ subs'[d] \in Nat
      BY <1>5 DEF Subscribe, TypeOK
    <3>2. \/ closed[<<d, n>>] \/ writer[<<d, n>>] # "none"
          \/ d = c /\ n = current[c] /\ current[c] # 0
          \/ d = c /\ n = subs[c] + 1 /\ subs'[c] = subs[c] + 1
      BY <1>5 DEF Subscribe, TypeOK, Channel, Channels
    <3>3. n <= subs[d] \/ n <= subs'[d]
      BY <3>2 DEF RegistryConsistent, TypeOK
    <3> QED
      BY <3>1, <3>3
  <2>6. \A d \in Conns : hpc'[d] \in {"dump", "send"} => current'[d] # 0
    BY <1>5 DEF Subscribe, TypeOK, RegistryConsistent
  <2>7. \A b \in Broadcasters : bpc'[b] # "send"
    BY <1>5 DEF Subscribe, ReadLocked, bvars
  <2> QED
    BY <2>2, <2>4, <2>5, <2>6, <2>7 DEF RegistryConsistent, Channel
<1>6. ASSUME NEW c \in Conns, PeerClose(c) PROVE IndInv'
  BY <1>6
  DEF TypeOK, RegistryConsistent, PeerClose, Registered, Channel, Channels,
      Versions, bvars, chvars
<1>7. ASSUME NEW c \in Conns, BuildDump(c) PROVE IndInv'
  BY <1>7
  DEF TypeOK, RegistryConsistent, BuildDump, Registered, Channel, Channels,
      Versions, bvars, chvars
<1>8. ASSUME NEW c \in Conns, SendDump(c) PROVE IndInv'
  <2> DEFINE ch == Channel(c)
  <2>1. current[c] # 0 /\ Len(queue[ch]) < Cap
    BY <1>8 DEF SendDump, RegistryConsistent
  <2>2. ch \in Channels /\ dump[c] \in Versions /\ queue[ch] \in Seq(Versions)
        /\ accepted[ch] \in Seq(Versions)
    BY <2>1, RegisteredChannel DEF TypeOK
  <2>3. /\ Append(queue[ch], dump[c]) \in Seq(Versions)
        /\ Append(accepted[ch], dump[c]) \in Seq(Versions)
        /\ Len(Append(queue[ch], dump[c])) = Len(queue[ch]) + 1
        /\ Len(queue[ch]) \in Nat
    BY <2>2, AppendProperties, LenProperties
  <2>4. /\ queue' = [queue EXCEPT ![ch] = Append(queue[ch], dump[c])]
        /\ accepted' = [accepted EXCEPT ![ch] = Append(accepted[ch], dump[c])]
    BY <1>8 DEF SendDump
  <2>5. /\ queue' \in [Channels -> Seq(Versions)]
        /\ accepted' \in [Channels -> Seq(Versions)]
        /\ \A k \in Channels : Len(queue'[k]) <= Cap
    BY <2>1, <2>2, <2>3, <2>4 DEF TypeOK
  <2>6. TypeOK'
    <3>1. /\ hpc' \in [Conns -> {"open", "dump", "send", "gone"}]
          /\ dump' \in [Conns -> Versions]
      BY <1>8 DEF TypeOK, SendDump, Versions
    <3> QED
      BY <1>8, <2>5, <3>1 DEF TypeOK, SendDump, bvars
  <2>7. RegistryConsistent'
    BY <1>8 DEF TypeOK, RegistryConsistent, SendDump, Registered, Channel, bvars
  <2> QED
    BY <2>6, <2>7
<1>9. ASSUME NEW c \in Conns, HandlerExit(c) PROVE IndInv'
  <2>1. TypeOK'
    <3>1. closed' \in [Channels -> BOOLEAN]
      BY <1>9 DEF TypeOK, HandlerExit
    <3>2. /\ hpc' \in [Conns -> {"open", "dump", "send", "gone"}]
          /\ current' \in [Conns -> 0..MaxSubs]
      BY <1>9 DEF TypeOK, HandlerExit
    <3> QED
      BY <1>9, <3>1, <3>2 DEF TypeOK, HandlerExit, bvars
  <2>2. \A d \in Conns : current'[d] # 0 =>
            d # c /\ current'[d] = subs'[d] /\ ~closed'[<<d, current'[d]>>]
    BY <1>9 DEF TypeOK, RegistryConsistent, HandlerExit, Channel
  <2>3. \A d \in Conns, n \in 1..MaxSubs :
            closed'[<<d, n>>] \/ writer'[<<d, n>>] # "none" => n <= subs'[d]
    <3> SUFFICES ASSUME NEW d \in Conns, NEW n \in 1..MaxSubs,
                        closed'[<<d, n>>] \/ writer'[<<d, n>>] # "none"
                 PROVE  n <= subs'[d]
      OBVIOUS
    <3>1. subs' = subs /\ writer' = writer
      BY <1>9 DEF HandlerExit
    <3>2. closed[<<d, n>>] \/ writer[<<d, n>>] # "none" \/ (d = c /\ n = current[c] /\ current[c] # 0)
      BY <1>9, <3>1 DEF HandlerExit, TypeOK, Channel, Channels
    <3> QED
      BY <3>1, <3>2 DEF RegistryConsistent, TypeOK
  <2>4. \A d \in Conns : hpc'[d] \in {"dump", "send"} => current'[d] # 0
    BY <1>9 DEF HandlerExit, TypeOK, RegistryConsistent
  <2>5. \A b \in Broadcasters : bpc'[b] # "send"
    BY <1>9 DEF HandlerExit, ReadLocked, bvars
  <2> QED
    BY <2>1, <2>2, <2>3, <2>4, <2>5 DEF RegistryConsistent, Channel
<1>10. ASSUME NEW ch \in Channels, WriterReceive(ch) PROVE IndInv'
  <2>1. queue[ch] \in Seq(Versions) /\ queue[ch] # <<>>
    BY <1>10 DEF WriterReceive, TypeOK
  <2>2. /\ Head(queue[ch]) \in Versions /\ Tail(queue[ch]) \in Seq(Versions)
        /\ Len(Tail(queue[ch])) = Len(queue[ch]) - 1 /\ Len(queue[ch]) \in Nat
    BY <2>1, HeadTailProperties, LenProperties
  <2>3. TypeOK'
    <3>1. queue' = [queue EXCEPT ![ch] = Tail(queue[ch])]
      BY <1>10 DEF WriterReceive
    <3>2. queue' \in [Channels -> Seq(Versions)]
          /\ \A k \in Channels : Len(queue'[k]) <= Cap
      BY <3>1, <2>2 DEF TypeOK
    <3> QED
      BY <3>2, <2>2, <1>10 DEF TypeOK, WriterReceive, Versions, bvars, hvars
  <2>4. RegistryConsistent'
    BY <1>10 DEF WriterReceive, RegistryConsistent, Registered, Channel, bvars, hvars
  <2> QED
    BY <2>3, <2>4
<1>11. ASSUME NEW ch \in Channels, WriterWrite(ch) PROVE IndInv'
  <2>1. Append(received[ch], hand[ch]) \in Seq(Versions) /\ 0 \in Versions
    BY AppendProperties DEF TypeOK, Versions
  <2>2. TypeOK'
    <3>1. /\ received' \in [Channels -> Seq(Versions)]
          /\ hand' \in [Channels -> Versions]
          /\ writer' \in [Channels -> {"none", "receive", "write", "done"}]
      BY <1>11, <2>1 DEF TypeOK, WriterWrite
    <3> QED
      BY <1>11, <3>1 DEF TypeOK, WriterWrite, bvars, hvars
  <2>3. RegistryConsistent'
    <3>1. \A k \in Channels : writer'[k] # "none" => writer[k] # "none"
      BY <1>11 DEF WriterWrite, TypeOK
    <3> QED
      BY <1>11, <3>1
      DEF WriterWrite, RegistryConsistent, Registered, Channel, Channels, bvars, hvars
  <2> QED
    BY <2>2, <2>3
<1>12. ASSUME NEW ch \in Channels, WriterExit(ch) PROVE IndInv'
  BY <1>12
  DEF TypeOK, RegistryConsistent, WriterExit, Registered, Channel, Versions,
      bvars, hvars
<1>13. CASE UNCHANGED vars
  BY <1>13
  DEF TypeOK, RegistryConsistent, Registered, Channel, Versions, vars, bvars,
      hvars, chvars
<1> QED
  BY <1>1, <1>2, <1>3, <1>4, <1>5, <1>6, <1>7, <1>8, <1>9, <1>10, <1>11, <1>12,
     <1>13
  DEF Next, Broadcast, Handler, Writer

LEMMA Invariance == Spec => []IndInv
  BY InitIndInv, NextIndInv, PTL DEF Spec

\* Every variable keeps its type; in particular no queue exceeds
\* eventClientQueueSize.
THEOREM TypeCorrect == Spec => []TypeOK
  BY Invariance, PTL DEF IndInv

\* No goroutine is ever about to send on a closed channel.
THEOREM SendsAreSafe == Spec => []NoSendOnClosed
<1>1. IndInv => NoSendOnClosed
  BY DEF IndInv, RegistryConsistent, NoSendOnClosed, Registered
<1> QED
  BY <1>1, Invariance, PTL

----------------------------------------------------------------------------
(* Delivery *)

\* The channels' sequences are well typed, what writeLoop holds included.
LEMMA ChannelTypes ==
    ASSUME TypeOK, NEW ch \in Channels
    PROVE  /\ accepted[ch] \in Seq(Versions) /\ received[ch] \in Seq(Versions)
           /\ queue[ch] \in Seq(Versions) /\ InHand(ch) \in Seq(Versions)
           /\ hand[ch] \in Versions
  BY DEF TypeOK, InHand

\* A step that appends x to a channel's queue and history keeps delivery in
\* order; every other channel is untouched.
LEMMA EnqueueKeepsFifo ==
    ASSUME TypeOK, FifoPerSubscription, NEW ch \in Channels, NEW x \in Versions,
           queue' = [queue EXCEPT ![ch] = Append(queue[ch], x)],
           accepted' = [accepted EXCEPT ![ch] = Append(accepted[ch], x)],
           UNCHANGED <<received, writer, hand>>
    PROVE  FifoPerSubscription'
<1> SUFFICES ASSUME NEW k \in Channels, writer'[k] # "done"
             PROVE  accepted'[k] = received'[k] \o InHand(k)' \o queue'[k]
  BY DEF FifoPerSubscription
<1>1. accepted[k] = received[k] \o InHand(k) \o queue[k] /\ InHand(k)' = InHand(k)
  BY DEF FifoPerSubscription, InHand
<1>2. CASE k = ch
  <2>1. InOrder(accepted[ch], received[ch], InHand(ch), queue[ch])
    BY <1>1, <1>2 DEF InOrder
  <2>2. InOrder(Append(accepted[ch], x), received[ch], InHand(ch), Append(queue[ch], x))
    BY <2>1, ChannelTypes, AppendToQueue
  <2>3. accepted'[ch] = Append(accepted[ch], x) /\ queue'[ch] = Append(queue[ch], x)
    BY DEF TypeOK
  <2> QED
    BY <1>1, <1>2, <2>2, <2>3 DEF InOrder
<1>3. CASE k # ch
  BY <1>1, <1>3 DEF TypeOK
<1> QED
  BY <1>2, <1>3

\* Every step keeps delivery in order; only the steps on a channel matter.
LEMMA NextFifo ==
    IndInv /\ FifoPerSubscription /\ [Next]_vars => FifoPerSubscription'
<1> SUFFICES ASSUME TypeOK, RegistryConsistent, FifoPerSubscription, [Next]_vars
             PROVE  FifoPerSubscription'
  BY DEF IndInv
<1> USE ConstantsAssumption
<1>1. CASE UNCHANGED <<queue, writer, hand, accepted, received>>
  BY <1>1 DEF FifoPerSubscription, InHand
<1>2. ASSUME NEW b \in Broadcasters, NEW c \in Conns, BroadcastSend(b, c)
      PROVE  FifoPerSubscription'
  <2>1. Channel(c) \in Channels /\ snap[b] \in Versions
    BY <1>2, RegisteredChannel
    DEF BroadcastSend, RegistryConsistent, Registered, TypeOK
  <2>2. CASE Len(queue[Channel(c)]) < Cap
    BY <1>2, <2>1, <2>2, EnqueueKeepsFifo DEF BroadcastSend, hvars
  <2>3. CASE ~(Len(queue[Channel(c)]) < Cap)
    BY <1>1, <1>2, <2>3 DEF BroadcastSend, hvars
  <2> QED
    BY <2>2, <2>3
<1>3. ASSUME NEW c \in Conns, SendDump(c) PROVE FifoPerSubscription'
  <2>1. Channel(c) \in Channels /\ dump[c] \in Versions
    BY <1>3, RegisteredChannel DEF SendDump, RegistryConsistent, TypeOK
  <2> QED
    BY <1>3, <2>1, EnqueueKeepsFifo DEF SendDump, bvars
<1>4. ASSUME NEW c \in Conns, Subscribe(c) PROVE FifoPerSubscription'
  <2>1. ASSUME NEW k \in Channels, writer'[k] # "done"
        PROVE  writer[k] # "done" /\ InHand(k)' = InHand(k)
    <3>1. subs[c] + 1 \in 1..MaxSubs
      BY <1>4 DEF Subscribe, TypeOK
    <3>2. writer[<<c, subs[c] + 1>>] = "none"
      BY <3>1 DEF RegistryConsistent, TypeOK
    <3>3. <<c, subs[c] + 1>> \in Channels
      BY <3>1 DEF Channels
    <3> QED
      BY <1>4, <2>1, <3>2, <3>3 DEF Subscribe, TypeOK, InHand
  <2> QED
    BY <1>4, <2>1 DEF Subscribe, FifoPerSubscription
<1>5. ASSUME NEW ch \in Channels, WriterReceive(ch) PROVE FifoPerSubscription'
  <2> SUFFICES ASSUME NEW k \in Channels, writer'[k] # "done"
               PROVE  accepted'[k] = received'[k] \o InHand(k)' \o queue'[k]
    BY DEF FifoPerSubscription
  <2>1. CASE k = ch
    <3>1. /\ received[ch] \in Seq(Versions)
          /\ queue[ch] \in Seq(Versions) /\ queue[ch] # <<>>
          /\ InOrder(accepted[ch], received[ch], <<>>, queue[ch])
      BY <1>5 DEF FifoPerSubscription, WriterReceive, InHand, InOrder, TypeOK
    <3>2. InOrder(accepted[ch], received[ch], <<Head(queue[ch])>>, Tail(queue[ch]))
      BY <3>1, TakeFromQueue
    <3>3. /\ accepted'[ch] = accepted[ch] /\ received'[ch] = received[ch]
          /\ queue'[ch] = Tail(queue[ch]) /\ InHand(ch)' = <<Head(queue[ch])>>
      BY <1>5 DEF WriterReceive, InHand, TypeOK
    <3> QED
      BY <2>1, <3>2, <3>3 DEF InOrder
  <2>2. CASE k # ch
    BY <1>5, <2>2 DEF WriterReceive, FifoPerSubscription, InHand, TypeOK
  <2> QED
    BY <2>1, <2>2
<1>6. ASSUME NEW ch \in Channels, WriterWrite(ch) PROVE FifoPerSubscription'
  <2> SUFFICES ASSUME NEW k \in Channels, writer'[k] # "done"
               PROVE  accepted'[k] = received'[k] \o InHand(k)' \o queue'[k]
    BY DEF FifoPerSubscription
  <2>1. CASE k = ch
    <3>1. /\ received[ch] \in Seq(Versions) /\ queue[ch] \in Seq(Versions)
          /\ hand[ch] \in Versions
          /\ InOrder(accepted[ch], received[ch], <<hand[ch]>>, queue[ch])
      BY <1>6 DEF FifoPerSubscription, WriterWrite, InHand, InOrder, TypeOK
    <3>2. InOrder(accepted[ch], Append(received[ch], hand[ch]), <<>>, queue[ch])
      BY <3>1, WriteHand
    <3>3. /\ accepted'[ch] = accepted[ch] /\ queue'[ch] = queue[ch]
          /\ received'[ch] = Append(received[ch], hand[ch]) /\ InHand(ch)' = <<>>
      BY <1>6, <2>1 DEF WriterWrite, InHand, TypeOK
    <3> QED
      BY <2>1, <3>2, <3>3 DEF InOrder
  <2>2. CASE k # ch
    BY <1>6, <2>2 DEF WriterWrite, FifoPerSubscription, InHand, TypeOK
  <2> QED
    BY <2>1, <2>2
<1>7. ASSUME NEW ch \in Channels, WriterExit(ch) PROVE FifoPerSubscription'
  BY <1>7 DEF WriterExit, FifoPerSubscription, InHand, TypeOK
<1>8. CASE WatcherEvent \/ WatcherRefresh
  BY <1>1, <1>8 DEF WatcherEvent, WatcherRefresh, chvars
<1>9. ASSUME NEW b \in Others, Notice(b) PROVE FifoPerSubscription'
  BY <1>1, <1>9 DEF Notice, chvars
<1>10. ASSUME NEW b \in Broadcasters, BroadcastBegin(b) PROVE FifoPerSubscription'
  BY <1>1, <1>10 DEF BroadcastBegin, chvars
<1>11. ASSUME NEW c \in Conns, PeerClose(c) \/ BuildDump(c) PROVE FifoPerSubscription'
  BY <1>1, <1>11 DEF PeerClose, BuildDump, chvars
<1>12. ASSUME NEW c \in Conns, HandlerExit(c) PROVE FifoPerSubscription'
  BY <1>1, <1>12 DEF HandlerExit
<1>13. CASE UNCHANGED vars
  BY <1>1, <1>13 DEF vars, chvars
<1> QED
  BY <1>2, <1>3, <1>4, <1>5, <1>6, <1>7, <1>8, <1>9, <1>10, <1>11, <1>12, <1>13
  DEF Next, Broadcast, Handler, Writer

\* A subscription's client is sent exactly what its queue accepted, in order.
THEOREM DeliveryInOrder == Spec => []FifoPerSubscription
<1>1. Init => FifoPerSubscription
  BY DEF Init, FifoPerSubscription, InHand
<1> QED
  BY <1>1, NextFifo, Invariance, PTL DEF Spec
=============================================================================
