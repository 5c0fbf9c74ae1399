---------------------------- MODULE PanelProofs ----------------------------
(***************************************************************************)
(* The bus, the heartbeat and the core in the panel, for any nodes,        *)
(* subscribers, buffers and bounds.                                        *)
(***************************************************************************)
EXTENDS Panel, XrayCoreProofs, NodeHealthProofs

\* Queues of events, none longer than it may be.
QueueInv ==
    /\ ch \in Seq(Events) /\ queue \in [Subscribers -> Seq(Events)]
    /\ Len(ch) <= BufferSize /\ \A s \in Subscribers : Len(queue[s]) <= QueueSize

\* A handler has an event exactly while its worker is busy; who is registered has a worker.
WorkerInv ==
    /\ worker \in [Subscribers -> {"none", "idle", "busy", "gone"}]
    /\ handling \in [Subscribers -> Events \union {None}]
    /\ subs \subseteq Subscribers
    /\ \A s \in Subscribers :
         /\ handling[s] # None <=> worker[s] = "busy"
         /\ s \in subs => worker[s] # "none"

\* Events on their way have been sent.
NumberInv ==
    /\ sent \in Nat /\ settled \subseteq 1..sent
    /\ \A e \in Range(ch) : e.no \in 1..sent
    /\ \A s \in Subscribers :
         /\ \A e \in Range(queue[s]) : e.no \in 1..sent
         /\ handling[s] # None => handling[s].no \in 1..sent

StopTypes ==
    /\ stopped \in BOOLEAN /\ done \in BOOLEAN /\ dispatching \in BOOLEAN
    /\ stopping \in {"no", "called", "waits", "returned"} /\ left \in Nat

\* The events in A were published before those in B.
Older(A, B) == \A x \in A, y \in B : x.no < y.no

\* What is handled is older than what is queued, and that than what is in the channel.
OrderInv ==
    /\ Ascending(ch)
    /\ \A s \in Subscribers :
         /\ Ascending(queue[s]) /\ Older(Range(queue[s]), Range(ch))
         /\ handling[s] # None => Older({handling[s]}, Range(queue[s]) \union Range(ch))

\* The watched subscriber is registered and no other object has its id; goroutines are told
\* to end when registration has ended; and until then nothing has gone missing.
WayInv ==
    /\ \A s \in Subscribers :
         s[1] = Watched => IF s = <<Watched, 1>> THEN s \in subs ELSE worker[s] = "none"
    /\ done \/ stopping = "called" => stopped
    /\ NothingGoesMissing

BusInv == QueueInv /\ WorkerInv /\ NumberInv /\ StopTypes /\ OrderInv /\ WayInv

BusStep == BusNext \/ StopCalled

-----------------------------------------------------------------------------
\* An event appended to a sequence adds itself to its elements.
LEMMA Appended ==
    ASSUME NEW S, NEW s \in Seq(S), NEW e \in S
    PROVE  /\ Append(s, e) \in Seq(S) /\ Len(Append(s, e)) = Len(s) + 1
           /\ Range(Append(s, e)) = Range(s) \union {e}
<1>1. /\ Append(s, e) \in Seq(S) /\ Len(Append(s, e)) = Len(s) + 1
      /\ \A i \in 1..Len(s) : Append(s, e)[i] = s[i]
      /\ Append(s, e)[Len(s) + 1] = e
  BY AppendProperties
<1>2. Len(s) \in Nat /\ DOMAIN s = 1..Len(s) /\ DOMAIN Append(s, e) = 1..(Len(s) + 1)
  BY <1>1
<1>3. ASSUME NEW x
      PROVE  x \in Range(Append(s, e)) <=> x \in Range(s) \union {e}
  <2>1. x \in Range(Append(s, e)) <=> \E i \in 1..(Len(s) + 1) : Append(s, e)[i] = x
    BY <1>2, Zenon DEF Range
  <2>2. x \in Range(s) <=> \E i \in 1..Len(s) : s[i] = x
    BY <1>2, Zenon DEF Range
  <2> QED
    BY <1>1, <1>2, <2>1, <2>2
<1> QED
  BY <1>1, <1>3

\* The rest of a sequence in order is in order, and newer than its head.
LEMMA AscendingTail ==
    ASSUME NEW q \in Seq(Events), q # <<>>, Ascending(q)
    PROVE  Ascending(Tail(q)) /\ Older({Head(q)}, Range(Tail(q)))
<1>1. /\ Len(q) \in Nat \ {0} /\ DOMAIN q = 1..Len(q) /\ Head(q) = q[1]
      /\ Len(Tail(q)) = Len(q) - 1 /\ DOMAIN Tail(q) = 1..Len(Tail(q))
      /\ \A i \in 1..Len(Tail(q)) : Tail(q)[i] = q[i + 1]
  BY HeadTailProperties, LenProperties, EmptySeq
<1>2. ASSUME NEW i \in DOMAIN Tail(q), NEW j \in DOMAIN Tail(q), i < j
      PROVE  Tail(q)[i].no < Tail(q)[j].no
  <2>1. /\ i + 1 \in DOMAIN q /\ j + 1 \in DOMAIN q /\ i + 1 < j + 1
        /\ Tail(q)[i] = q[i + 1] /\ Tail(q)[j] = q[j + 1]
    BY <1>1, <1>2
  <2> QED
    BY <2>1 DEF Ascending
<1>3. ASSUME NEW y \in Range(Tail(q))
      PROVE  Head(q).no < y.no
  <2>1. PICK j \in DOMAIN Tail(q) : y = Tail(q)[j]
    BY <1>3 DEF Range
  <2>2. 1 \in DOMAIN q /\ j + 1 \in DOMAIN q /\ 1 < j + 1 /\ y = q[j + 1]
    BY <1>1, <2>1
  <2> QED
    BY <1>1, <2>2 DEF Ascending
<1> QED
  BY <1>2, <1>3 DEF Ascending, Older

\* A sequence in order to which a newer event is appended is in order.
LEMMA AscendingAppend ==
    ASSUME NEW q \in Seq(Events), NEW e \in Events, Ascending(q), Older(Range(q), {e})
    PROVE  Ascending(Append(q, e))
<1>1. /\ Len(q) \in Nat /\ DOMAIN q = 1..Len(q) /\ DOMAIN Append(q, e) = 1..(Len(q) + 1)
      /\ \A i \in 1..Len(q) : Append(q, e)[i] = q[i]
      /\ Append(q, e)[Len(q) + 1] = e
  BY AppendProperties, LenProperties
<1>2. ASSUME NEW i \in DOMAIN Append(q, e), NEW j \in DOMAIN Append(q, e), i < j
      PROVE  Append(q, e)[i].no < Append(q, e)[j].no
  <2>1. i \in DOMAIN q /\ Append(q, e)[i] = q[i]
    BY <1>1, <1>2
  <2>2. CASE j \in DOMAIN q
    BY <1>1, <1>2, <2>1, <2>2 DEF Ascending
  <2>3. CASE j = Len(q) + 1
    <3>1. q[i] \in Range(q)
      BY <2>1 DEF Range
    <3> QED
      BY <1>1, <2>1, <2>3, <3>1 DEF Older
  <2> QED
    BY <1>1, <2>2, <2>3
<1> QED
  BY <1>2 DEF Ascending

\* The queues stay within their capacities.
LEMMA QueueStep ==
    ASSUME BusInv, BusStep
    PROVE  QueueInv'
<1> USE BusAssumption
<1>1. ASSUME UNCHANGED <<ch, queue>>
      PROVE  QueueInv'
  BY <1>1 DEF BusInv, QueueInv
<1>2. ASSUME Dispatch
      PROVE  QueueInv'
  <2>1. ch # <<>> /\ Head(ch) \in Events /\ ch' \in Seq(Events) /\ Len(ch') = Len(ch) - 1
    BY <1>2, HeadTailProperties DEF Dispatch, BusInv, QueueInv
  <2>2. ASSUME NEW s \in Subscribers
        PROVE  queue'[s] \in Seq(Events) /\ Len(queue'[s]) <= QueueSize
    <3>1. queue[s] \in Seq(Events) /\ Len(queue[s]) <= QueueSize /\ Len(queue[s]) \in Nat
      BY LenProperties DEF BusInv, QueueInv
    <3>2. /\ Append(queue[s], Head(ch)) \in Seq(Events)
          /\ Len(Append(queue[s], Head(ch))) = Len(queue[s]) + 1
      BY <2>1, <3>1, Appended
    <3> QED
      BY <1>2, <3>1, <3>2 DEF Dispatch, HasRoom
  <2>3. Len(ch) \in Nat /\ Len(ch) <= BufferSize
    BY LenProperties DEF BusInv, QueueInv
  <2>4. queue' \in [Subscribers -> Seq(Events)]
    BY <1>2, <2>2 DEF Dispatch
  <2> QED
    BY <2>1, <2>2, <2>3, <2>4 DEF QueueInv
<1>3. ASSUME NEW s \in Subscribers, Take(s)
      PROVE  QueueInv'
  <2>1. queue[s] # <<>> /\ queue[s] \in Seq(Events) /\ Len(queue[s]) \in Nat
    BY <1>3, LenProperties DEF Take, BusInv, QueueInv
  <2>2. Tail(queue[s]) \in Seq(Events) /\ Len(Tail(queue[s])) = Len(queue[s]) - 1
    BY <2>1, HeadTailProperties
  <2> QED
    BY <1>3, <2>1, <2>2 DEF Take, BusInv, QueueInv
<1>4. ASSUME NEW s \in Subscribers, WorkerEnds(s)
      PROVE  QueueInv'
  <2>1. <<>> \in Seq(Events) /\ Len(<<>>) = 0
    OBVIOUS
  <2> QED
    BY <1>4, <2>1 DEF WorkerEnds, BusInv, QueueInv
<1> QED
  BY <1>1, <1>2, <1>3, <1>4
  DEF BusStep, BusNext, Goroutine, Registration, DispatchEnds, HandlerReturns, Subscribe,
      Unsubscribe, StopCalled, StopCloses, StopReturns

\* A worker takes an event and gives it back.
LEMMA WorkerStep ==
    ASSUME BusInv, BusStep
    PROVE  WorkerInv'
<1> USE BusAssumption, PanelAssumption
<1>1. ASSUME UNCHANGED <<worker, handling, subs>>
      PROVE  WorkerInv'
  BY <1>1 DEF BusInv, WorkerInv
<1>2. ASSUME NEW s \in Subscribers, Take(s)
      PROVE  WorkerInv'
  <2>1. Head(queue[s]) \in Events
    BY <1>2, HeadTailProperties DEF Take, BusInv, QueueInv
  <2> QED
    BY <1>2, <2>1 DEF Take, BusInv, WorkerInv
<1>3. ASSUME NEW s \in Subscribers, HandlerReturns(s)
      PROVE  WorkerInv'
  BY <1>3 DEF HandlerReturns, BusInv, WorkerInv
<1>4. ASSUME NEW s \in Subscribers, WorkerEnds(s)
      PROVE  WorkerInv'
  BY <1>4 DEF WorkerEnds, BusInv, WorkerInv
<1>5. ASSUME NEW s \in Subscribers, Subscribe(s)
      PROVE  WorkerInv'
  BY <1>5 DEF Subscribe, Fresh, BusInv, WorkerInv
<1>6. ASSUME NEW id \in Ids, Unsubscribe(id)
      PROVE  WorkerInv'
  BY <1>6 DEF Unsubscribe, BusInv, WorkerInv
<1> QED
  BY <1>1, <1>2, <1>3, <1>4, <1>5, <1>6
  DEF BusStep, BusNext, Goroutine, Registration, Dispatch, DispatchEnds, StopCalled,
      StopCloses, StopReturns

\* What is settled, queued or handled was sent.
LEMMA NumberStep ==
    ASSUME BusInv, BusStep
    PROVE  NumberInv'
<1>1. ASSUME UNCHANGED <<ch, queue, handling, sent, settled>>
      PROVE  NumberInv'
  BY <1>1 DEF BusInv, NumberInv
<1>2. ASSUME Dispatch
      PROVE  NumberInv'
  <2>1. /\ ch # <<>> /\ Head(ch) \in Events /\ ch' = Tail(ch)
        /\ Range(ch) = {Head(ch)} \union Range(ch')
    BY <1>2, HeadAndTail DEF Dispatch, BusInv, QueueInv
  <2>2. Head(ch).no \in 1..sent
    BY <2>1 DEF BusInv, NumberInv
  <2>3. ASSUME NEW s \in Subscribers
        PROVE  Range(queue'[s]) \subseteq Range(queue[s]) \union {Head(ch)}
    <3>1. queue[s] \in Seq(Events)
      BY DEF BusInv, QueueInv
    <3> QED
      BY <1>2, <2>1, <3>1, Appended DEF Dispatch
  <2>4. UNCHANGED <<handling, sent>> /\ settled' \subseteq settled \union {Head(ch).no}
    BY <1>2 DEF Dispatch
  <2> QED
    BY <2>1, <2>2, <2>3, <2>4 DEF BusInv, NumberInv
<1>3. ASSUME NEW s \in Subscribers, Take(s)
      PROVE  NumberInv'
  <2>1. Range(queue[s]) = {Head(queue[s])} \union Range(Tail(queue[s]))
    BY <1>3, HeadAndTail DEF Take, BusInv, QueueInv
  <2>2. ASSUME NEW t \in Subscribers
        PROVE  /\ Range(queue'[t]) \subseteq Range(queue[t])
               /\ handling'[t] = handling[t] \/ handling'[t] \in Range(queue[t])
    BY <1>3, <2>1 DEF Take, BusInv, QueueInv, WorkerInv
  <2> QED
    BY <1>3, <2>2 DEF Take, BusInv, NumberInv
<1>4. ASSUME NEW s \in Subscribers, HandlerReturns(s)
      PROVE  NumberInv'
  <2>1. handling[s].no \in 1..sent
    BY <1>4 DEF HandlerReturns, BusInv, WorkerInv, NumberInv
  <2> QED
    BY <1>4, <2>1 DEF HandlerReturns, BusInv, WorkerInv, NumberInv
<1>5. ASSUME NEW s \in Subscribers, WorkerEnds(s)
      PROVE  NumberInv'
  <2>1. Range(<<>>) = {}
    BY DEF Range
  <2> QED
    BY <1>5, <2>1 DEF WorkerEnds, BusInv, QueueInv, NumberInv
<1> QED
  BY <1>1, <1>2, <1>3, <1>4, <1>5
  DEF BusStep, BusNext, Goroutine, Registration, DispatchEnds, Subscribe, Unsubscribe,
      StopCalled, StopCloses, StopReturns

\* Events go from the channel to the end of a queue, and from its head to the handler.
LEMMA OrderStep ==
    ASSUME BusInv, BusStep
    PROVE  OrderInv'
<1>1. ASSUME UNCHANGED <<ch, queue, handling>>
      PROVE  OrderInv'
  BY <1>1 DEF BusInv, OrderInv
<1>2. ASSUME Dispatch
      PROVE  OrderInv'
  <2> DEFINE h == Head(ch)
  <2>1. /\ ch \in Seq(Events) /\ ch # <<>> /\ h \in Events /\ ch' = Tail(ch)
        /\ Range(ch) = {h} \union Range(ch') /\ UNCHANGED handling
    BY <1>2, HeadAndTail DEF Dispatch, BusInv, QueueInv
  <2>2. Ascending(ch') /\ Older({h}, Range(ch'))
    BY <2>1, AscendingTail DEF BusInv, OrderInv
  <2>3. ASSUME NEW s \in Subscribers
        PROVE  queue'[s] = queue[s] \/ queue'[s] = Append(queue[s], h)
    BY <1>2 DEF Dispatch
  <2> HIDE DEF h
  <2>4. ASSUME NEW s \in Subscribers
        PROVE  /\ Ascending(queue'[s]) /\ Older(Range(queue'[s]), Range(ch'))
               /\ handling[s] # None => Older({handling[s]}, Range(queue'[s]) \union Range(ch'))
    <3>1. /\ queue[s] \in Seq(Events) /\ Ascending(queue[s])
          /\ Older(Range(queue[s]), {h} \union Range(ch'))
          /\ handling[s] # None =>
               Older({handling[s]}, Range(queue[s]) \union {h} \union Range(ch'))
      BY <2>1 DEF BusInv, QueueInv, OrderInv, Older
    <3>2. /\ Range(Append(queue[s], h)) = Range(queue[s]) \union {h}
          /\ Ascending(Append(queue[s], h))
      BY <2>1, <3>1, Appended, AscendingAppend DEF Older
    <3> DEFINE Q == Range(queue[s])
               C == Range(ch')
    <3>3. Older(Q, {h} \union C) /\ Older({h}, C)
      BY <2>2, <3>1
    <3>4. handling[s] # None => Older({handling[s]}, Q \union {h} \union C)
      BY <3>1
    <3>5. Range(queue'[s]) = Q \/ Range(queue'[s]) = Q \union {h}
      BY <2>3, <3>2
    <3>6. Ascending(queue'[s])
      BY <2>3, <3>1, <3>2
    <3> HIDE DEF Q, C
    <3>7. Older(Range(queue'[s]), C)
      BY <3>3, <3>5, Zenon DEF Older
    <3>8. handling[s] # None => Older({handling[s]}, Range(queue'[s]) \union C)
      BY <3>4, <3>5, Zenon DEF Older
    <3> QED
      BY <3>6, <3>7, <3>8 DEF C
  <2> QED
    BY <2>1, <2>2, <2>4 DEF OrderInv
<1>3. ASSUME NEW s \in Subscribers, Take(s)
      PROVE  OrderInv'
  <2>1. /\ queue[s] \in Seq(Events) /\ queue[s] # <<>> /\ Ascending(queue[s])
        /\ Older(Range(queue[s]), Range(ch))
    BY <1>3 DEF Take, BusInv, QueueInv, OrderInv
  <2>2. /\ Ascending(Tail(queue[s])) /\ Older({Head(queue[s])}, Range(Tail(queue[s])))
        /\ Range(queue[s]) = {Head(queue[s])} \union Range(Tail(queue[s]))
    BY <2>1, AscendingTail, HeadAndTail
  <2>3. ASSUME NEW t \in Subscribers
        PROVE  /\ Ascending(queue'[t]) /\ Older(Range(queue'[t]), Range(ch))
               /\ handling'[t] # None => Older({handling'[t]}, Range(queue'[t]) \union Range(ch))
    <3>1. CASE t = s
      <4>1. queue'[t] = Tail(queue[s]) /\ handling'[t] = Head(queue[s])
        BY <1>3, <3>1 DEF Take, BusInv, QueueInv, WorkerInv
      <4>2. /\ Older(Range(Tail(queue[s])), Range(ch))
            /\ Older({Head(queue[s])}, Range(Tail(queue[s])) \union Range(ch))
        <5> DEFINE h == Head(queue[s])
                   R == Range(Tail(queue[s]))
        <5>1. Older({h} \union R, Range(ch)) /\ Older({h}, R)
          BY <2>1, <2>2
        <5> HIDE DEF h, R
        <5>2. Older(R, Range(ch)) /\ Older({h}, R \union Range(ch))
          BY <5>1 DEF Older
        <5> QED
          BY <5>2 DEF h, R
      <4> QED
        BY <2>2, <4>1, <4>2
    <3>2. CASE t # s
      <4>1. queue'[t] = queue[t] /\ handling'[t] = handling[t]
        BY <1>3, <3>2 DEF Take, BusInv, QueueInv, WorkerInv
      <4> QED
        BY <4>1 DEF BusInv, OrderInv
    <3> QED
      BY <3>1, <3>2
  <2> QED
    BY <1>3, <2>3 DEF Take, BusInv, OrderInv
<1>4. ASSUME NEW s \in Subscribers, HandlerReturns(s)
      PROVE  OrderInv'
  <2>1. \A t \in Subscribers : handling'[t] # None => handling'[t] = handling[t]
    BY <1>4 DEF HandlerReturns, BusInv, WorkerInv
  <2> QED
    BY <1>4, <2>1 DEF HandlerReturns, BusInv, OrderInv
<1>5. ASSUME NEW s \in Subscribers, WorkerEnds(s)
      PROVE  OrderInv'
  <2>1. Range(<<>>) = {} /\ Ascending(<<>>)
    BY DEF Range, Ascending
  <2>2. \A t \in Subscribers : queue'[t] = queue[t] \/ queue'[t] = <<>>
    BY <1>5 DEF WorkerEnds, BusInv, QueueInv
  <2>3. ASSUME NEW t \in Subscribers
        PROVE  /\ Ascending(queue'[t]) /\ Older(Range(queue'[t]), Range(ch))
               /\ handling[t] # None => Older({handling[t]}, Range(queue'[t]) \union Range(ch))
    BY <2>1, <2>2 DEF BusInv, OrderInv, Older
  <2> QED
    BY <1>5, <2>3 DEF WorkerEnds, BusInv, OrderInv
<1> QED
  BY <1>1, <1>2, <1>3, <1>4, <1>5
  DEF BusStep, BusNext, Goroutine, Registration, DispatchEnds, Subscribe, Unsubscribe,
      StopCalled, StopCloses, StopReturns

\* The event with number k is queued for s, or in its handler.
Carries(s, k) ==
    \/ \E x \in Range(queue[s]) : x.no = k
    \/ handling[s] # None /\ handling[s].no = k

OnWay(k) ==
    \/ \E x \in Range(ch) : x.no = k
    \/ \E s \in Subscribers : s[1] = Watched /\ Carries(s, k)

\* A sequence holds k, if one of its elements has that number.
LEMMA HoldsIs ==
    ASSUME NEW q, NEW k
    PROVE  Holds(q, k) <=> \E x \in Range(q) : x.no = k
BY Zenon DEF Holds, Range

\* So does what is in a handler.
LEMMA HandHolds ==
    ASSUME NEW h, NEW k
    PROVE  Holds(IF h = None THEN <<>> ELSE <<h>>, k) <=> h # None /\ h.no = k
<1>1. CASE h = None
  BY <1>1 DEF Holds
<1>2. CASE h # None
  <2>1. DOMAIN <<h>> = {1} /\ <<h>>[1] = h
    OBVIOUS
  <2> QED
    BY <1>2, <2>1 DEF Holds
<1> QED
  BY <1>1, <1>2

\* Whom the watched subscriber is, and that nobody ends its worker before Stop.
LEMMA WatchedIs ==
    ASSUME BusInv
    PROVE  /\ <<Watched, 1>> \in Subscribers /\ <<Watched, 1>> \in subs
           /\ \A s \in Subscribers : s[1] = Watched =>
                \/ s = <<Watched, 1>> /\ (MayEnd(s) => done)
                \/ worker[s] = "none" /\ s \notin subs
<1> DEFINE w == <<Watched, 1>>
<1>1. w \in Subscribers /\ w[1] = Watched
  BY BusAssumption DEF Subscribers
<1> HIDE DEF w
<1>2. w \in subs
  BY <1>1 DEF BusInv, WayInv, w
<1>3. ASSUME NEW s \in Subscribers, s[1] = Watched
      PROVE  \/ s = w /\ (MayEnd(s) => done)
             \/ worker[s] = "none" /\ s \notin subs
  <2>1. CASE s = w
    BY <1>2, <2>1 DEF MayEnd, Quit
  <2>2. CASE s # w
    BY <1>3, <2>2 DEF BusInv, WayInv, WorkerInv, w
  <2> QED
    BY <2>1, <2>2
<1> QED
  BY <1>1, <1>2, <1>3 DEF w

\* It stays registered, alone under its id, whoever else registers or leaves.
LEMMA WatchedStays ==
    ASSUME BusInv, BusStep
    PROVE  \A s \in Subscribers :
             s[1] = Watched => IF s = <<Watched, 1>> THEN s \in subs' ELSE worker'[s] = "none"
<1> DEFINE w == <<Watched, 1>>
<1>1. w \in subs /\ \A s \in Subscribers : s[1] = Watched => s = w \/ worker[s] = "none"
  BY WatchedIs
<1>2. w[1] = Watched
  OBVIOUS
<1> HIDE DEF w
<1> SUFFICES w \in subs' /\ \A s \in Subscribers : s[1] = Watched /\ s # w => worker'[s] = "none"
  BY DEF w
<1>3. worker \in [Subscribers -> {"none", "idle", "busy", "gone"}]
  BY DEF BusInv, WorkerInv
<1>4. CASE UNCHANGED <<subs, worker>>
  BY <1>1, <1>4
<1>5. ASSUME NEW s \in Subscribers, Take(s) \/ WorkerEnds(s) \/ HandlerReturns(s)
      PROVE  w \in subs' /\ \A t \in Subscribers : t[1] = Watched /\ t # w => worker'[t] = "none"
  <2>1. UNCHANGED subs /\ worker[s] # "none"
    BY <1>5 DEF Take, WorkerEnds, HandlerReturns
  <2>2. \A t \in Subscribers : t # s => worker'[t] = worker[t]
    BY <1>3, <1>5 DEF Take, WorkerEnds, HandlerReturns
  <2> QED
    BY <1>1, <2>1, <2>2
<1>6. ASSUME NEW s \in Subscribers, s[1] # Watched, Subscribe(s)
      PROVE  w \in subs' /\ \A t \in Subscribers : t[1] = Watched /\ t # w => worker'[t] = "none"
  <2>1. w \in subs'
    BY <1>1, <1>2, <1>6 DEF Subscribe
  <2>2. \A t \in Subscribers : t # s => worker'[t] = worker[t]
    BY <1>3, <1>6 DEF Subscribe
  <2> QED
    BY <1>1, <1>6, <2>1, <2>2
<1>7. ASSUME NEW id \in Ids \ {Watched}, Unsubscribe(id)
      PROVE  w \in subs' /\ UNCHANGED worker
  BY <1>1, <1>2, <1>7 DEF Unsubscribe
<1> QED
  BY <1>1, <1>4, <1>5, <1>6, <1>7
  DEF BusStep, BusNext, Goroutine, Registration, Dispatch, DispatchEnds, StopCalled,
      StopCloses, StopReturns

\* An event on its way goes on, or arrives.
LEMMA WayGoesOn ==
    ASSUME BusInv, BusStep, ~ stopped, NEW k, OnWay(k)
    PROVE  k \in settled' \/ OnWay(k)'
<1>1. CASE UNCHANGED <<ch, queue, handling>>
  BY <1>1 DEF OnWay, Carries
<1>2. CASE Dispatch
  <2> DEFINE h == Head(ch)
  <2>1. Range(ch) = {h} \union Range(ch') /\ h \in Events /\ UNCHANGED handling
    BY <1>2, HeadAndTail DEF Dispatch, BusInv, QueueInv
  <2>2. ASSUME NEW s \in Subscribers
        PROVE  queue'[s] = IF s \in subs /\ HasRoom(s) THEN Append(queue[s], h) ELSE queue[s]
    BY <1>2 DEF Dispatch
  <2>3. (\E s \in subs : s[1] = Watched /\ HasRoom(s)) \/ h.no \in settled'
    BY <1>2 DEF Dispatch
  <2> HIDE DEF h
  <2>4. ASSUME NEW s \in Subscribers
        PROVE  Range(Append(queue[s], h)) = Range(queue[s]) \union {h}
    BY <2>1, Appended DEF BusInv, QueueInv
  <2>5. CASE \E s \in Subscribers : s[1] = Watched /\ Carries(s, k)
    BY <2>1, <2>2, <2>4, <2>5 DEF OnWay, Carries
  <2>6. CASE \E x \in Range(ch') : x.no = k
    BY <2>6 DEF OnWay
  <2>7. CASE h.no = k
    <3>1. ASSUME NEW s \in subs, s[1] = Watched, HasRoom(s)
          PROVE  OnWay(k)'
      <4>1. s \in Subscribers
        BY <3>1 DEF BusInv, WorkerInv
      <4>2. h \in Range(queue'[s])
        BY <2>2, <2>4, <3>1, <4>1
      <4> QED
        BY <2>7, <3>1, <4>1, <4>2 DEF OnWay, Carries
    <3> QED
      BY <2>3, <2>7, <3>1
  <2> QED
    BY <2>1, <2>5, <2>6, <2>7 DEF OnWay
<1>3. ASSUME NEW s \in Subscribers, Take(s)
      PROVE  OnWay(k)'
  <2>1. Range(queue[s]) = {Head(queue[s])} \union Range(Tail(queue[s])) /\ UNCHANGED ch
    BY <1>3, HeadAndTail DEF Take, BusInv, QueueInv
  <2>2. /\ queue'[s] = Tail(queue[s]) /\ handling'[s] = Head(queue[s]) /\ handling[s] = None
        /\ \A t \in Subscribers : t # s => queue'[t] = queue[t] /\ handling'[t] = handling[t]
    BY <1>3 DEF Take, BusInv, QueueInv, WorkerInv
  <2>3. handling'[s] # None
    <3>1. Head(queue[s]) \in Events
      BY <1>3, HeadTailProperties DEF Take, BusInv, QueueInv
    <3> QED
      BY <2>2, <3>1, PanelAssumption
  <2>4. ASSUME NEW t \in Subscribers, Carries(t, k)
        PROVE  Carries(t, k)'
    BY <2>1, <2>2, <2>3, <2>4 DEF Carries
  <2> QED
    BY <2>1, <2>4 DEF OnWay
<1>4. ASSUME NEW s \in Subscribers, HandlerReturns(s)
      PROVE  k \in settled' \/ OnWay(k)'
  <2>1. /\ UNCHANGED <<ch, queue>>
        /\ \A t \in Subscribers : t # s => handling'[t] = handling[t]
        /\ s[1] = Watched => handling[s].no \in settled'
    BY <1>4 DEF HandlerReturns, BusInv, WorkerInv
  <2> QED
    BY <2>1 DEF OnWay, Carries
<1>5. ASSUME NEW s \in Subscribers, WorkerEnds(s)
      PROVE  OnWay(k)'
  <2>1. s[1] # Watched
    BY <1>5, WatchedIs DEF WorkerEnds, BusInv, WayInv
  <2>2. UNCHANGED <<ch, handling>> /\ \A t \in Subscribers : t # s => queue'[t] = queue[t]
    BY <1>5 DEF WorkerEnds, BusInv, QueueInv
  <2> QED
    BY <2>1, <2>2 DEF OnWay, Carries
<1> QED
  BY <1>1, <1>2, <1>3, <1>4, <1>5
  DEF BusStep, BusNext, Goroutine, Registration, DispatchEnds, Subscribe, Unsubscribe,
      StopCalled, StopCloses, StopReturns

\* An event that leaves the channel reaches the watched subscriber or is settled; its queue
\* and its worker are left alone by whoever registers, leaves or ends.
LEMMA WayStep ==
    ASSUME BusInv, BusStep
    PROVE  WayInv'
<1>1. (done \/ stopping = "called" => stopped)'
  BY DEF BusInv, WayInv, BusStep, BusNext, Goroutine, Registration, Dispatch, DispatchEnds,
         Take, HandlerReturns, WorkerEnds, Subscribe, Unsubscribe, StopCalled, StopCloses,
         StopReturns
<1>2. /\ UNCHANGED sent /\ (stopped => stopped') /\ settled \subseteq settled'
  BY DEF BusStep, BusNext, Goroutine, Registration, Dispatch, DispatchEnds, Take,
         HandlerReturns, WorkerEnds, Subscribe, Unsubscribe, StopCalled, StopCloses,
         StopReturns
<1>3. ASSUME ~ stopped', NEW k \in 1..sent'
      PROVE  k \in settled' \/ OnItsWay(k)'
  <2>1. k \in settled \/ OnItsWay(k)
    BY <1>2, <1>3 DEF BusInv, WayInv, NothingGoesMissing
  <2>2. OnItsWay(k) <=> OnWay(k)
    BY HoldsIs, HandHolds, Zenon DEF OnItsWay, OnWay, Carries, InHand
  <2>3. OnItsWay(k)' <=> OnWay(k)'
    BY HoldsIs, HandHolds, Zenon DEF OnItsWay, OnWay, Carries, InHand
  <2> QED
    BY <1>2, <1>3, <2>1, <2>2, <2>3, WayGoesOn
<1>4. NothingGoesMissing'
  BY <1>3, Zenon DEF NothingGoesMissing
<1> QED
  BY <1>1, <1>4, WatchedStays DEF WayInv

\* A step of the bus keeps all of it.
LEMMA BusKeeps ==
    ASSUME BusInv, BusStep
    PROVE  BusInv'
<1>1. stopped' \in BOOLEAN /\ done' \in BOOLEAN /\ dispatching' \in BOOLEAN
  <2>1. /\ stopped' = stopped \/ stopped' = TRUE
        /\ done' = done \/ done' = TRUE
        /\ dispatching' = dispatching \/ dispatching' = FALSE
    BY DEF BusStep, BusNext, Goroutine, Registration, Dispatch, DispatchEnds, Take,
           HandlerReturns, WorkerEnds, Subscribe, Unsubscribe, StopCalled, StopCloses,
           StopReturns
  <2>2. stopped \in BOOLEAN /\ done \in BOOLEAN /\ dispatching \in BOOLEAN
    BY DEF BusInv, StopTypes
  <2> QED
    BY <2>1, <2>2, Zenon
<1>2. stopping' \in {"no", "called", "waits", "returned"}
  BY DEF BusInv, StopTypes, BusStep, BusNext, Goroutine, Registration, Dispatch, DispatchEnds,
         Take, HandlerReturns, WorkerEnds, Subscribe, Unsubscribe, StopCalled, StopCloses,
         StopReturns
<1>3. left' \in Nat
  BY DEF BusInv, StopTypes, BusStep, BusNext, Goroutine, Registration, Dispatch, DispatchEnds,
         Take, HandlerReturns, WorkerEnds, Subscribe, Unsubscribe, StopCalled, StopCloses,
         StopReturns, Stimulus
<1> QED
  BY <1>1, <1>2, <1>3, QueueStep, WorkerStep, NumberStep, OrderStep, WayStep DEF BusInv, StopTypes

-----------------------------------------------------------------------------
(* The panel on the bus                                                    *)

\* What a step that is not of the bus may do to it at most: a number of things less may
\* still happen.
Beside == BusIdle /\ left' \in Nat

\* Such a step keeps the invariant of the bus.
LEMMA BesideKeeps ==
    ASSUME BusInv, Beside
    PROVE  BusInv'
<1>1. QueueInv' /\ WorkerInv' /\ NumberInv' /\ StopTypes'
  BY DEF Beside, BusIdle, BusInv, QueueInv, WorkerInv, NumberInv, StopTypes
<1>2. OrderInv'
  BY DEF Beside, BusIdle, BusInv, OrderInv
<1>3. NothingGoesMissing'
  BY DEF Beside, BusIdle, BusInv, WayInv, NothingGoesMissing, OnItsWay, InHand
<1>4. WayInv'
  BY <1>3 DEF Beside, BusIdle, BusInv, WayInv
<1> QED
  BY <1>1, <1>2, <1>4 DEF BusInv

\* An event that is published finds room in the channel, or is settled at once.
LEMMA PublishKeeps ==
    ASSUME BusInv, NEW kind \in {"down", "up", "crash"}, NEW about \in SUBSET Nodes,
           Publish(kind, about), left' \in Nat
    PROVE  BusInv'
<1>1. sent \in Nat /\ sent' = sent + 1
  BY DEF BusInv, NumberInv, Publish
<1>2. PICK e \in Events :
        /\ e.no = sent + 1
        /\ \/ ch' = Append(ch, e) /\ Len(ch) < BufferSize /\ settled' = settled
           \/ ch' = ch /\ settled' = settled \union {sent + 1}
  <2> DEFINE x == [kind |-> kind, about |-> about, no |-> sent + 1]
  <2>1. x \in Events /\ x.no = sent + 1
    BY <1>1 DEF Events
  <2>2. \/ ch' = Append(ch, x) /\ Len(ch) < BufferSize /\ settled' = settled
        \/ ch' = ch /\ settled' = settled \union {sent + 1}
    BY DEF Publish
  <2> HIDE DEF x
  <2> QED
    BY <2>1, <2>2
<1>3. UNCHANGED <<subs, worker, queue, handling, stopped, done, dispatching, stopping>>
  BY DEF Publish
<1>4. /\ Append(ch, e) \in Seq(Events) /\ Len(Append(ch, e)) = Len(ch) + 1
      /\ Range(Append(ch, e)) = Range(ch) \union {e} /\ Len(ch) \in Nat
  BY <1>1, Appended, LenProperties DEF BusInv, QueueInv
<1>5. QueueInv'
  <2>1. ch' \in Seq(Events) /\ Len(ch') <= BufferSize
    BY <1>2, <1>4, BusAssumption DEF BusInv, QueueInv
  <2> QED
    BY <1>3, <2>1 DEF BusInv, QueueInv
<1>6. WorkerInv'
  BY <1>3 DEF BusInv, WorkerInv
<1>7. NumberInv'
  <2>1. 1..sent \subseteq 1..sent' /\ sent + 1 \in 1..sent'
    BY <1>1
  <2>2. settled \subseteq 1..sent /\ \A x \in Range(ch) : x.no \in 1..sent
    BY DEF BusInv, NumberInv
  <2>3. \A x \in Range(ch') : x.no \in 1..sent'
    BY <1>2, <1>4, <2>1, <2>2
  <2>4. settled' \subseteq 1..sent'
    BY <1>2, <2>1, <2>2
  <2>5. ASSUME NEW s \in Subscribers
        PROVE  /\ \A x \in Range(queue'[s]) : x.no \in 1..sent'
               /\ handling'[s] # None => handling'[s].no \in 1..sent'
    BY <1>1, <1>3 DEF BusInv, NumberInv
  <2> QED
    BY <1>1, <2>3, <2>4, <2>5 DEF NumberInv
<1>8. StopTypes'
  BY <1>3 DEF BusInv, StopTypes
<1>9. OrderInv'
  <2>1. \A x \in Range(ch) : x.no < e.no
    BY <1>1, <1>2 DEF BusInv, NumberInv
  <2>2. Ascending(ch')
    BY <1>2, <2>1, AscendingAppend DEF BusInv, QueueInv, OrderInv, Older
  <2>3. Range(ch') \subseteq Range(ch) \union {e}
    BY <1>2, <1>4
  <2>4. ASSUME NEW s \in Subscribers
        PROVE  /\ Older(Range(queue[s]), Range(ch'))
               /\ handling[s] # None => Older({handling[s]}, Range(queue[s]) \union Range(ch'))
    <3> DEFINE Q == Range(queue[s])
               h == handling[s]
    <3>1. Older(Q, Range(ch)) /\ Older(Q, {e})
      BY <1>1, <1>2 DEF BusInv, NumberInv, OrderInv, Older
    <3>2. h # None => Older({h}, Q \union Range(ch)) /\ Older({h}, {e})
      BY <1>1, <1>2 DEF BusInv, NumberInv, OrderInv, Older
    <3> HIDE DEF Q, h
    <3>3. Older(Q, Range(ch')) /\ (h # None => Older({h}, Q \union Range(ch')))
      BY <2>3, <3>1, <3>2 DEF Older
    <3> QED
      BY <3>3 DEF Q, h
  <2> QED
    BY <1>3, <2>2, <2>4 DEF BusInv, OrderInv
<1>10. NothingGoesMissing'
  <2>1. ASSUME ~ stopped', NEW k \in 1..sent'
        PROVE  k \in settled' \/ OnItsWay(k)'
    <3>1. CASE k = sent + 1
      <4>1. CASE ch' = Append(ch, e)
        <5>1. Holds(ch', k)
          BY <1>2, <1>4, <3>1, <4>1, HoldsIs
        <5> QED
          BY <5>1 DEF OnItsWay
      <4> QED
        BY <1>2, <3>1, <4>1
    <3>2. CASE k \in 1..sent
      <4>1. k \in settled \/ OnItsWay(k)
        BY <1>3, <2>1, <3>2 DEF BusInv, WayInv, NothingGoesMissing
      <4>2. Holds(ch, k) => Holds(ch', k)
        BY <1>2, <1>4, HoldsIs
      <4> QED
        BY <1>2, <1>3, <4>1, <4>2 DEF OnItsWay, InHand
    <3> QED
      BY <1>1, <2>1, <3>1, <3>2
  <2> QED
    BY <2>1, Zenon DEF NothingGoesMissing
<1>11. WayInv'
  BY <1>3, <1>10 DEF BusInv, WayInv
<1> QED
  BY <1>5, <1>6, <1>7, <1>8, <1>9, <1>11 DEF BusInv

\* The steps of the heartbeat.
LEMMA HeartbeatOnBus ==
    ASSUME BusInv, HealthInv, Heartbeat \/ \E n \in Nodes : Changes(n)
    PROVE  BusInv'
<1>1. CASE Announce
  <2>1. outbox # <<>> /\ Head(outbox) \in Notices
    BY <1>1, HeadAndTail DEF HealthInv, HealthTypeOK, OutboxInv, Announce
  <2>2. Head(outbox).kind \in {"down", "up", "crash"} /\ Head(outbox).about \in SUBSET Nodes
    BY <2>1 DEF Notices
  <2>3. Publish(Head(outbox).kind, Head(outbox).about) /\ left' \in Nat
    BY <1>1 DEF Announce, BusInv, StopTypes
  <2> QED
    BY <2>2, <2>3, PublishKeeps
<1>2. CASE Load \/ (\E n \in Nodes : Probe(n) \/ Changes(n))
  BY <1>2, BesideKeeps DEF Load, Probe, Changes, Stimulus, Beside, BusInv, StopTypes
<1>3. CASE Judge
  <2>1. BusIdle /\ (UNCHANGED left \/ Stimulus)
    BY <1>3, Zenon DEF Judge
  <2> QED
    BY <2>1, BesideKeeps DEF Stimulus, Beside, BusInv, StopTypes
<1> QED
  BY <1>1, <1>2, <1>3 DEF Heartbeat

\* The steps of the core.
LEMMA CoreOnBus ==
    ASSUME BusInv, CoreStep
    PROVE  BusInv'
<1>1. CASE OnCrash
  <2>1. left' \in Nat
    BY <1>1 DEF OnCrash, BusInv, StopTypes
  <2>2. Publish("crash", {}) \/ BusQuiet
    BY <1>1 DEF OnCrash
  <2>3. CASE Publish("crash", {})
    BY <2>1, <2>3, PublishKeeps
  <2>4. CASE BusQuiet
    BY <2>1, <2>4, BesideKeeps DEF BusQuiet, BusIdle, Beside
  <2> QED
    BY <2>2, <2>3, <2>4
<1>2. ASSUME BusQuiet, UNCHANGED left \/ Stimulus
      PROVE  BusInv'
  BY <1>2, BesideKeeps DEF BusQuiet, BusIdle, Beside, Stimulus, BusInv, StopTypes
<1>3. ASSUME NEW r \in Editors, NEW v \in BOOLEAN, SetInboundEnable(r, v)
      PROVE  BusInv'
  BY <1>2, <1>3 DEF SetInboundEnable
<1>4. ASSUME NEW r \in Editors, Request(r)
      PROVE  BusInv'
  <2>1. BusQuiet
    BY <1>4 DEF Request, CommitSwitch, DelInbound, AddInbound, SetToNeedRestart
  <2>2. UNCHANGED left \/ Stimulus
    BY <1>4 DEF Request, CommitSwitch, DelInbound, Removes, AddInbound, Adds, SetToNeedRestart
  <2> QED
    BY <1>2, <2>1, <2>2
<1>5. CASE \/ ChildEnds \/ ChildWaited \/ BackoffEnds \/ Tick
           \/ \E c \in Operators, what \in {"stop", "force"} : Command(c, what)
           \/ \E c \in Callers : Acquire(c) \/ Holder(c)
  <2>1. BusQuiet
    BY <1>5 DEF Holder, Tick, ChildEnds, ChildWaited, Command, Watchdog, BackoffEnds,
            ApplyPendingRestart, Acquire, ReadConfig, Compare, HotApply, StopChild, WaitForExit,
            StartChild
  <2>2. UNCHANGED left \/ Stimulus
    BY <1>5 DEF Holder, Tick, ChildEnds, ChildWaited, Command, Watchdog, BackoffEnds,
            ApplyPendingRestart, Acquire, ReadConfig, Compare, HotApply, StopChild, WaitForExit,
            StartChild
  <2> QED
    BY <1>2, <2>1, <2>2
<1> QED
  BY <1>1, <1>3, <1>4, <1>5 DEF CoreStep, CoreNext, Operator

\* Nothing is in order.
LEMMA EmptyInOrder ==
    /\ Ascending(<<>>)
    /\ \A A : Older({}, A) /\ Older(A, {})
BY DEF Ascending, Older

\* A restart of the panel begins with an empty bus.
LEMMA RestartOnBus ==
    ASSUME BusInv, Restart
    PROVE  BusInv'
<1> USE BusAssumption, PanelAssumption
<1>1. <<>> \in Seq(Events) /\ Len(<<>>) = 0 /\ Range(<<>>) = {}
  BY DEF Range
<1>2. QueueInv'
  BY <1>1 DEF Restart, QueueInv
<1>3. subs' \subseteq Subscribers
  BY DEF Restart, Subscribers
<1>4. WorkerInv'
  BY <1>3 DEF Restart, WorkerInv
<1>5. NumberInv'
  BY <1>1 DEF Restart, BusInv, NumberInv
<1>6. StopTypes'
  BY DEF Restart, Stimulus, BusInv, StopTypes
<1>7. ch' = <<>> /\ \A s \in Subscribers : queue'[s] = <<>> /\ handling'[s] = None
  BY DEF Restart
<1>8. OrderInv'
  BY <1>1, <1>7, EmptyInOrder DEF OrderInv
<1>9. <<Watched, 1>> \in subs'
  BY DEF Restart
<1>10. \A s \in Subscribers :
        s[1] = Watched => IF s = <<Watched, 1>> THEN s \in subs' ELSE worker'[s] = "none"
  <2>1. ASSUME NEW s \in Subscribers, s[1] = Watched, s # <<Watched, 1>>
        PROVE  worker'[s] = "none"
    <3>1. s \notin Ids \X {1}
      BY <2>1
    <3> QED
      BY <3>1 DEF Restart
  <2> QED
    BY <1>9, <2>1
<1>11. settled' = 1..sent' /\ UNCHANGED <<stopped, done, stopping>>
  BY DEF Restart
<1>12. WayInv'
  BY <1>10, <1>11 DEF BusInv, WayInv, NothingGoesMissing
<1> QED
  BY <1>2, <1>4, <1>5, <1>6, <1>8, <1>12 DEF BusInv

-----------------------------------------------------------------------------
IInv == BusInv /\ HealthInv /\ CoreInv

\* The bus starts empty, with every id registered once.
LEMMA InitInv == Init => IInv
<1> SUFFICES ASSUME Init
             PROVE  IInv
  OBVIOUS
<1> USE BusAssumption, PanelAssumption
<1>1. <<>> \in Seq(Events) /\ Len(<<>>) = 0 /\ Range(<<>>) = {}
  BY DEF Range
<1>2. QueueInv
  BY <1>1 DEF Init, BusInit, QueueInv
<1>3. subs \subseteq Subscribers
  BY DEF Init, BusInit, Subscribers
<1>4. WorkerInv
  BY <1>3 DEF Init, BusInit, WorkerInv
<1>5. NumberInv
  BY <1>1 DEF Init, BusInit, NumberInv
<1>6. stopped \in BOOLEAN /\ done \in BOOLEAN /\ dispatching \in BOOLEAN
  BY Zenon DEF Init, BusInit
<1>7. StopTypes
  BY <1>6 DEF Init, BusInit, StopTypes
<1>8. ch = <<>> /\ \A s \in Subscribers : queue[s] = <<>> /\ handling[s] = None
  BY DEF Init, BusInit
<1>9. OrderInv
  BY <1>1, <1>8, EmptyInOrder DEF OrderInv
<1>10. \A s \in Subscribers :
        s[1] = Watched => IF s = <<Watched, 1>> THEN s \in subs ELSE worker[s] = "none"
  <2>1. ASSUME NEW s \in Subscribers, s[1] = Watched, s # <<Watched, 1>>
        PROVE  worker[s] = "none"
    <3>1. s \notin Ids \X {1}
      BY <2>1
    <3> QED
      BY <3>1 DEF Init, BusInit
  <2>2. <<Watched, 1>> \in subs
    BY DEF Init, BusInit
  <2> QED
    BY <2>1, <2>2
<1>11. sent = 0 /\ ~ done /\ stopping = "no"
  BY DEF Init, BusInit
<1>12. WayInv
  BY <1>10, <1>11 DEF WayInv, NothingGoesMissing
<1> QED
  BY <1>2, <1>4, <1>5, <1>7, <1>9, <1>12, HealthInitInv, CoreInitInv DEF Init, IInv, BusInv

\* Every step of the panel keeps the invariant.
LEMMA NextInv == IInv /\ [Next]_vars => IInv'
<1> SUFFICES ASSUME IInv, [Next]_vars
             PROVE  IInv'
  OBVIOUS
<1>1. CASE OfBus(BusNext \/ ShutDown)
  BY <1>1, BusKeeps, HealthKeeps, CoreKeeps DEF OfBus, ShutDown, BusStep, IInv
<1>2. CASE OfNodes(Running /\ (Heartbeat \/ Restart \/ \E n \in Nodes : Changes(n)))
  <2>1. HealthStep /\ UNCHANGED coreVars
    BY <1>2 DEF OfNodes, Restart, HealthStep
  <2>2. BusInv'
    BY <1>2, HeartbeatOnBus, RestartOnBus DEF OfNodes, IInv
  <2> QED
    BY <2>1, <2>2, HealthKeeps, CoreKeeps DEF IInv
<1>3. CASE OfCore(CoreNext \/ (Running /\ (Tick \/ Operator)))
  BY <1>3, CoreOnBus, HealthKeeps, CoreKeeps DEF OfCore, CoreStep, IInv
<1>4. CASE UNCHANGED vars
  <2>1. Beside /\ UNCHANGED healthVars /\ UNCHANGED coreVars
    BY <1>4 DEF vars, busVars, Beside, BusIdle, IInv, BusInv, StopTypes
  <2> QED
    BY <2>1, BesideKeeps, HealthKeeps, CoreKeeps DEF IInv
<1> QED
  BY <1>1, <1>2, <1>3, <1>4 DEF Next

\* So it holds for ever.
LEMMA Invariance == Spec => []IInv
BY InitInv, NextInv, PTL DEF Spec

-----------------------------------------------------------------------------
\* Channels and queues stay within their capacities, a handler has an event exactly while its
\* worker is busy, and the lock of the core is held exactly while its holder is under way.
THEOREM TypeCorrect == Spec => []TypeOK
<1>1. IInv => TypeOK
  BY DEF IInv, TypeOK, BusInv, QueueInv, WorkerInv, NumberInv, StopTypes, BusTypeOK, HealthInv,
         CoreInv
<1> QED
  BY <1>1, Invariance, PTL

\* RestartXray and StopXray never leave a core behind: none is started while the last one is
\* alive, whoever restarts it, whatever fails, and however its stop ended.
THEOREM OneCoreOnly == Spec => []OneCore
<1>1. IInv => OneCore
  BY DEF IInv, CoreInv, StartInv, OneCore
<1> QED
  BY <1>1, Invariance, PTL

\* A core that the operator has stopped stays down, or is going down, until he starts it
\* again: no restart that the watchdog or a pending flag had begun before brings it back.
THEOREM StoppedByHand == Spec => []StopStands
<1>1. IInv => StopStands
  BY DEF IInv, CoreInv, StopInv, Down, StopStands
<1> QED
  BY <1>1, Invariance, PTL

\* A running core that serves something else than the row says is known to somebody, for any
\* number of requests of SetInboundEnable at once: a call of theirs is on its way, SetToNeedRestart
\* has raised a flag or is about to, ApplyPendingRestart has taken it down and will raise it
\* again if it fails, or the core is being stopped. Two cases excepted: the last call was of a
\* request that another had overtaken in the row (crossed), or RestartXray trusted the process
\* object or an old reading of the row (missed).
THEOREM DivergenceKnown == Spec => []DivergenceIsKnown
<1>1. IInv => DivergenceIsKnown
  BY DEF IInv, CoreInv
<1> QED
  BY <1>1, Invariance, PTL

\* bus.go:139: every subscriber observes the events in the order of their publication: what a
\* handler has is older than all that its queue and the channel still hold, each in order; for
\* any subscribers, handlers and buffer sizes, whatever is dropped for a queue that is full.
THEOREM ObservedInOrder == Spec => []InPublicationOrder
<1>1. ASSUME IInv, NEW s \in Subscribers
      PROVE  /\ Ascending(queue[s]) /\ Before(queue[s], ch)
             /\ Before(InHand(s), queue[s]) /\ Before(InHand(s), ch)
  <2>1. /\ Ascending(queue[s]) /\ Older(Range(queue[s]), Range(ch))
        /\ handling[s] # None => Older({handling[s]}, Range(queue[s]) \union Range(ch))
    BY <1>1 DEF IInv, BusInv, OrderInv
  <2>2. Before(queue[s], ch)
    BY <2>1, Zenon DEF Older, Before, Range
  <2>3. CASE handling[s] = None
    BY <2>1, <2>2, <2>3 DEF InHand, Before
  <2>4. CASE handling[s] # None
    <3>1. DOMAIN InHand(s) = {1} /\ InHand(s)[1] = handling[s]
      BY <2>4 DEF InHand
    <3>2. /\ \A j \in DOMAIN queue[s] : handling[s].no < queue[s][j].no
          /\ \A j \in DOMAIN ch : handling[s].no < ch[j].no
      BY <2>1, <2>4, Zenon DEF Older, Range
    <3> QED
      BY <2>1, <2>2, <3>1, <3>2 DEF Before
  <2> QED
    BY <2>3, <2>4
<1>2. IInv => InPublicationOrder
  BY <1>1 DEF IInv, BusInv, OrderInv, InPublicationOrder
<1> QED
  BY <1>2, Invariance, PTL

\* No event that Publish has taken goes missing on its way to the watched subscriber: until
\* Stop it is in the channel, in the queue or in the handler, or it was handled or dropped for
\* a full buffer, whatever the other subscribers do.
THEOREM NothingMissing == Spec => []NothingGoesMissing
<1>1. IInv => NothingGoesMissing
  BY DEF IInv, BusInv, WayInv
<1> QED
  BY <1>1, Invariance, PTL

\* healthTransitions goes on from what was said last: the row and the memory of the job agree
\* with it between runs, for any nodes, thresholds and bursts, whatever was disabled or
\* restarted, unless a save failed or an event was lost with the process.
THEOREM NoticesRemembered == Spec => []SaidIsRemembered
<1>1. ASSUME IInv, job # "publishing", NEW n \in Nodes
      PROVE  \/ wrong[n]
             \/ /\ notified[n] = (said[n] = "down")
                /\ health[n].seen => health[n].notified = notified[n]
  <2>1. n \notin Unannounced
    BY <1>1 DEF IInv, HealthInv, HealthTypeOK, Unannounced
  <2>2. wrong[n] \/ (notified[n] <=> said[n] = "down")
    BY <1>1, <2>1 DEF IInv, HealthInv, SaidInv
  <2>3. health[n].seen => wrong[n] \/ (health[n].notified <=> notified[n])
    BY <1>1 DEF IInv, HealthInv, KnownInv
  <2>4. notified[n] \in BOOLEAN /\ health[n].notified \in BOOLEAN
    BY <1>1 DEF IInv, HealthInv, HealthTypeOK
  <2> QED
    BY <2>2, <2>3, <2>4
<1>2. IInv => SaidIsRemembered
  BY <1>1 DEF SaidIsRemembered
<1> QED
  BY <1>2, Invariance, PTL

\* healthTransitions and publishNodeTransitions never announce a node twice: only one that is
\* not what it was said to be, unless its row was wrong, and in one event only, for any nodes
\* and bursts, whatever was disabled, enabled again or restarted since.
THEOREM NoticesAreChanges == Spec => OnlyChangesAreTold
<1> DEFINE A == job # "publishing" =>
                 \A i \in DOMAIN outbox' : \A n \in outbox'[i].about :
                   /\ wrong[n] \/ outbox'[i].kind # said[n]
                   /\ \A j \in DOMAIN outbox' \ {i} : n \notin outbox'[j].about
<1>1. ASSUME IInv, [Next]_vars
      PROVE  A \/ UNCHANGED healthVars
  <2>1. HealthStep \/ UNCHANGED healthVars
    BY <1>1 DEF Next, OfBus, OfNodes, OfCore, Restart, HealthStep, vars
  <2>2. CASE HealthStep
    BY <1>1, <2>2, ChangesOnce DEF IInv
  <2> QED
    BY <2>1, <2>2
<1>2. IInv /\ [Next]_vars => [A]_healthVars
  BY <1>1
<1> QED
  BY <1>2, Invariance, PTL DEF Spec, OnlyChangesAreTold
=============================================================================
