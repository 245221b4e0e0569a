-------------------------- MODULE MarketFlowProofs --------------------------
(***************************************************************************)
(* Proofs about the way of a tick for any tokens, vessels, baskets, queue   *)
(* size and bounds: types, that the shared router ends up subscribed to    *)
(* what the vessels want, and that frames keep their order.                *)
(***************************************************************************)
EXTENDS MarketFlow, TLAPS, SequenceTheorems

\* The routes stand for the baskets, and a reconcile is run by the holder of
\* the lock, not before the router has started.
RoutesInv ==
  /\ \A t \in Option, v \in Vessel : v \in routes[t] <=> t \in want[v]
  /\ \A c \in Caller : rpc[c] = "in" <=> lock = c
  /\ lock = NoOne => add = {} /\ drop = {}
  /\ ~up => \A c \in Caller : rpc[c] = "no"
  /\ \A v \in Vessel : vpc[v] \notin {"booting", "reconcile"} => rpc[v] = "no"

\* Somebody still waits to reconcile, or what the holder of the lock is doing
\* (nothing, if nobody holds it) ends in the channels the routes ask for.
TargetInv ==
  up => \/ \E c \in Caller : rpc[c] = "wait"
        \/ (known \cup add) \ drop = desired_channels

\* The router forgets a channel it is still subscribed to only where an
\* unsubscribe failed, and it drops only what it knows of.
KnownInv ==
  /\ srv = known \cup missed /\ known \cap missed = {}
  /\ drop \subseteq known /\ add \cap known = {}

RInv == TypeOK /\ RoutesInv /\ TargetInv /\ KnownInv

\* The bounds of a behaviour are within the largest ones.
LEMMA BoundFacts ==
  ASSUME bound \in Bounds
  PROVE  /\ bound.frames \in Nat /\ bound.frames <= MaxFrames
         /\ bound.shifts \in Nat /\ bound.shifts <= MaxShifts
         /\ bound.stops \in Nat /\ bound.toks \subseteq Token \cup {Unknown}
  BY FlowAssumption DEF Token

LEMMA InitRInv == Init => RInv
  <1> SUFFICES ASSUME Init PROVE RInv
    OBVIOUS
  <1> USE FlowAssumption, CallerAssumption DEF Init
  <1>0. bound \in Bounds /\ bound.stops \in Nat /\ bound.frames \in Nat
    BY BoundFacts
  <1>1. TypeOK
    <2>1. pending \in Seq(Frame) /\ queue \in Seq(Frame) /\ Len(queue) <= QueueSize
      OBVIOUS
    <2>2. cur \in Frame
      BY DEF Frame, NoFrame
    <2>3. mem \in [Token -> 0..MaxFrames] /\ redis \in [Token -> 0..MaxFrames]
          /\ seen \in [Vessel -> [Token -> 0..MaxFrames]]
      OBVIOUS
    <2>4. /\ routes \in [Option -> SUBSET Vessel] /\ want \in [Vessel -> SUBSET Option]
          /\ rpc \in [Caller -> {"no", "wait", "in"}] /\ woken \in [Vessel -> BOOLEAN]
          /\ vpc \in [Vessel -> {"boot", "booting", "idle", "basket", "reconcile"}]
      OBVIOUS
    <2>5. sent \in 0..MaxFrames /\ stops \in 0..bound.stops /\ shifts \in 0..MaxShifts
      BY <1>0
    <2>6. ws \in BOOLEAN /\ dirty \in BOOLEAN /\ up \in BOOLEAN
      BY Zenon
    <2> QED
      BY <1>0, <2>1, <2>2, <2>3, <2>4, <2>5, <2>6 DEF TypeOK
  <1>2. RoutesInv
    <2>1. \A t \in Option : routes[t] = {}
      OBVIOUS
    <2>2. \A v \in Vessel : want[v] = {} /\ rpc[v] = "no"
      BY DEF Caller
    <2>3. \A c \in Caller : rpc[c] = "no" /\ lock # c
      OBVIOUS
    <2> QED
      BY <2>1, <2>2, <2>3 DEF RoutesInv
  <1>3. TargetInv /\ KnownInv
    BY DEF TargetInv, KnownInv
  <1> QED
    BY <1>1, <1>2, <1>3 DEF RInv

\* Types are kept by the pipeline's steps.
LEMMA PipeTypes ==
  ASSUME TypeOK, Socket \/ Put \/ Processor \/ flush_chains \/ Stop \/ Restart
  PROVE  TypeOK'
  <1> USE FlowAssumption DEF TypeOK, Live, route, vessel
  <1>0. NoFrame \in Frame
    BY DEF NoFrame, Frame
  <1>b. /\ bound.frames \in Nat /\ bound.frames <= MaxFrames
        /\ bound.stops \in Nat /\ bound.toks \subseteq Token \cup {Unknown}
    BY BoundFacts
  <1>1. CASE OnOpen
    BY <1>1 DEF OnOpen
  <1>2. CASE OnClose
    <2>1. stops' \in 0..bound'.stops
      BY <1>2, <1>b DEF OnClose
    <2>2. ws' \in BOOLEAN
      BY <1>2 DEF OnClose
    <2> QED
      BY <1>2, <2>1, <2>2 DEF OnClose
  <1>3. CASE OpenTimeout
    BY <1>3 DEF OpenTimeout
  <1>4. CASE Subscribed
    BY <1>4 DEF Subscribed, bootstrap_subscriptions
  <1>5. CASE OnMessage
    <2>1. sent' \in 0..MaxFrames
      BY <1>5, <1>b DEF OnMessage
    <2>2. PICK t \in bound.toks : pending' = Append(pending, <<sent', t>>)
      BY <1>5 DEF OnMessage
    <2>3. <<sent', t>> \in Frame
      BY <2>1, <1>b DEF Frame
    <2>4. pending' \in Seq(Frame)
      BY <2>2, <2>3
    <2> QED
      BY <1>5, <2>1, <2>4 DEF OnMessage
  <1>6. CASE Put
    <2>1. pending' \in Seq(Frame) /\ Head(pending) \in Frame
      BY <1>6 DEF Put
    <2>2. queue' \in Seq(Frame) /\ Len(queue') <= QueueSize
      BY <1>6, <2>1 DEF Put
    <2> QED
      BY <1>6, <2>1, <2>2 DEF Put
  <1>7. CASE Take
    <2>1. Head(queue) \in Frame /\ Tail(queue) \in Seq(Frame) /\ Len(Tail(queue)) <= QueueSize
      BY <1>7 DEF Take
    <2> QED
      BY <1>7, <2>1 DEF Take
  <1>8. CASE Discard
    BY <1>8, <1>0 DEF Discard
  <1>9. CASE Apply
    <2>1. PICK tick \in parse_tick(cur) :
            /\ mem' = [mem EXCEPT ![tick.token] = tick.data]
            /\ redis' = IF tick.token = Spot THEN [redis EXCEPT ![Spot] = tick.data] ELSE redis
      BY <1>9 DEF Apply
    <2>2. tick.token \in Token /\ tick.data \in 0..MaxFrames
      BY <2>1 DEF parse_tick, Frame
    <2>3. mem' \in [Token -> 0..MaxFrames] /\ redis' \in [Token -> 0..MaxFrames]
      BY <2>1, <2>2
    <2> QED
      BY <1>9, <2>3 DEF Apply
  <1>10. CASE Notify
    BY <1>10, <1>0 DEF Notify
  <1>11. CASE NotifyFails
    BY <1>11, <1>0 DEF NotifyFails
  <1>12. CASE flush_chains
    BY <1>12 DEF flush_chains
  <1>13. CASE Stop
    <2>1. redis' \in [Token -> 0..MaxFrames]
      BY <1>13 DEF Stop, FinalFlush
    <2>2. ws' \in BOOLEAN /\ dirty' \in BOOLEAN
      BY <1>13 DEF Stop, FinalFlush, ws_io_loop
    <2>3. pending' \in Seq(Frame) /\ queue' \in Seq(Frame) /\ Len(queue') <= QueueSize
      BY <1>13 DEF Stop
    <2> QED
      BY <1>13, <2>1, <2>2, <2>3 DEF Stop
  <1>14. CASE Restart
    <2>1. pending' \in Seq(Frame) /\ queue' \in Seq(Frame) /\ Len(queue') <= QueueSize
      BY <1>14 DEF Restart
    <2>2. ws' \in BOOLEAN /\ dirty' \in BOOLEAN
      BY <1>14 DEF Restart
    <2>3. stops' \in 0..bound'.stops
      BY <1>14, <1>b DEF Restart
    <2> QED
      BY <1>14, <1>0, <2>1, <2>2, <2>3 DEF Restart
  <1> QED
    BY <1>1, <1>2, <1>3, <1>4, <1>5, <1>6, <1>7, <1>8, <1>9, <1>10, <1>11, <1>12, <1>13,
       <1>14 DEF Socket, Processor

\* Types are kept by the router's and the vessels' steps.
LEMMA RouteTypes ==
  ASSUME TypeOK,
         \/ RouterStart \/ RouterRecheck \/ Locked \/ Deliver
         \/ \E v \in Vessel : Begin(v) \/ Wake(v) \/ Shift(v) \/ Read(v)
  PROVE  TypeOK'
  <1> USE FlowAssumption DEF TypeOK, pipe, route, vessel
  <1>0. Router \in Caller /\ Vessel \subseteq Caller
    BY DEF Caller
  <1>1. CASE RouterStart
    BY <1>0, <1>1 DEF RouterStart
  <1>2. CASE RouterRecheck
    BY <1>0, <1>2 DEF RouterRecheck, Call
  <1>3. ASSUME NEW c \in Caller, Acquire(c) PROVE TypeOK'
    BY <1>3 DEF Acquire, desired_channels
  <1>4. ASSUME NEW c \in Caller, Subscribe(c) PROVE TypeOK'
    BY <1>4 DEF Subscribe
  <1>5. ASSUME NEW c \in Caller, Dropping(c) PROVE TypeOK'
    <2>1. /\ srv' \subseteq Option /\ known' \subseteq Option /\ drop' \subseteq Option
          /\ missed' \subseteq Option
      BY <1>5 DEF Dropping, Unsubscribe, UnsubscribeFails
    <2>2. UNCHANGED <<pipe, msgs, up, routes, rpc, lock, add, vessel>>
      BY <1>5 DEF Dropping, Unsubscribe, UnsubscribeFails
    <2> QED
      BY <2>1, <2>2
  <1>6. ASSUME NEW c \in Caller, Release(c) PROVE TypeOK'
    BY <1>6 DEF Release
  <1>7. CASE Deliver
    <2>1. msgs' \subseteq Option /\ woken' \in [Vessel -> BOOLEAN]
      BY <1>7 DEF Deliver
    <2> QED
      BY <1>7, <2>1 DEF Deliver
  <1>8. ASSUME NEW v \in Vessel, Begin(v) PROVE TypeOK'
    BY <1>8 DEF Begin
  <1>9. ASSUME NEW v \in Vessel, Wake(v) PROVE TypeOK'
    <2>1. woken' \in [Vessel -> BOOLEAN]
      BY <1>9 DEF Wake
    <2> QED
      BY <1>9, <2>1 DEF Wake
  <1>10. ASSUME NEW v \in Vessel, Shift(v) PROVE TypeOK'
    <2>1. PICK b \in Basket \ {want[v]} :
            /\ want' = [want EXCEPT ![v] = b]
            /\ routes' = [t \in Option |-> IF t \in b THEN routes[t] \cup {v} ELSE routes[t] \ {v}]
      BY <1>10 DEF Shift
    <2>2. want' \in [Vessel -> SUBSET Option] /\ routes' \in [Option -> SUBSET Vessel]
      BY <2>1
    <2>3. rpc' \in [Caller -> {"no", "wait", "in"}]
      BY <1>0, <1>10 DEF Shift, Call
    <2>4. shifts' \in 0..MaxShifts
      BY <1>10, BoundFacts DEF Shift
    <2>5. vpc' \in [Vessel -> {"boot", "booting", "idle", "basket", "reconcile"}]
      BY <1>10 DEF Shift
    <2> QED
      BY <1>10, <2>2, <2>3, <2>4, <2>5 DEF Shift
  <1>11. ASSUME NEW v \in Vessel, Read(v) PROVE TypeOK'
    BY <1>11 DEF Read
  <1> QED
    BY <1>1, <1>2, <1>3, <1>4, <1>5, <1>6, <1>7, <1>8, <1>9, <1>10, <1>11 DEF Locked

\* The pipeline's steps leave the router and the vessels alone.
LEMMA PipeLeavesRoute ==
  ASSUME Socket \/ Put \/ Processor \/ flush_chains \/ Stop \/ Restart
  PROVE  UNCHANGED <<route, vessel>>
  BY DEF Socket, OnOpen, OnClose, OpenTimeout, Subscribed, OnMessage, Put, Processor, Take,
         Discard, Apply, Notify, NotifyFails, flush_chains, Stop, Restart

\* What a basket shift does to the routes: they stand for the new baskets.
LEMMA ShiftRoutes ==
  ASSUME TypeOK, RoutesInv, NEW v \in Vessel, Shift(v)
  PROVE  \A t \in Option, u \in Vessel : u \in routes'[t] <=> t \in want'[u]
  <1>1. PICK b \in Basket \ {want[v]} :
          /\ want' = [want EXCEPT ![v] = b]
          /\ routes' = [t \in Option |-> IF t \in b THEN routes[t] \cup {v} ELSE routes[t] \ {v}]
    BY DEF Shift
  <1> QED
    BY <1>1 DEF TypeOK, RoutesInv

\* The router's and the vessels' steps keep the routes and the lock in order.
LEMMA NextRoutes ==
  ASSUME TypeOK, RoutesInv, [Next]_vars
  PROVE  RoutesInv'
  <1> USE CallerAssumption DEF TypeOK, RoutesInv
  <1>0. Router \in Caller /\ Vessel \subseteq Caller /\ Router \notin Vessel /\ NoOne \notin Caller
    BY DEF Caller
  <1>1. CASE UNCHANGED <<route, vessel>>
    BY <1>1 DEF route, vessel
  <1>2. CASE RouterStart
    BY <1>0, <1>2 DEF RouterStart, vessel
  <1>3. CASE RouterRecheck
    BY <1>0, <1>3 DEF RouterRecheck, Call, vessel
  <1>4. ASSUME NEW c \in Caller, Acquire(c) PROVE RoutesInv'
    BY <1>0, <1>4 DEF Acquire, vessel
  <1>5. ASSUME NEW c \in Caller, Subscribe(c) PROVE RoutesInv'
    BY <1>0, <1>5 DEF Subscribe, vessel
  <1>6. ASSUME NEW c \in Caller, Dropping(c) PROVE RoutesInv'
    BY <1>0, <1>6 DEF Dropping, Unsubscribe, UnsubscribeFails, vessel
  <1>7. ASSUME NEW c \in Caller, Release(c) PROVE RoutesInv'
    BY <1>0, <1>7 DEF Release, vessel
  <1>8. CASE Deliver
    BY <1>8 DEF Deliver, route
  <1>9. ASSUME NEW v \in Vessel, Begin(v) PROVE RoutesInv'
    BY <1>9 DEF Begin, route
  <1>10. ASSUME NEW v \in Vessel, Wake(v) PROVE RoutesInv'
    BY <1>10 DEF Wake, route
  <1>11. ASSUME NEW v \in Vessel, Shift(v) PROVE RoutesInv'
    <2>1. \A t \in Option, u \in Vessel : u \in routes'[t] <=> t \in want'[u]
      BY <1>11, ShiftRoutes
    <2>2. rpc[v] = "no"
      BY <1>11 DEF Shift
    <2> QED
      BY <1>0, <1>11, <2>1, <2>2 DEF Shift, Call
  <1>12. ASSUME NEW v \in Vessel, Read(v) PROVE RoutesInv'
    BY <1>12 DEF Read, route
  <1> QED
    BY <1>1, <1>2, <1>3, <1>4, <1>5, <1>6, <1>7, <1>8, <1>9, <1>10, <1>11, <1>12,
       PipeLeavesRoute DEF Next, Locked, vars

\* A reconcile works towards the channels of the routes, and whoever changes
\* the routes after the differences were taken waits for the lock.
LEMMA NextTarget ==
  ASSUME TypeOK, RoutesInv, TargetInv, [Next]_vars
  PROVE  TargetInv'
  <1> USE CallerAssumption DEF TypeOK, TargetInv, desired_channels
  <1>0. Router \in Caller /\ Vessel \subseteq Caller
    BY DEF Caller
  <1>1. CASE UNCHANGED <<route, vessel>>
    BY <1>1 DEF route, vessel
  <1>2. CASE RouterStart
    BY <1>0, <1>2 DEF RouterStart
  <1>3. CASE RouterRecheck
    BY <1>0, <1>3 DEF RouterRecheck, Call
  <1>4. ASSUME NEW c \in Caller, Acquire(c) PROVE TargetInv'
    <2>1. (known' \cup add') \ drop' = desired_channels'
      BY <1>4 DEF Acquire, vessel
    <2> QED
      BY <2>1
  <1>5. ASSUME NEW c \in Caller, Subscribe(c) PROVE TargetInv'
    <2>1. (known' \cup add') = known \cup add /\ UNCHANGED <<up, routes, rpc, drop>>
      BY <1>5 DEF Subscribe
    <2> QED
      BY <2>1
  <1>6. ASSUME NEW c \in Caller, Dropping(c) PROVE TargetInv'
    <2>1. (known' \cup add') \ drop' = (known \cup add) \ drop /\ UNCHANGED <<up, routes, rpc>>
      BY <1>6 DEF Dropping, Unsubscribe, UnsubscribeFails
    <2> QED
      BY <2>1
  <1>7. ASSUME NEW c \in Caller, Release(c) PROVE TargetInv'
    <2>1. \A d \in Caller : rpc[d] = "wait" => rpc'[d] = "wait"
      BY <1>7 DEF Release
    <2> QED
      BY <1>7, <2>1 DEF Release
  <1>8. CASE Deliver
    BY <1>8 DEF Deliver, route
  <1>9. ASSUME NEW v \in Vessel, Begin(v) \/ Wake(v) \/ Read(v) PROVE TargetInv'
    <2>1. UNCHANGED <<up, routes, known, rpc, add, drop>>
      BY <1>9 DEF Begin, Wake, Read, route
    <2> QED
      BY <2>1
  <1>10. ASSUME NEW v \in Vessel, Shift(v) PROVE TargetInv'
    <2>1. up' => rpc'[v] = "wait"
      BY <1>0, <1>10 DEF Shift, Call
    <2> QED
      BY <1>0, <2>1
  <1> QED
    BY <1>1, <1>2, <1>3, <1>4, <1>5, <1>6, <1>7, <1>8, <1>9, <1>10,
       PipeLeavesRoute DEF Next, Locked, vars

\* What the router forgets without dropping it is what failed to be dropped.
LEMMA NextKnown ==
  ASSUME RoutesInv, KnownInv, [Next]_vars
  PROVE  KnownInv'
  <1> USE DEF KnownInv
  <1>1. CASE UNCHANGED <<route, vessel>>
    BY <1>1 DEF route
  <1>2. ASSUME NEW c \in Caller, Subscribe(c) PROVE KnownInv'
    BY <1>2 DEF Subscribe
  <1>3. ASSUME NEW c \in Caller, Unsubscribe(c) PROVE KnownInv'
    BY <1>3 DEF Unsubscribe
  <1>4. ASSUME NEW c \in Caller, UnsubscribeFails(c) PROVE KnownInv'
    BY <1>4 DEF UnsubscribeFails
  <1>5. ASSUME NEW c \in Caller, Acquire(c) PROVE KnownInv'
    BY <1>5 DEF Acquire
  <1>6. CASE UNCHANGED <<srv, known, missed, add, drop>>
    BY <1>6
  <1>7. \/ UNCHANGED <<route, vessel>> \/ UNCHANGED <<srv, known, missed, add, drop>>
        \/ \E c \in Caller :
             Acquire(c) \/ Subscribe(c) \/ Unsubscribe(c) \/ UnsubscribeFails(c)
    BY PipeLeavesRoute
    DEF Next, vars, Locked, Dropping, RouterStart, RouterRecheck, Release, Deliver,
        Begin, Wake, Shift, Read, route
  <1> QED
    BY <1>1, <1>2, <1>3, <1>4, <1>5, <1>6, <1>7

LEMMA NextRInv == RInv /\ [Next]_vars => RInv'
  <1> SUFFICES ASSUME RInv, [Next]_vars PROVE RInv'
    OBVIOUS
  <1>1. TypeOK'
    <2>1. CASE UNCHANGED vars
      BY <2>1 DEF RInv, TypeOK, vars, pipe, route, vessel
    <2> QED
      BY <2>1, PipeTypes, RouteTypes DEF RInv, Next
  <1> QED
    BY <1>1, NextRoutes, NextTarget, NextKnown DEF RInv

\* Type correctness (the module's state, with the bound of tick_queue).
THEOREM TypeCorrect == Spec => []TypeOK
  <1>1. RInv => TypeOK
    BY DEF RInv
  <1> QED
    BY <1>1, InitRInv, NextRInv, PTL DEF Spec

\* TickRouter: whenever nobody is reconciling, the subscribed channels are those
\* of the vessels' baskets and those whose unsubscribe failed and was swallowed,
\* for any number of vessels and any shifts.
THEOREM RouterAlwaysConverged == Spec => []RouterConverged
  <1>1. RInv => RouterConverged
    <2> SUFFICES ASSUME RInv, up, \A c \in Caller : rpc[c] = "no"
                 PROVE  srv = missed \cup UNION {want[v] : v \in Vessel}
      BY DEF RouterConverged
    <2>1. lock = NoOne /\ add = {} /\ drop = {}
      BY DEF RInv, TypeOK, RoutesInv
    <2>2. known = desired_channels /\ srv = known \cup missed
      BY <2>1 DEF RInv, TargetInv, KnownInv
    <2>3. desired_channels = UNION {want[v] : v \in Vessel}
      BY DEF desired_channels, RInv, TypeOK, RoutesInv
    <2> QED
      BY <2>2, <2>3
  <1> QED
    BY <1>1, InitRInv, NextRInv, PTL DEF Spec
-----------------------------------------------------------------------------
(* The order of the frames.                                                *)

Increasing(s) == \A i, j \in 1..Len(s) : i < j => s[i][1] < s[j][1]
Newer(s, n) == \A i \in 1..Len(s) : n < s[i][1]
Busy == ppc \in {"apply", "notify"}

\* What is queued is in the order of arrival.
QueueInv ==
  /\ Increasing(queue) /\ Increasing(pending)
  /\ \A i \in 1..Len(queue) : Newer(pending, queue[i][1])
  /\ \A i \in 1..Len(queue) : queue[i][1] \in 1..sent
  /\ \A i \in 1..Len(pending) : pending[i][1] \in 1..sent

\* It is newer than what the processor has in hand,
HandInv ==
  /\ Busy <=> cur # NoFrame
  /\ Busy => /\ cur[1] \in 1..sent
             /\ Newer(queue, cur[1]) /\ Newer(pending, cur[1])
             /\ \A t \in Token : mem[t] < cur[1] \/ (ppc = "notify" /\ t = cur[2] /\ mem[t] = cur[1])

\* which is newer than the chain in memory, which is not older than the chain in
\* Redis.
LeafInv ==
  \A t \in Token : /\ redis[t] <= mem[t] /\ mem[t] <= sent
                   /\ Newer(queue, mem[t]) /\ Newer(pending, mem[t])

OrderInv == QueueInv /\ HandInv /\ LeafInv

\* Only the pipeline's steps touch what the order is about.
LEMMA RouteLeavesPipe ==
  ASSUME \/ RouterStart \/ RouterRecheck \/ Locked \/ Deliver
         \/ \E v \in Vessel : Begin(v) \/ Wake(v) \/ Shift(v) \/ Read(v)
  PROVE  UNCHANGED pipe
  BY DEF RouterStart, RouterRecheck, Locked, Acquire, Subscribe, Dropping, Unsubscribe,
     UnsubscribeFails, Release, Deliver,
         Begin, Wake, Shift, Read

LEMMA InitOrder == TypeOK /\ Init => OrderInv
  BY DEF Init, TypeOK, OrderInv, QueueInv, HandInv, LeafInv, Busy, Increasing, Newer

\* What Head and Tail leave of a sequence that is not empty.
LEMMA HeadTail ==
  ASSUME NEW S, NEW s \in Seq(S), s # <<>>
  PROVE  /\ Len(s) \in Nat \ {0} /\ Head(s) = s[1]
         /\ Tail(s) \in Seq(S) /\ Len(Tail(s)) = Len(s) - 1
         /\ \A i \in 1..Len(Tail(s)) : Tail(s)[i] = s[i + 1] /\ i + 1 \in 1..Len(s)
  OBVIOUS

\* Every step of the pipeline keeps the order.
LEMMA NextOrder ==
  ASSUME TypeOK, OrderInv, [Next]_vars
  PROVE  OrderInv'
  <1>0. /\ sent \in Nat /\ pending \in Seq(Frame) /\ queue \in Seq(Frame) /\ cur \in Frame
        /\ mem \in [Token -> Nat] /\ redis \in [Token -> Nat] /\ NoFrame[1] = 0
        /\ \A f \in Frame : f[1] \in Nat
    <2>1. MaxFrames \in Nat
      BY FlowAssumption
    <2>2. 0..MaxFrames \subseteq Nat
      BY <2>1
    <2>3. mem \in [Token -> Nat] /\ redis \in [Token -> Nat] /\ sent \in Nat
      BY <2>2 DEF TypeOK
    <2>4. NoFrame[1] = 0 /\ \A f \in Frame : f[1] \in Nat
      BY <2>2 DEF Frame, NoFrame
    <2> QED
      BY <2>3, <2>4 DEF TypeOK
  <1>a. /\ \A i \in 1..Len(queue) : queue[i] \in Frame /\ queue[i][1] \in Nat
        /\ \A i \in 1..Len(pending) : pending[i] \in Frame /\ pending[i][1] \in Nat
        /\ Len(queue) \in Nat /\ Len(pending) \in Nat /\ cur[1] \in Nat
        /\ \A t \in Token : mem[t] \in Nat /\ redis[t] \in Nat
    BY <1>0
  <1>1. CASE UNCHANGED <<ppc, sent, pending, queue, cur, mem, redis>>
    BY <1>1 DEF OrderInv, QueueInv, HandInv, LeafInv, Busy, Increasing, Newer
  <1>2. CASE OnMessage
    <2>1. PICK t : pending' = Append(pending, <<sent + 1, t>>) /\ sent' = sent + 1
      BY <1>2 DEF OnMessage
    <2>2. /\ Len(pending') = Len(pending) + 1
          /\ \A i \in 1..Len(pending) : pending'[i] = pending[i]
          /\ pending'[Len(pending) + 1][1] = sent + 1
      BY <1>0, <2>1
    <2>3. UNCHANGED <<ppc, queue, cur, mem, redis>>
      BY <1>2 DEF OnMessage
    <2>4. QueueInv'
      <3>0. \A i \in 1..Len(pending') :
              \/ i \in 1..Len(pending) /\ pending'[i][1] = pending[i][1] /\ pending[i][1] <= sent
              \/ i = Len(pending) + 1 /\ pending'[i][1] = sent + 1
        BY <1>0, <1>a, <2>2 DEF OrderInv, QueueInv
      <3>1. Increasing(pending')
        <4> SUFFICES ASSUME NEW i \in 1..Len(pending'), NEW j \in 1..Len(pending'), i < j
                     PROVE  pending'[i][1] < pending'[j][1]
          BY DEF Increasing
        <4>1. i \in 1..Len(pending) /\ pending'[i][1] = pending[i][1] /\ pending[i][1] <= sent
          BY <1>a, <2>2, <3>0
        <4>2. CASE j = Len(pending) + 1
          BY <1>0, <1>a, <3>0, <4>1, <4>2
        <4>3. CASE j \in 1..Len(pending)
          <5>1. pending'[j][1] = pending[j][1] /\ pending[i][1] < pending[j][1]
            BY <2>2, <4>1, <4>3 DEF OrderInv, QueueInv, Increasing
          <5> QED
            BY <4>1, <5>1
        <4>4. j \in 1..Len(pending) \/ j = Len(pending) + 1
          BY <3>0
        <4> QED
          BY <4>2, <4>3, <4>4
      <3>2. \A i \in 1..Len(queue) : Newer(pending', queue[i][1])
        <4> SUFFICES ASSUME NEW i \in 1..Len(queue), NEW j \in 1..Len(pending')
                     PROVE  queue[i][1] < pending'[j][1]
          BY DEF Newer
        <4>1. queue[i][1] \in Nat /\ queue[i][1] <= sent
          BY <1>a DEF OrderInv, QueueInv
        <4>2. CASE j = Len(pending) + 1
          BY <1>0, <2>2, <4>1, <4>2
        <4>3. CASE j \in 1..Len(pending)
          <5>1. pending'[j][1] = pending[j][1] /\ queue[i][1] < pending[j][1]
            BY <2>2, <4>3 DEF OrderInv, QueueInv, Newer
          <5> QED
            BY <5>1
        <4> QED
          BY <1>a, <2>2, <4>2, <4>3
      <3>3. /\ \A i \in 1..Len(queue) : queue[i][1] \in 1..sent'
            /\ \A i \in 1..Len(pending') : pending'[i][1] \in 1..sent'
        BY <1>0, <1>a, <2>1, <2>2 DEF OrderInv, QueueInv
      <3> QED
        BY <2>3, <3>1, <3>2, <3>3 DEF OrderInv, QueueInv, Increasing, Newer
    <2>5. HandInv'
      BY <1>0, <1>a, <2>1, <2>2, <2>3 DEF OrderInv, HandInv, Busy, Newer
    <2>6. LeafInv'
      BY <1>0, <1>a, <2>1, <2>2, <2>3 DEF OrderInv, LeafInv, Newer
    <2> QED
      BY <2>4, <2>5, <2>6 DEF OrderInv
  <1>3. CASE Put
    <2>1. /\ pending # <<>> /\ pending' = Tail(pending)
          /\ queue' = queue \/ queue' = Append(queue, Head(pending))
          /\ UNCHANGED <<ppc, sent, cur, mem, redis>>
      BY <1>3 DEF Put
    <2>2. /\ Len(pending) \in Nat \ {0} /\ Head(pending) = pending[1]
          /\ Len(pending') = Len(pending) - 1
          /\ \A i \in 1..Len(pending') : pending'[i] = pending[i + 1] /\ i + 1 \in 1..Len(pending)
      BY <1>0, <2>1, HeadTail
    <2>3. CASE queue' = queue
      <3>1. QueueInv'
        BY <1>a, <2>1, <2>2, <2>3 DEF OrderInv, QueueInv, Increasing, Newer
      <3>2. HandInv'
        BY <1>a, <2>1, <2>2, <2>3 DEF OrderInv, HandInv, Busy, Newer
      <3>3. LeafInv'
        BY <1>a, <2>1, <2>2, <2>3 DEF OrderInv, LeafInv, Newer
      <3> QED
        BY <3>1, <3>2, <3>3 DEF OrderInv
    <2>4. CASE queue' = Append(queue, Head(pending))
      <3>0. /\ Len(queue') = Len(queue) + 1
            /\ \A i \in 1..Len(queue) : queue'[i] = queue[i]
            /\ queue'[Len(queue) + 1] = pending[1] /\ 1 \in 1..Len(pending)
        BY <1>0, <2>2, <2>4
      <3>1. Increasing(queue')
        <4> SUFFICES ASSUME NEW i \in 1..Len(queue'), NEW j \in 1..Len(queue'), i < j
                     PROVE  queue'[i][1] < queue'[j][1]
          BY DEF Increasing
        <4>1. i \in 1..Len(queue) /\ queue'[i] = queue[i]
          BY <1>a, <3>0
        <4>2. CASE j \in 1..Len(queue)
          BY <3>0, <4>1, <4>2 DEF OrderInv, QueueInv, Increasing
        <4>3. CASE j = Len(queue) + 1
          BY <3>0, <4>1, <4>3 DEF OrderInv, QueueInv, Newer
        <4>4. j \in 1..Len(queue) \/ j = Len(queue) + 1
          BY <1>a, <3>0
        <4> QED
          BY <4>2, <4>3, <4>4
      <3>2. Increasing(pending')
        <4> SUFFICES ASSUME NEW i \in 1..Len(pending'), NEW j \in 1..Len(pending'), i < j
                     PROVE  pending'[i][1] < pending'[j][1]
          BY DEF Increasing
        <4>1. i + 1 \in 1..Len(pending) /\ j + 1 \in 1..Len(pending) /\ i + 1 < j + 1
          BY <2>2
        <4> QED
          BY <2>2, <4>1 DEF OrderInv, QueueInv, Increasing
      <3>3. \A i \in 1..Len(queue') : Newer(pending', queue'[i][1]) /\ queue'[i][1] \in 1..sent'
        <4> SUFFICES ASSUME NEW i \in 1..Len(queue')
                     PROVE  Newer(pending', queue'[i][1]) /\ queue'[i][1] \in 1..sent'
          OBVIOUS
        <4>1. CASE i \in 1..Len(queue)
          BY <1>a, <2>1, <2>2, <3>0, <4>1 DEF OrderInv, QueueInv, Newer
        <4>2. CASE i = Len(queue) + 1
          BY <1>a, <2>1, <2>2, <3>0, <4>2 DEF OrderInv, QueueInv, Increasing, Newer
        <4> QED
          BY <1>a, <3>0, <4>1, <4>2
      <3>4. \A i \in 1..Len(pending') : pending'[i][1] \in 1..sent'
        BY <1>a, <2>1, <2>2 DEF OrderInv, QueueInv
      <3>5. QueueInv'
        BY <3>1, <3>2, <3>3, <3>4 DEF QueueInv, Increasing, Newer
      <3>6. \A k \in Nat : Newer(queue, k) /\ Newer(pending, k) => Newer(queue', k) /\ Newer(pending', k)
        <4> SUFFICES ASSUME NEW k \in Nat, Newer(queue, k), Newer(pending, k)
                     PROVE  Newer(queue', k) /\ Newer(pending', k)
          OBVIOUS
        <4>1. \A i \in 1..Len(queue') : i \in 1..Len(queue) \/ i = Len(queue) + 1
          BY <1>a, <3>0
        <4>2. Newer(queue', k)
          BY <3>0, <4>1 DEF Newer
        <4>3. Newer(pending', k)
          BY <2>2 DEF Newer
        <4> QED
          BY <4>2, <4>3
      <3>7. HandInv'
        BY <1>a, <2>1, <3>6 DEF OrderInv, HandInv, Busy, Newer
      <3>8. LeafInv'
        BY <1>a, <2>1, <3>6 DEF OrderInv, LeafInv, Newer
      <3> QED
        BY <3>5, <3>7, <3>8 DEF OrderInv
    <2> QED
      BY <2>1, <2>3, <2>4
  <1>4. CASE Take
    <2>1. /\ queue # <<>> /\ queue' = Tail(queue) /\ cur' = Head(queue)
          /\ ppc = "get" /\ ppc' = "apply" /\ UNCHANGED <<sent, pending, mem, redis>>
      BY <1>4 DEF Take
    <2>2. /\ Len(queue) \in Nat \ {0} /\ cur' = queue[1] /\ 1 \in 1..Len(queue)
          /\ Len(queue') = Len(queue) - 1
          /\ \A i \in 1..Len(queue') : queue'[i] = queue[i + 1] /\ i + 1 \in 1..Len(queue)
      BY <1>0, <2>1, HeadTail
    <2>3. QueueInv'
      BY <1>a, <2>1, <2>2 DEF OrderInv, QueueInv, Increasing, Newer
    <2>4. HandInv'
      <3>1. cur'[1] \in 1..sent' /\ cur' # NoFrame
        BY <1>0, <1>a, <2>1, <2>2 DEF OrderInv, QueueInv
      <3>2. Newer(queue', cur'[1])
        BY <1>a, <2>2 DEF OrderInv, QueueInv, Increasing, Newer
      <3>3. Newer(pending', cur'[1])
        BY <2>1, <2>2 DEF OrderInv, QueueInv, Newer
      <3>4. \A t \in Token : mem'[t] < cur'[1]
        BY <2>1, <2>2 DEF OrderInv, LeafInv, Newer
      <3> QED
        BY <2>1, <3>1, <3>2, <3>3, <3>4 DEF HandInv, Busy, Newer
    <2>5. LeafInv'
      BY <1>a, <2>1, <2>2 DEF OrderInv, LeafInv, Newer
    <2> QED
      BY <2>3, <2>4, <2>5 DEF OrderInv
  <1>5. CASE Apply
    <2>0. PICK tick \in parse_tick(cur) :
            /\ mem' = [mem EXCEPT ![tick.token] = tick.data]
            /\ redis' = IF tick.token = Spot THEN [redis EXCEPT ![Spot] = tick.data] ELSE redis
      BY <1>5 DEF Apply
    <2>a. cur[2] # Unknown /\ tick = [token |-> cur[2], data |-> cur[1]]
      BY <2>0 DEF parse_tick
    <2>b. cur[2] \in Token
      BY <1>0, <2>a DEF Frame
    <2>1. /\ ppc = "apply" /\ ppc' = "notify" /\ cur[2] \in Token
          /\ mem' = [mem EXCEPT ![cur[2]] = cur[1]]
          /\ \/ redis' = redis
             \/ redis' = [redis EXCEPT ![cur[2]] = cur[1]]
          /\ UNCHANGED <<sent, pending, queue, cur>>
      BY <1>5, <2>0, <2>a, <2>b DEF Apply
    <2>2. \A t \in Token : /\ mem'[t] = IF t = cur[2] THEN cur[1] ELSE mem[t]
                           /\ redis'[t] = redis[t] \/ (t = cur[2] /\ redis'[t] = cur[1])
      BY <1>0, <2>1
    <2>3. QueueInv'
      BY <2>1 DEF OrderInv, QueueInv, Increasing, Newer
    <2>4. HandInv'
      BY <1>a, <2>1, <2>2 DEF OrderInv, HandInv, Busy, Newer
    <2>5. LeafInv'
      BY <1>a, <2>1, <2>2 DEF OrderInv, HandInv, LeafInv, Busy, Newer
    <2> QED
      BY <2>3, <2>4, <2>5 DEF OrderInv
  <1>6. CASE Discard \/ Notify \/ NotifyFails
    <2>1. ppc' = "get" /\ cur' = NoFrame /\ UNCHANGED <<sent, pending, queue, mem, redis>>
      BY <1>6 DEF Discard, Notify, NotifyFails
    <2> QED
      BY <2>1 DEF OrderInv, QueueInv, HandInv, LeafInv, Busy, Increasing, Newer
  <1>7. CASE flush_chains \/ Stop
    <2>1. /\ ppc = "get" /\ ppc' \in {"get", "stopped"}
          /\ \A t \in Token : redis'[t] \in {redis[t], mem[t]}
          /\ UNCHANGED <<sent, cur, mem>>
          /\ UNCHANGED <<pending, queue>> \/ (pending' = <<>> /\ queue' = <<>>)
      BY <1>7 DEF flush_chains, Stop, FinalFlush
    <2>2. QueueInv'
      BY <1>a, <2>1 DEF OrderInv, QueueInv, Increasing, Newer
    <2>3. HandInv'
      BY <1>a, <2>1 DEF OrderInv, HandInv, Busy
    <2>4. LeafInv'
      BY <1>a, <2>1 DEF OrderInv, LeafInv, Newer
    <2> QED
      BY <2>2, <2>3, <2>4 DEF OrderInv
  <1>8. CASE Restart
    <2>1. /\ pending' = <<>> /\ queue' = <<>> /\ cur' = NoFrame /\ ppc' = "get" /\ mem' = redis
          /\ UNCHANGED <<sent, redis>>
      BY <1>8 DEF Restart
    <2>2. QueueInv' /\ HandInv'
      BY <2>1 DEF QueueInv, HandInv, Busy, Increasing, Newer
    <2>3. \A k : Newer(queue', k) /\ Newer(pending', k)
      BY <2>1 DEF Newer
    <2>4. \A t \in Token : redis[t] <= sent
      BY <1>0, <1>a DEF OrderInv, LeafInv
    <2>5. LeafInv'
      BY <1>a, <2>1, <2>3, <2>4 DEF LeafInv, Newer
    <2> QED
      BY <2>2, <2>5 DEF OrderInv
  <1>9. CASE OnOpen \/ OnClose \/ OpenTimeout \/ Subscribed
    BY <1>9, <1>1 DEF OnOpen, OnClose, OpenTimeout, Subscribed
  <1>10. CASE UNCHANGED pipe
    BY <1>10, <1>1 DEF pipe
  <1> QED
    BY <1>2, <1>3, <1>4, <1>5, <1>6, <1>7, <1>8, <1>9, <1>10, RouteLeavesPipe
    DEF Next, Socket, Processor, vars

\* data_pipeline: frames reach the chain in the order the SDK delivered them,
\* whatever a full queue drops and a restart loses.
THEOREM FramesAlwaysInOrder == Spec => []FramesInOrder
  <1>1. TypeOK /\ OrderInv => FramesInOrder
    <2> SUFFICES ASSUME TypeOK, OrderInv PROVE FramesInOrder
      OBVIOUS
    <2> DEFINE hand == IF cur = NoFrame THEN <<>> ELSE <<cur>>
               n == Len(hand)
               m == Len(queue)
    <2>0. /\ pending \in Seq(Frame) /\ queue \in Seq(Frame) /\ cur \in Frame
          /\ mem \in [Token -> Nat] /\ redis \in [Token -> Nat]
          /\ \A f \in Frame : f[1] \in Nat
      BY FlowAssumption DEF TypeOK, Frame
    <2>1. /\ hand \in Seq(Frame) /\ n \in {0, 1} /\ (Busy <=> n = 1)
          /\ n = 1 => hand[1] = cur
      BY <2>0 DEF OrderInv, HandInv
    <2>2. OnTheWay = hand \o queue \o pending
      BY DEF OnTheWay
    <2> HIDE DEF hand
    <2>3. /\ Len(OnTheWay) = n + m + Len(pending) /\ m \in Nat /\ Len(pending) \in Nat
          /\ \A i \in 1..Len(OnTheWay) :
               \/ i = 1 /\ n = 1 /\ OnTheWay[i] = cur
               \/ i - n \in 1..m /\ OnTheWay[i] = queue[i - n]
               \/ i - n - m \in 1..Len(pending) /\ OnTheWay[i] = pending[i - n - m]
      <3> DEFINE front == hand \o queue
      <3>1. /\ front \in Seq(Frame) /\ Len(front) = n + m
            /\ m \in Nat /\ Len(pending) \in Nat
            /\ \A i \in 1..Len(front) : front[i] = IF i <= n THEN hand[i] ELSE queue[i - n]
        BY <2>0, <2>1
      <3>2. OnTheWay = front \o pending
        BY <2>2
      <3> HIDE DEF front
      <3>3. /\ Len(OnTheWay) = Len(front) + Len(pending)
            /\ \A i \in 1..Len(OnTheWay) :
                 OnTheWay[i] = IF i <= Len(front) THEN front[i] ELSE pending[i - Len(front)]
        BY <2>0, <3>1, <3>2, ConcatProperties
      <3> HIDE DEF n, m
      <3>4. ASSUME NEW i \in 1..Len(OnTheWay)
            PROVE  \/ i = 1 /\ n = 1 /\ OnTheWay[i] = cur
                   \/ i - n \in 1..m /\ OnTheWay[i] = queue[i - n]
                   \/ i - n - m \in 1..Len(pending) /\ OnTheWay[i] = pending[i - n - m]
        <4>0. i \in Nat /\ 1 <= i /\ i <= n + m + Len(pending) /\ n \in Nat /\ Len(front) = n + m
          BY <2>1, <3>1, <3>3
        <4>1. CASE i <= n + m
          <5>1. i \in 1..Len(front)
            BY <3>1, <4>0, <4>1
          <5>2. OnTheWay[i] = IF i <= n THEN hand[i] ELSE queue[i - n]
            BY <3>1, <3>3, <4>0, <4>1, <5>1
          <5> QED
            BY <2>1, <3>1, <4>0, <4>1, <5>2
        <4>2. CASE n + m < i
          <5>1. OnTheWay[i] = pending[i - Len(front)] /\ i - Len(front) = i - n - m
            BY <3>1, <3>3, <4>0, <4>2
          <5> QED
            BY <3>1, <4>0, <4>2, <5>1
        <4> QED
          BY <3>1, <4>0, <4>1, <4>2
      <3> QED
        BY <3>1, <3>3, <3>4
    <2> HIDE DEF n, m
    <2>4. \A i, j \in 1..Len(OnTheWay) : i < j => OnTheWay[i][1] < OnTheWay[j][1]
      <3> SUFFICES ASSUME NEW i \in 1..Len(OnTheWay), NEW j \in 1..Len(OnTheWay), i < j
                   PROVE  OnTheWay[i][1] < OnTheWay[j][1]
        OBVIOUS
      <3>1. CASE i = 1 /\ n = 1 /\ OnTheWay[i] = cur
        <4>1. \/ j - n \in 1..m /\ OnTheWay[j] = queue[j - n]
              \/ j - n - m \in 1..Len(pending) /\ OnTheWay[j] = pending[j - n - m]
          BY <2>3, <3>1
        <4> QED
          BY <2>1, <3>1, <4>1 DEF OrderInv, HandInv, Newer, m
      <3>2. CASE i - n \in 1..m /\ OnTheWay[i] = queue[i - n]
        <4>1. \/ j - n \in 1..m /\ OnTheWay[j] = queue[j - n]
              \/ j - n - m \in 1..Len(pending) /\ OnTheWay[j] = pending[j - n - m]
          BY <2>1, <2>3, <3>2
        <4>2. i - n < j - n
          BY <2>1, <2>3
        <4> QED
          BY <3>2, <4>1, <4>2 DEF OrderInv, QueueInv, Increasing, Newer, m
      <3>3. CASE i - n - m \in 1..Len(pending) /\ OnTheWay[i] = pending[i - n - m]
        <4>1. j - n - m \in 1..Len(pending) /\ OnTheWay[j] = pending[j - n - m]
          BY <2>1, <2>3, <3>3
        <4>2. i - n - m < j - n - m
          BY <2>1, <2>3
        <4> QED
          BY <3>3, <4>1, <4>2 DEF OrderInv, QueueInv, Increasing
      <3> QED
        BY <2>3, <3>1, <3>2, <3>3
    <2>5. \A i \in 1..Len(OnTheWay), t \in Token :
            /\ redis[t] <= OnTheWay[i][1]
            /\ mem[t] < OnTheWay[i][1] \/ (ppc = "notify" /\ i = 1 /\ t = cur[2])
      <3> SUFFICES ASSUME NEW i \in 1..Len(OnTheWay), NEW t \in Token
                   PROVE  /\ redis[t] <= OnTheWay[i][1]
                          /\ mem[t] < OnTheWay[i][1] \/ (ppc = "notify" /\ i = 1 /\ t = cur[2])
        OBVIOUS
      <3>1. redis[t] \in Nat /\ mem[t] \in Nat /\ redis[t] <= mem[t]
        BY <2>0 DEF OrderInv, LeafInv
      <3>2. CASE i = 1 /\ n = 1 /\ OnTheWay[i] = cur
        BY <2>0, <2>1, <3>1, <3>2 DEF OrderInv, HandInv
      <3>3. CASE i - n \in 1..m /\ OnTheWay[i] = queue[i - n]
        <4>1. queue[i - n][1] \in Nat /\ mem[t] < queue[i - n][1]
          BY <2>0, <3>3 DEF OrderInv, LeafInv, Newer, m
        <4> QED
          BY <3>1, <3>3, <4>1
      <3>4. CASE i - n - m \in 1..Len(pending) /\ OnTheWay[i] = pending[i - n - m]
        <4>1. pending[i - n - m][1] \in Nat /\ mem[t] < pending[i - n - m][1]
          BY <2>0, <3>4 DEF OrderInv, LeafInv, Newer
        <4> QED
          BY <3>1, <3>4, <4>1
      <3> QED
        BY <2>3, <3>2, <3>3, <3>4
    <2> QED
      BY <2>4, <2>5 DEF FramesInOrder
  <1>2. RInv => TypeOK
    BY DEF RInv
  <1> QED
    BY <1>1, <1>2, InitRInv, NextRInv, InitOrder, NextOrder, PTL DEF Spec
=============================================================================
