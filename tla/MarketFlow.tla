---------------------------- MODULE MarketFlow -----------------------------
(***************************************************************************)
(* The way of a tick from the broker's websocket to the vessels:           *)
(*   engines/data_pipeline  the SDK thread's callback hands a frame to the *)
(*     event loop, a bounded queue, the tick processor that merges it into *)
(*     the option chain in memory, notifies the vessels and flushes the    *)
(*     chain to Redis at most every 50 ms; the pre-open subscription;      *)
(*   engines/strategy/ingestion.py  the router, which keeps one pub/sub    *)
(*     subscription for all vessels and sets their dirty events;           *)
(*   the waiting half of vessel_loop in engines/strategy/runner.py.        *)
(*                                                                         *)
(* A leaf of the chain is the number of the frame that wrote it last.  One *)
(* frame carries one tick; Unknown is a token (or a frame) that parse_tick *)
(* or token_index does not know.  asyncio runs one coroutine at a time, so *)
(* a step ends where the code awaits.                                      *)
(***************************************************************************)
EXTENDS Naturals, Sequences, FiniteSets

CONSTANTS
  Option,      \* option tokens
  Spot,        \* the index's spot token
  Unknown,     \* a token outside token_index
  Vessel,      \* the vessels of the strategy process
  Basket,      \* the baskets a vessel can have, sets of option tokens
  QueueSize,   \* maxsize of tick_queue
  MaxFrames, MaxShifts,   \* no bound is larger than these
  Bounds       \* the combinations of bounds explored: how many frames and for
               \* which tokens, how many basket shifts, and how many restarts
               \* and closings of the websocket

ASSUME FlowAssumption ==
  /\ Spot \notin Option /\ Unknown \notin Option \cup {Spot}
  /\ Basket \subseteq SUBSET Option /\ Basket # {}
  /\ QueueSize \in Nat \ {0} /\ MaxFrames \in Nat /\ MaxShifts \in Nat
  /\ Bounds \subseteq [frames : 0..MaxFrames, toks : SUBSET (Option \cup {Spot, Unknown}),
                         shifts : 0..MaxShifts, stops : Nat]

Token == Option \cup {Spot}
Router == "router"
Caller == Vessel \cup {Router}
NoOne == "none"
NoFrame == <<0, Unknown>>

ASSUME CallerAssumption == Router \notin Vessel /\ NoOne \notin Caller

VARIABLES
  ws,          \* ws_connected
  gate,        \* subscribe_at_premarket: "wait", "set" or "skipped"
  sent,        \* frames the broker has sent
  pending,     \* call_soon_threadsafe(put_nowait, frame) not yet run
  queue,       \* tick_queue
  cur,         \* the frame the tick processor has taken
  ppc,         \* where the tick processor is
  mem, dirty,  \* state.chain (and state.spot) in memory; chains to flush
  redis,       \* option_chain and spot in Redis
  msgs,        \* notifications in the router's pub/sub connection
  stops,       \* how often the pipeline was restarted or its websocket closed
  up,          \* the router's _pubsub exists
  routes,      \* _routes
  srv,         \* the channels the connection is subscribed to
  known,       \* _subscribed, those the router believes it is subscribed to
  missed,      \* channels whose last unsubscribe failed
  rpc,         \* who is in _reconcile_subscriptions: "no", "wait" or "in"
  lock,        \* holder of _reload_lock
  add, drop,   \* to_add and to_drop of the holder
  want,        \* the vessels' baskets
  vpc,         \* where the vessels are
  woken,       \* their dirty events
  seen,        \* the leaves each vessel read last
  shifts,
  bound        \* the bounds of this behaviour

pipe == <<bound, ws, gate, sent, pending, queue, cur, ppc, mem, dirty, redis, stops>>
route == <<up, routes, srv, known, missed, rpc, lock, add, drop>>
vessel == <<want, vpc, woken, seen, shifts>>
vars == <<pipe, msgs, route, vessel>>

Init ==
  /\ bound \in Bounds /\ ws = FALSE /\ gate = "wait" /\ sent = 0
  /\ pending = <<>> /\ queue = <<>> /\ cur = NoFrame /\ ppc = "get"
  /\ mem = [t \in Token |-> 0] /\ dirty = FALSE /\ redis = mem
  /\ msgs = {} /\ stops = 0
  /\ up = FALSE /\ routes = [t \in Option |-> {}] /\ srv = {} /\ known = {} /\ missed = {}
  /\ rpc = [c \in Caller |-> "no"] /\ lock = NoOne /\ add = {} /\ drop = {}
  /\ want = [v \in Vessel |-> {}] /\ vpc = [v \in Vessel |-> "boot"]
  /\ woken = [v \in Vessel |-> FALSE] /\ seen = [v \in Vessel |-> mem] /\ shifts = 0
-----------------------------------------------------------------------------
(* The websocket and the pre-open subscription.                            *)

Live == ppc # "stopped"

OnOpen ==
  /\ Live /\ ~ws /\ ws' = TRUE
  /\ UNCHANGED <<bound, gate, sent, pending, queue, cur, ppc, mem, dirty, redis, stops, msgs, route, vessel>>

OnClose ==
  /\ Live /\ ws /\ ws' = FALSE /\ stops < bound.stops /\ stops' = stops + 1
  /\ UNCHANGED <<bound, gate, sent, pending, queue, cur, ppc, mem, dirty, redis, msgs, route, vessel>>

\* 15 s without an open websocket: the subscription is skipped for good.
OpenTimeout ==
  /\ Live /\ gate = "wait" /\ ~ws /\ gate' = "skipped"
  /\ UNCHANGED <<bound, ws, sent, pending, queue, cur, ppc, mem, dirty, redis, stops, msgs, route, vessel>>

\* The tokens of subscriptions:desired are subscribed: frames can come.  A failed
\* or empty subscription sets the flag as well; then none comes.
bootstrap_subscriptions == gate' = "set"

\* Subscribed once, then the gate flag: when all tokens have had a frame, or
\* after 30 s all the same.
Subscribed ==
  /\ Live /\ gate = "wait" /\ ws /\ bootstrap_subscriptions
  /\ UNCHANGED <<bound, ws, sent, pending, queue, cur, ppc, mem, dirty, redis, stops, msgs, route, vessel>>

\* The slip: the SDK's thread puts the frame itself while there is room.
PutByThread ==
  /\ Live /\ ws /\ gate = "set" /\ sent < bound.frames /\ sent' = sent + 1
  /\ \E t \in bound.toks :
       IF Len(queue) < QueueSize
         THEN queue' = Append(queue, <<sent', t>>) /\ pending' = pending
         ELSE queue' = queue /\ pending' = Append(pending, <<sent', t>>)
  /\ UNCHANGED <<bound, ws, gate, cur, ppc, mem, dirty, redis, stops, msgs, route, vessel>>

\* _on_message, on the SDK's thread.
OnMessage ==
  /\ Live /\ ws /\ gate = "set" /\ sent < bound.frames
  /\ sent' = sent + 1
  /\ \E t \in bound.toks : pending' = Append(pending, <<sent', t>>)
  /\ UNCHANGED <<bound, ws, gate, queue, cur, ppc, mem, dirty, redis, stops, msgs, route, vessel>>

\* The slip: the queue has no bound.
PutUnbounded ==
  /\ Live /\ pending # <<>> /\ pending' = Tail(pending)
  /\ queue' = Append(queue, Head(pending))
  /\ UNCHANGED <<bound, ws, gate, sent, cur, ppc, mem, dirty, redis, stops, msgs, route, vessel>>

\* put_nowait runs on the loop.  On a full queue it raises there, where nobody
\* catches it: the new frame is gone and ticks_dropped stays as it is.
Put ==
  /\ Live /\ pending # <<>> /\ pending' = Tail(pending)
  /\ queue' = IF Len(queue) < QueueSize THEN Append(queue, Head(pending)) ELSE queue
  /\ UNCHANGED <<bound, ws, gate, sent, cur, ppc, mem, dirty, redis, stops, msgs, route, vessel>>
-----------------------------------------------------------------------------
(* tick_processor_loop.                                                    *)

Take ==
  /\ ppc = "get" /\ queue # <<>>
  /\ cur' = Head(queue) /\ queue' = Tail(queue) /\ ppc' = "apply"
  /\ UNCHANGED <<bound, ws, gate, sent, pending, mem, dirty, redis, stops, msgs, route, vessel>>

\* The ticks of a frame: at most one, here; its fields are the frame's number.
parse_tick(frame) ==
  IF frame[2] = Unknown THEN {} ELSE {[token |-> frame[2], data |-> frame[1]]}

Discard ==
  /\ ppc = "apply" /\ parse_tick(cur) = {} /\ cur' = NoFrame /\ ppc' = "get"
  /\ UNCHANGED <<bound, ws, gate, sent, pending, queue, mem, dirty, redis, stops, msgs, route, vessel>>

\* The first half of _process_one_tick: a spot tick is written through, an
\* option tick changes the chain in memory only.
Apply ==
  /\ ppc = "apply" /\ ppc' = "notify"
  /\ \E tick \in parse_tick(cur) :
       /\ mem' = [mem EXCEPT ![tick.token] = tick.data]
       /\ redis' = IF tick.token = Spot THEN [redis EXCEPT ![Spot] = tick.data] ELSE redis
  /\ UNCHANGED <<bound, ws, gate, sent, pending, queue, cur, dirty, stops, msgs, route, vessel>>

\* The second half: XADD and PUBLISH, before any flush.
Notify ==
  /\ ppc = "notify" /\ ppc' = "get" /\ cur' = NoFrame
  /\ msgs' = IF cur[2] \in srv THEN msgs \cup {cur[2]} ELSE msgs
  /\ dirty' = (dirty \/ cur[2] # Spot)
  /\ UNCHANGED <<bound, ws, gate, sent, pending, queue, mem, redis, stops, route, vessel>>

\* XADD or PUBLISH raises: the tick is logged as failed and its index is not
\* marked dirty, although the chain in memory has changed.
NotifyFails ==
  /\ ppc = "notify" /\ ppc' = "get" /\ cur' = NoFrame
  /\ UNCHANGED <<bound, ws, gate, sent, pending, queue, mem, dirty, redis, stops, msgs, route, vessel>>

\* After a frame or a get timeout, when 50 ms have passed since the last flush.
flush_chains ==
  /\ ppc = "get" /\ dirty /\ dirty' = FALSE
  /\ redis' = [t \in Token |-> IF t = Spot THEN redis[t] ELSE mem[t]]
  /\ UNCHANGED <<bound, ws, gate, sent, pending, queue, cur, ppc, mem, stops, msgs, route, vessel>>

\* What is dirty is flushed when the loop ends, and the streamer disconnected.
FinalFlush ==
  /\ dirty' = FALSE
  /\ redis' = IF dirty THEN [t \in Token |-> IF t = Spot THEN redis[t] ELSE mem[t]] ELSE redis
ws_io_loop == ws' = FALSE

\* Shutdown, by a signal or because the SDK gives up reconnecting: every loop
\* ends and the engine exits with 0.
Stop ==
  /\ ppc = "get" /\ ppc' = "stopped" /\ ws_io_loop /\ FinalFlush
  /\ pending' = <<>> /\ queue' = <<>>
  /\ UNCHANGED <<bound, gate, sent, cur, mem, stops, msgs, route, vessel>>

\* The process dies (a failed flush ends it too) and is started again:
\* _load_state reads what Redis has.
Restart ==
  /\ Live /\ stops < bound.stops /\ stops' = stops + 1
  /\ ws' = FALSE /\ gate' = "wait"
  /\ pending' = <<>> /\ queue' = <<>> /\ cur' = NoFrame /\ ppc' = "get"
  /\ mem' = redis /\ dirty' = FALSE
  /\ UNCHANGED <<bound, sent, redis, msgs, route, vessel>>
-----------------------------------------------------------------------------
(* TickRouter.                                                             *)

desired_channels == {t \in Option : routes[t] # {}}

\* The slip: who finds the lock taken leaves the work to its holder.
CallUnlessBusy(c) == rpc' = IF up /\ lock = NoOne THEN [rpc EXCEPT ![c] = "wait"] ELSE rpc

\* Entering _reconcile_subscriptions: nothing to do without a pub/sub object.
Call(c) == rpc' = IF up THEN [rpc EXCEPT ![c] = "wait"] ELSE rpc

\* The first part of run.
RouterStart ==
  /\ ~up /\ up' = TRUE /\ rpc' = [rpc EXCEPT ![Router] = "wait"]
  /\ UNCHANGED <<pipe, msgs, routes, srv, known, missed, lock, add, drop, vessel>>

\* run reconciles again while nothing is subscribed or when get_message hangs.
RouterRecheck ==
  /\ up /\ rpc[Router] = "no" /\ Call(Router)
  /\ UNCHANGED <<pipe, msgs, up, routes, srv, known, missed, lock, add, drop, vessel>>

Acquire(c) ==
  /\ rpc[c] = "wait" /\ lock = NoOne /\ rpc' = [rpc EXCEPT ![c] = "in"]
  /\ lock' = c /\ add' = desired_channels \ known /\ drop' = known \ desired_channels
  /\ UNCHANGED <<pipe, msgs, up, routes, srv, known, missed, vessel>>

Subscribe(c) ==
  /\ rpc[c] = "in"
  /\ \E t \in add : /\ srv' = srv \cup {t} /\ known' = known \cup {t}
                    /\ missed' = missed \ {t} /\ add' = add \ {t}
  /\ UNCHANGED <<pipe, msgs, up, routes, rpc, lock, drop, vessel>>

Unsubscribe(c) ==
  /\ rpc[c] = "in" /\ add = {}
  /\ \E t \in drop : srv' = srv \ {t} /\ known' = known \ {t} /\ drop' = drop \ {t}
  /\ UNCHANGED <<pipe, msgs, up, routes, missed, rpc, lock, add, vessel>>

\* An exception of unsubscribe is swallowed: the channel stays subscribed and
\* _subscribed forgets it, so no later reconcile drops it.
UnsubscribeFails(c) ==
  /\ rpc[c] = "in" /\ add = {}
  /\ \E t \in drop : /\ known' = known \ {t} /\ missed' = missed \cup {t}
                     /\ drop' = drop \ {t}
  /\ UNCHANGED <<pipe, msgs, up, routes, srv, rpc, lock, add, vessel>>

Release(c) ==
  /\ rpc[c] = "in" /\ add = {} /\ drop = {} /\ lock' = NoOne
  /\ rpc' = [rpc EXCEPT ![c] = "no"]
  /\ UNCHANGED <<pipe, msgs, up, routes, srv, known, missed, add, drop, vessel>>

\* A message wakes the vessels registered for its token by now.
Deliver ==
  /\ up /\ rpc[Router] = "no"
  /\ \E t \in msgs : /\ msgs' = msgs \ {t}
                     /\ woken' = [v \in Vessel |-> woken[v] \/ v \in routes[t]]
  /\ UNCHANGED <<pipe, route, want, vpc, seen, shifts>>
-----------------------------------------------------------------------------
(* The vessels.                                                            *)

\* The slip: only a notification wakes a vessel.
WakeOnTick(v) ==
  /\ vpc[v] = "idle" /\ woken[v] /\ vpc' = [vpc EXCEPT ![v] = "basket"]
  /\ woken' = [woken EXCEPT ![v] = FALSE]
  /\ UNCHANGED <<pipe, msgs, route, want, seen, shifts>>

\* The dirty event, or 2 s without one.
Wake(v) ==
  /\ vpc[v] = "idle" /\ vpc' = [vpc EXCEPT ![v] = "basket"]
  /\ woken' = [woken EXCEPT ![v] = FALSE]
  /\ UNCHANGED <<pipe, msgs, route, want, seen, shifts>>

\* ensure_basket with a transition, at boot or in the loop: register,
\* unregister, reconcile.
Shift(v) ==
  /\ vpc[v] \in {"boot", "basket"} /\ shifts < bound.shifts /\ shifts' = shifts + 1
  /\ \E b \in Basket \ {want[v]} :
       /\ want' = [want EXCEPT ![v] = b]
       /\ routes' = [t \in Option |-> IF t \in b THEN routes[t] \cup {v} ELSE routes[t] \ {v}]
  /\ Call(v)
  /\ vpc' = [vpc EXCEPT ![v] = IF vpc[v] = "boot" THEN "booting" ELSE "reconcile"]
  /\ UNCHANGED <<pipe, msgs, up, srv, known, missed, lock, add, drop, woken, seen>>

\* The loop begins, with a basket or (no spot yet) without.
Begin(v) ==
  /\ vpc[v] = "boot" \/ (vpc[v] = "booting" /\ rpc[v] = "no")
  /\ vpc' = [vpc EXCEPT ![v] = "idle"]
  /\ UNCHANGED <<pipe, msgs, route, want, woken, seen, shifts>>

\* The snapshot: no basket change, or the reconcile is over.
Read(v) ==
  /\ vpc[v] = "basket" \/ (vpc[v] = "reconcile" /\ rpc[v] = "no")
  /\ seen' = [seen EXCEPT ![v] = redis] /\ vpc' = [vpc EXCEPT ![v] = "idle"]
  /\ UNCHANGED <<pipe, msgs, route, want, woken, shifts>>
-----------------------------------------------------------------------------
Processor == Take \/ Discard \/ Apply \/ Notify \/ NotifyFails
Socket == OnOpen \/ OnClose \/ OpenTimeout \/ Subscribed \/ OnMessage
Dropping(c) == Unsubscribe(c) \/ UnsubscribeFails(c)
Locked == \E c \in Caller : Acquire(c) \/ Subscribe(c) \/ Dropping(c) \/ Release(c)

Next ==
  \/ Socket \/ Put \/ Processor \/ flush_chains \/ Stop \/ Restart
  \/ RouterStart \/ RouterRecheck \/ Locked \/ Deliver
  \/ \E v \in Vessel : Begin(v) \/ Wake(v) \/ Shift(v) \/ Read(v)

\* The event loops run what can run; the lock serves its waiters in turn; the
\* flush interval and the idle timeout pass.
Fairness ==
  /\ WF_vars(Put) /\ WF_vars(Processor) /\ WF_vars(flush_chains)
  /\ WF_vars(RouterStart)
  /\ \A c \in Caller : SF_vars(Acquire(c))
                       /\ WF_vars(Subscribe(c) \/ Dropping(c) \/ Release(c))
  /\ \A v \in Vessel : WF_vars(Begin(v) \/ Wake(v) \/ Read(v))

Spec == Init /\ [][Next]_vars /\ Fairness
-----------------------------------------------------------------------------
(* Properties.                                                             *)

Frame == (0..MaxFrames) \X (Token \cup {Unknown})

\* Types, the bound of the queue, and the baskets the routes stand for.
TypeOK ==
  /\ bound \in Bounds /\ ws \in BOOLEAN /\ gate \in {"wait", "set", "skipped"}
  /\ sent \in 0..MaxFrames /\ stops \in 0..bound.stops
  /\ pending \in Seq(Frame) /\ queue \in Seq(Frame) /\ Len(queue) <= QueueSize
  /\ cur \in Frame /\ ppc \in {"get", "apply", "notify", "stopped"}
  /\ mem \in [Token -> 0..MaxFrames] /\ redis \in [Token -> 0..MaxFrames]
  /\ dirty \in BOOLEAN /\ msgs \subseteq Option
  /\ up \in BOOLEAN /\ routes \in [Option -> SUBSET Vessel] /\ srv \subseteq Option
  /\ known \subseteq Option /\ missed \subseteq Option
  /\ rpc \in [Caller -> {"no", "wait", "in"}] /\ lock \in Caller \cup {NoOne}
  /\ add \subseteq Option /\ drop \subseteq Option
  /\ want \in [Vessel -> SUBSET Option] /\ shifts \in 0..MaxShifts
  /\ vpc \in [Vessel -> {"boot", "booting", "idle", "basket", "reconcile"}]
  /\ woken \in [Vessel -> BOOLEAN] /\ seen \in [Vessel -> [Token -> 0..MaxFrames]]

\* Frames keep their order from the SDK's thread to the chain, whatever is
\* dropped at a full queue or lost with a restart: no leaf, in memory or in
\* Redis, is newer than a frame that is still on its way.
OnTheWay == (IF cur = NoFrame THEN <<>> ELSE <<cur>>) \o queue \o pending
FramesInOrder ==
  /\ \A i, j \in 1..Len(OnTheWay) : i < j => OnTheWay[i][1] < OnTheWay[j][1]
  /\ \A i \in 1..Len(OnTheWay), t \in Token :
       /\ redis[t] <= OnTheWay[i][1]
       /\ mem[t] < OnTheWay[i][1] \/ (ppc = "notify" /\ i = 1 /\ t = cur[2])

\* When nobody is reconciling, the connection is subscribed to the channels of
\* the vessels' baskets, and beyond them only to those whose unsubscribe failed
\* and that nobody has wanted since, however the basket shifts of the vessels
\* and the router's start interleave.
RouterConverged ==
  (up /\ \A c \in Caller : rpc[c] = "no")
    => srv = missed \cup UNION {want[v] : v \in Vessel}

\* No vessel stays behind the market: a tick that is flushed or due to be
\* reaches every vessel that goes on wanting its token, although the vessel is
\* notified before the flush and may read the old chain.
Behind(v, t) ==
  t \in want[v] /\ (redis[t] > seen[v][t] \/ (dirty /\ mem[t] > seen[v][t]))
TickReachesVessel == \A v \in Vessel, t \in Option : Behind(v, t) ~> ~Behind(v, t)
=============================================================================
