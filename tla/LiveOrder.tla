----------------------------- MODULE LiveOrder -----------------------------
(***************************************************************************)
(* Live mode of engines/order_exec/entry.py and exit_submit.py: how the    *)
(* worker of one position buys and later sells through the broker, hearing *)
(* of fills only through the Redis stream orders:stream:order_events.      *)
(* This is what the single steps EntryFill, EntryAbandon and Exit of       *)
(* OrderExec stand for when mode is "live".                                *)
(*                                                                         *)
(* XREAD is called with the id "$" until an entry has been read: "$" means *)
(* entries added after this very call, so what is published between two    *)
(* calls is never seen.  The broker and the publisher of the events are    *)
(* outside the repository: an order may fill piecemeal, fill, or be        *)
(* rejected at any time, and every change is published at once, in order.  *)
(* Prices are left out: a modify only changes a price.                     *)
(***************************************************************************)
EXTENDS Integers, Sequences

CONSTANTS Qty,          \* quantity of the entry order
          MaxSells,     \* bound: SELL orders placed
          MaxForeign,   \* bound: events of other orders on the stream
          MaxFailures   \* bound: broker API calls that fail

ASSUME LiveOrderAssumption ==
  /\ Qty \in Nat \ {0} /\ MaxSells \in Nat \ {0}
  /\ MaxForeign \in Nat /\ MaxFailures \in Nat

Latest == -1            \* the stream id "$"
Buy == 0                \* order number of the entry order; 1, 2, ... are SELLs
Sell == 1..MaxSells
Order == {Buy} \cup Sell
NoOrder == -1           \* order_id "", and the orders of other positions

VARIABLES
  pc,          \* what the worker does next
  status,      \* broker: status[o], "none" before o is placed
  filled,      \* broker: filled[o], quantity done
  events,      \* orders:stream:order_events
  from, upto,  \* the entries the current XREAD returned, or waits after
  last,        \* last_id
  order,       \* order_id, as the worker knows it
  qty,         \* filled_qty of the entry, then position.qty
  partial,     \* last_partial_seen_ts is set
  foreign, failures

brokerVars == <<status, filled>>
readVars == <<from, upto, last>>
vars == <<pc, brokerVars, events, readVars, order, qty, partial, foreign, failures>>

Status == {"none", "open", "filled", "cancelled", "rejected"}
EntryPc == {"place", "top", "listen", "quiet", "batch", "finish"}
ExitPc == {"exit_place", "exit_top", "exit_listen", "exit_batch"}
Event == [order : Order \cup {NoOrder}, kind : {"FILL", "PARTIAL_FILL", "REJECT"}]

TypeOK ==
  /\ pc \in EntryPc \cup ExitPc \cup {"abandoned", "held", "closed"}
  /\ status \in [Order -> Status]
  /\ filled \in [Order -> 0..Qty]
  /\ events \in Seq(Event)
  /\ from \in 0..Len(events) /\ upto \in 0..Len(events)
  /\ last \in {Latest} \cup 1..Len(events)
  /\ order \in Order \cup {NoOrder}
  /\ qty \in 0..Qty
  /\ partial \in BOOLEAN
  /\ foreign \in 0..MaxForeign /\ failures \in 0..MaxFailures

Init ==
  /\ pc = "place"
  /\ status = [o \in Order |-> "none"]
  /\ filled = [o \in Order |-> 0]
  /\ events = <<>>
  /\ from = 0 /\ upto = 0 /\ last = Latest
  /\ order = NoOrder
  /\ qty = 0
  /\ partial = FALSE
  /\ foreign = 0 /\ failures = 0
-----------------------------------------------------------------------------
(* The broker, and the stream.                                             *)

Publish(o, kind) == events' = Append(events, [order |-> o, kind |-> kind])

OrderQty(o) == IF o = Buy THEN Qty ELSE qty

\* One more unit of a working order is done.
BrokerFill(o) ==
  /\ status[o] = "open"
  /\ filled' = [filled EXCEPT ![o] = @ + 1]
  /\ IF filled[o] + 1 = OrderQty(o)
     THEN Publish(o, "FILL") /\ status' = [status EXCEPT ![o] = "filled"]
     ELSE Publish(o, "PARTIAL_FILL") /\ UNCHANGED status
  /\ UNCHANGED <<pc, readVars, order, qty, partial, foreign, failures>>

\* The exchange rejects an order it has not begun to fill.
BrokerReject(o) ==
  /\ status[o] = "open" /\ filled[o] = 0
  /\ failures < MaxFailures
  /\ status' = [status EXCEPT ![o] = "rejected"]
  /\ failures' = failures + 1
  /\ Publish(o, "REJECT")
  /\ UNCHANGED <<pc, filled, readVars, order, qty, partial, foreign>>

\* Another position's order changes.
ForeignEvent ==
  /\ foreign < MaxForeign
  /\ foreign' = foreign + 1
  /\ Publish(NoOrder, "FILL")
  /\ UNCHANGED <<pc, brokerVars, readVars, order, qty, partial, failures>>

\* cancel_order: too late for an order that is done; its result is ignored, so
\* a cancellation whose reply is lost is one that worked.
Cancel(o) ==
  \/ /\ status' = [status EXCEPT ![o] = IF @ = "open" THEN "cancelled" ELSE @]
     /\ UNCHANGED failures
  \/ /\ failures < MaxFailures
     /\ failures' = failures + 1
     /\ UNCHANGED status

FirstUnplaced(o) == status[o] = "none" /\ \A n \in Sell : n < o => status[n] # "none"

\* place_order succeeds, ...
Placed(o) == status' = [status EXCEPT ![o] = "open"]

\* ... is refused, or times out after the broker has taken the order: the
\* envelope says success = False in both cases.
PlaceFails(o) ==
  /\ failures < MaxFailures
  /\ failures' = failures + 1
  /\ UNCHANGED status \/ Placed(o)

\* Redis is unreachable for one XREAD.
ReadRaises(next) ==
  /\ failures < MaxFailures
  /\ failures' = failures + 1
  /\ pc' = next
  /\ UNCHANGED <<brokerVars, events, readVars, order, qty, partial, foreign>>

\* XREAD block=500: wait after last_id, or after the end of the stream for "$".
BeginRead(next) ==
  /\ from' = IF last = Latest THEN Len(events) ELSE last
  /\ pc' = next
  /\ UNCHANGED <<brokerVars, events, upto, last, order, qty, partial, foreign,
                 failures>>

\* It returns what has been added since.
EndRead(next) ==
  /\ Len(events) > from
  /\ upto' = Len(events)
  /\ pc' = next
  /\ UNCHANGED <<brokerVars, events, from, last, order, qty, partial, foreign,
                 failures>>

Consume == from' = from + 1 /\ last' = from + 1
Entry == events[from + 1]
-----------------------------------------------------------------------------
(* submit_and_monitor_live.                                                *)

\* No quote for the leg.
NoQuote ==
  /\ pc = "place"
  /\ pc' = "abandoned"
  /\ UNCHANGED <<brokerVars, events, readVars, order, qty, partial, foreign, failures>>

PlaceRejected ==
  /\ pc = "place"
  /\ PlaceFails(Buy)
  /\ pc' = "abandoned"
  /\ UNCHANGED <<filled, events, readVars, order, qty, partial, foreign>>

Place ==
  /\ pc = "place"
  /\ Placed(Buy)
  /\ order' = Buy
  /\ pc' = "top"
  /\ UNCHANGED <<filled, events, readVars, qty, partial, foreign, failures>>

EntryRead == pc = "top" /\ BeginRead("listen")
EntryReturn == pc = "listen" /\ EndRead("batch")

\* XREAD raised: leave the loop.
EntryReadRaises == pc = "listen" /\ ReadRaises("finish")

\* The deadline has passed.
EntryDeadline ==
  /\ pc = "top"
  /\ pc' = "finish"
  /\ UNCHANGED <<brokerVars, events, readVars, order, qty, partial, foreign, failures>>

\* Nothing came for 500 ms: look at the ask ...
EntryQuiet ==
  /\ pc = "listen" /\ Len(events) = from
  /\ pc' = "quiet"
  /\ UNCHANGED <<brokerVars, events, readVars, order, qty, partial, foreign, failures>>

\* ... and go round, after a modify if it has drifted, ...
EntryGoRound ==
  /\ pc = "quiet"
  /\ pc' = "top"
  /\ UNCHANGED <<brokerVars, events, readVars, order, qty, partial, foreign, failures>>

\* ... or cancel and abandon, if it has run away.
EntryChaseCeiling ==
  /\ pc = "quiet"
  /\ Cancel(Buy)
  /\ pc' = "abandoned"
  /\ UNCHANGED <<filled, events, readVars, order, qty, partial, foreign>>

\* Slips: the quantity is counted for any order's FILL, from the event onwards;
\* a partial fill is taken for the whole.
EntryEventAnyOrder ==
  /\ pc = "batch" /\ from < upto
  /\ Consume
  /\ qty' = IF Entry.kind = "FILL" THEN qty + Qty ELSE qty
  /\ UNCHANGED <<pc, brokerVars, events, upto, order, partial, foreign, failures>>

EntryEventPartialFills ==
  /\ pc = "batch" /\ from < upto
  /\ Consume
  /\ qty' = IF Entry.order = order THEN Qty ELSE qty
  /\ UNCHANGED <<pc, brokerVars, events, upto, order, partial, foreign, failures>>

\* Only FILL counts quantity; PARTIAL_FILL starts the grace period; a REJECT
\* abandons at once.
EntryEvent ==
  /\ pc = "batch" /\ from < upto
  /\ Consume
  /\ LET mine(kind) == Entry.order = order /\ Entry.kind = kind
     IN  /\ qty' = IF mine("FILL") THEN Qty ELSE qty
         /\ partial' = (partial \/ mine("PARTIAL_FILL"))
         /\ pc' = IF mine("REJECT") THEN "abandoned" ELSE pc
  /\ UNCHANGED <<brokerVars, events, upto, order, foreign, failures>>

EntryBatchDone ==
  /\ pc = "batch" /\ from = upto
  /\ pc' = IF qty > 0 THEN "finish" ELSE "top"
  /\ UNCHANGED <<brokerVars, events, readVars, order, qty, partial, foreign, failures>>

\* The grace period after a partial fill is over; looked at only after a read
\* that returned something.
EntryPartialGrace ==
  /\ pc = "batch" /\ from = upto
  /\ qty = 0 /\ partial
  /\ Cancel(Buy)
  /\ pc' = "finish"
  /\ UNCHANGED <<filled, events, readVars, order, qty, partial, foreign>>

EntryFilled ==
  /\ pc = "finish" /\ qty > 0
  /\ pc' = "held"
  /\ UNCHANGED <<brokerVars, events, readVars, order, qty, partial, foreign, failures>>

\* Slip: the timeout keeps cancelling instead of returning.
EntryOpenTimeoutRepeats ==
  /\ pc = "finish" /\ qty = 0
  /\ Cancel(Buy)
  /\ UNCHANGED <<pc, filled, events, readVars, order, qty, partial, foreign>>

EntryOpenTimeout ==
  /\ pc = "finish" /\ qty = 0
  /\ Cancel(Buy)
  /\ pc' = "abandoned"
  /\ UNCHANGED <<filled, events, readVars, order, qty, partial, foreign>>
-----------------------------------------------------------------------------
(* submit_and_complete_live.                                               *)

\* exit_eval decided.
DecideExit ==
  /\ pc = "held"
  /\ pc' = "exit_place"
  /\ UNCHANGED <<brokerVars, events, readVars, order, qty, partial, foreign, failures>>

ExitPlace(o) ==
  /\ pc = "exit_place"
  /\ FirstUnplaced(o)
  /\ Placed(o)
  /\ order' = o
  /\ last' = Latest
  /\ pc' = "exit_top"
  /\ UNCHANGED <<filled, events, from, upto, qty, partial, foreign, failures>>

\* The failure is logged as "retrying"; the loop starts with order_id "".
ExitPlaceFails(o) ==
  /\ pc = "exit_place"
  /\ FirstUnplaced(o)
  /\ PlaceFails(o)
  /\ order' = NoOrder
  /\ last' = Latest
  /\ pc' = "exit_top"
  /\ UNCHANGED <<filled, events, from, upto, qty, partial, foreign>>

ExitRead == pc = "exit_top" /\ BeginRead("exit_listen")
ExitReturn == pc = "exit_listen" /\ EndRead("exit_batch")

\* XREAD raised: sleep and go round.
ExitReadRaises == pc = "exit_listen" /\ ReadRaises("exit_top")

\* Nothing came: modify the price if the bid has moved, and go round.
ExitQuiet ==
  /\ pc = "exit_listen" /\ Len(events) = from
  /\ pc' = "exit_top"
  /\ UNCHANGED <<brokerVars, events, readVars, order, qty, partial, foreign, failures>>

\* order_id "" matches no event: the publisher always names an order.
Mine == order # NoOrder /\ Entry.order = order

ExitFill ==
  /\ pc = "exit_batch" /\ from < upto
  /\ Mine /\ Entry.kind = "FILL"
  /\ Consume
  /\ pc' = "closed"
  /\ UNCHANGED <<brokerVars, events, upto, order, qty, partial, foreign, failures>>

ExitIgnore ==
  /\ pc = "exit_batch" /\ from < upto
  /\ ~Mine \/ Entry.kind = "PARTIAL_FILL"
  /\ Consume
  /\ UNCHANGED <<pc, brokerVars, events, upto, order, qty, partial, foreign, failures>>

\* Slip: anything but a FILL makes the exit be placed again.
ExitRetryOnPartial(o) ==
  /\ pc = "exit_batch" /\ from < upto
  /\ Mine /\ Entry.kind # "FILL"
  /\ Consume
  /\ FirstUnplaced(o)
  /\ Placed(o)
  /\ order' = o
  /\ UNCHANGED <<pc, filled, events, upto, qty, partial, foreign, failures>>

\* A rejected exit is placed again; if that fails the old order_id stays.
ExitRetry(o) ==
  /\ pc = "exit_batch" /\ from < upto
  /\ Mine /\ Entry.kind = "REJECT"
  /\ Consume
  /\ FirstUnplaced(o)
  /\ Placed(o)
  /\ order' = o
  /\ UNCHANGED <<pc, filled, events, upto, qty, partial, foreign, failures>>

ExitRetryFails(o) ==
  /\ pc = "exit_batch" /\ from < upto
  /\ Mine /\ Entry.kind = "REJECT"
  /\ Consume
  /\ FirstUnplaced(o)
  /\ PlaceFails(o)
  /\ UNCHANGED <<pc, filled, events, upto, order, qty, partial, foreign>>

ExitBatchDone ==
  /\ pc = "exit_batch" /\ from = upto
  /\ pc' = "exit_top"
  /\ UNCHANGED <<brokerVars, events, readVars, order, qty, partial, foreign, failures>>
-----------------------------------------------------------------------------
Broker == \/ \E o \in Order : BrokerFill(o) \/ BrokerReject(o)
          \/ ForeignEvent

EntryStep ==
  \/ NoQuote \/ PlaceRejected \/ Place \/ EntryRead \/ EntryReturn
  \/ EntryReadRaises \/ EntryDeadline \/ EntryQuiet \/ EntryGoRound
  \/ EntryChaseCeiling \/ EntryEvent \/ EntryBatchDone
  \/ EntryPartialGrace \/ EntryFilled \/ EntryOpenTimeout

ExitStep ==
  \/ DecideExit
  \/ \E o \in Sell : \/ ExitPlace(o) \/ ExitPlaceFails(o)
                    \/ ExitRetry(o) \/ ExitRetryFails(o)
  \/ ExitRead \/ ExitReturn \/ ExitReadRaises \/ ExitQuiet \/ ExitFill
  \/ ExitIgnore \/ ExitBatchDone

Next == Broker \/ EntryStep \/ ExitStep

Spec == Init /\ [][Next]_vars

\* The worker keeps running, its clock reaches the deadline, and the broker
\* goes on filling an order that stays open.
FairSpec ==
  /\ Spec
  /\ WF_vars(EntryStep) /\ SF_vars(EntryDeadline) /\ WF_vars(ExitStep)
  /\ \A o \in Order : WF_vars(BrokerFill(o))
-----------------------------------------------------------------------------
SoldUpTo[n \in 0..MaxSells] == IF n = 0 THEN 0 ELSE filled[n] + SoldUpTo[n - 1]
Sold == SoldUpTo[MaxSells]
Working == {o \in Sell : status[o] = "open"}

\* The account never goes short: re-placing a rejected exit and reading stale
\* or foreign events never sells more than the entry bought, and two exits are
\* never working at once.
NeverShort ==
  /\ Sold <= filled[Buy]
  /\ \A o, n \in Working : o = n

\* What the worker believes it holds is what the broker bought for it, from the
\* moment the position exists to its close: nothing of the entry order can still
\* be bought behind its back, and at the close all of it is sold.
HeldQuantityTrue ==
  /\ pc \in ExitPc \cup {"held", "closed"} => status[Buy] = "filled"
  /\ pc \in ExitPc \cup {"held"} => qty = filled[Buy]
  /\ pc = "closed" => Sold = filled[Buy]

\* The entry decides: it is filled or abandoned, never left hanging.
EntryDecided == pc = "place" ~> pc \in {"held", "abandoned"}

\* exit_submit.py says exits never abandon and continue until FILLED: once an
\* exit is begun the position is closed.
ExitCompletes == pc = "exit_place" ~> pc = "closed"
=============================================================================
