-------------------------- MODULE LiveOrderProofs --------------------------
(***************************************************************************)
(* Proofs about the live entry and exit of a position for any quantity and *)
(* any number of re-placed exits, failures and foreign events: types, that *)
(* what the worker holds is what the broker bought, and that the account   *)
(* never goes short.                                                       *)
(***************************************************************************)
EXTENDS LiveOrder, TLAPS, SequenceTheorems, WellFoundedInduction

Says(o, kind) == [order |-> o, kind |-> kind]
Exiting == {"exit_top", "exit_listen", "exit_batch"}    \* an exit has been placed
Live == {"open", "filled", "cancelled"}

\* The events tell the truth about an order, and reject it once.
EventInv ==
  /\ \A i \in 1..Len(events), o \in Order :
       /\ events[i] = Says(o, "FILL") => status[o] = "filled"
       /\ events[i] = Says(o, "REJECT") => status[o] = "rejected"
  /\ \A i, j \in 1..Len(events), o \in Order :
       events[i] = Says(o, "REJECT") /\ events[j] = Says(o, "REJECT") => i = j

\* What an order's status says of the quantity done.
FillInv ==
  \A o \in Order :
    /\ status[o] \in {"none", "rejected"} => filled[o] = 0
    /\ status[o] = "open" => filled[o] < OrderQty(o)
    /\ status[o] = "filled" => filled[o] = OrderQty(o)

\* Where the worker is tells which order it knows, what it counts and which
\* orders it has placed.
PlaceInv ==
  /\ last # Latest => last = from
  /\ pc = "place" => status[Buy] = "none"
  /\ pc \in EntryPc \ {"place"} => order = Buy
  /\ pc \in Exiting => order # Buy
  /\ pc = "closed" => order \in Sell /\ status[order] = "filled"
  /\ pc \in ExitPc \cup {"held", "closed"} => qty # 0
  /\ qty # 0 => qty = Qty /\ status[Buy] = "filled"
  /\ \A o \in Sell : status[o] # "none" => pc \in Exiting \cup {"closed"}

\* One SELL order at most is working or done; and while the worker can still
\* read that the order it knows was rejected, no other one is.
Undecided ==
  \/ status[order] # "rejected"
  \/ \E i \in 1..Len(events) : i > from /\ events[i] = Says(order, "REJECT")

LiveInv ==
  /\ \A m, n \in Sell : status[m] \in Live /\ status[n] \in Live => m = n
  /\ order \in Sell /\ Undecided => \A n \in Sell \ {order} : status[n] \notin Live

LInv == TypeOK /\ EventInv /\ FillInv /\ PlaceInv /\ LiveInv
-----------------------------------------------------------------------------
(* What has been sold.                                                     *)

\* A property of the numbers up to n that fails somewhere fails somewhere first.
LEMMA FirstFailure ==
  ASSUME NEW S \in SUBSET Nat, S # {} PROVE \E x \in S : \A y \in S : x <= y
  <1> DEFINE R == OpToRel(<, Nat)
  <1>1. IsWellFoundedOn(R, Nat)
    BY NatLessThanWellFounded
  <1>2. R = {p \in Nat \X Nat : p[1] < p[2]}
    BY Zenon DEF OpToRel
  <1> HIDE DEF R
  <1>3. PICK x \in S : \A y \in S : ~(<<y, x>> \in R)
    BY <1>1, WFMin
  <1>4. ASSUME NEW y \in S PROVE x <= y
    <2>1. y < x => <<y, x>> \in R
      BY <1>2
    <2> QED
      BY <1>3, <2>1
  <1> QED
    BY <1>4

\* When one SELL order has done something, what it has done is what is sold.
LEMMA SoldFacts ==
  ASSUME filled \in [Order -> Nat], NEW x \in Sell, \A n \in Sell \ {x} : filled[n] = 0
  PROVE  Sold = filled[x]
  <1> DEFINE N == 0..MaxSells
             f == SoldUpTo
             g == [n \in N |-> IF n >= x THEN filled[x] ELSE 0]
             Step(h) == [n \in N |-> IF n = 0 THEN 0 ELSE filled[n] + h[n - 1]]
  <1>0. MaxSells \in Nat \ {0} /\ x \in Nat /\ 1 <= x /\ x <= MaxSells /\ filled[x] \in Nat
    BY LiveOrderAssumption DEF Sell, Order
  <1>1. \A n \in N : n # 0 => filled[n] = IF n = x THEN filled[x] ELSE 0
    BY <1>0 DEF Sell
  <1>2. g = Step(g)
    <2>1. ASSUME NEW n \in N PROVE g[n] = IF n = 0 THEN 0 ELSE filled[n] + g[n - 1]
      <3>1. CASE n = 0
        BY <1>0, <3>1
      <3>2. CASE n # 0
        <4>1. n - 1 \in N
          BY <1>0, <3>2
        <4> QED
          BY <1>0, <1>1, <3>2, <4>1
      <3> QED
        BY <3>1, <3>2
    <2> QED
      BY <2>1
  <1>3. f = Step(f)
    <2>1. f = CHOOSE h : h = Step(h)
      BY Zenon DEF SoldUpTo
    <2> HIDE DEF f, g, Step
    <2> QED
      BY <1>2, <2>1
  <1>4. \A n \in N : f[n] = g[n]
    <2> DEFINE B == {n \in N : f[n] # g[n]}
    <2> SUFFICES ASSUME B # {} PROVE FALSE
      OBVIOUS
    <2>1. B \in SUBSET Nat
      BY <1>0
    <2>2. PICK n \in B : \A m \in B : n <= m
      BY <2>1, FirstFailure
    <2>3. n \in N /\ f[n] # g[n]
      OBVIOUS
    <2>4. /\ f[n] = IF n = 0 THEN 0 ELSE filled[n] + f[n - 1]
          /\ g[n] = IF n = 0 THEN 0 ELSE filled[n] + g[n - 1]
      <3> HIDE DEF f, g
      <3> QED
        BY <1>2, <1>3, <2>3
    <2>5. n # 0 /\ n - 1 \in N
      BY <1>0, <2>3, <2>4
    <2>6. f[n - 1] = g[n - 1]
      <3>1. n - 1 \notin B
        BY <2>1, <2>2, <2>5
      <3> QED
        BY <2>5, <3>1
    <2> HIDE DEF f, g
    <2> QED
      BY <2>3, <2>4, <2>6
  <1>5. MaxSells \in N /\ g[MaxSells] = filled[x]
    BY <1>0
  <1> QED
    BY <1>4, <1>5 DEF Sold
-----------------------------------------------------------------------------
(* Steps that only move the worker.                                        *)

\* The numbers the types name.
LEMMA Numbers ==
  ASSUME TypeOK
  PROVE  /\ Qty \in Nat \ {0} /\ MaxSells \in Nat \ {0} /\ Len(events) \in Nat
         /\ from \in Nat /\ from <= Len(events) /\ upto \in Nat /\ upto <= Len(events)
         /\ Buy \in Order /\ Sell \subseteq Order /\ Buy \notin Sell
  BY LiveOrderAssumption, LenProperties DEF TypeOK, Order, Sell, Buy

\* What an unchanged stream says stays true while no decided order changes.
LEMMA EventQuiet ==
  ASSUME EventInv, events' = events,
         \A o \in Order : status[o] \in {"filled", "rejected"} => status'[o] = status[o]
  PROVE  EventInv'
  BY DEF EventInv

\* Nothing but the worker's place and what it has read changes.
LEMMA Calm ==
  ASSUME LInv, UNCHANGED <<status, filled, events, order, qty, partial, foreign>>,
         failures' \in 0..MaxFailures,
         pc' \in EntryPc \cup ExitPc \cup {"abandoned", "held", "closed"},
         from' \in 0..Len(events), from' >= from, upto' \in 0..Len(events),
         last' \in {Latest} \cup 1..Len(events)
  PROVE  TypeOK' /\ EventInv' /\ FillInv' /\ LiveInv'
  <1>1. TypeOK'
    BY DEF LInv, TypeOK
  <1>2. EventInv'
    BY EventQuiet DEF LInv
  <1>3. FillInv'
    BY DEF LInv, FillInv, OrderQty
  <1>4. LiveInv'
    <2>1. from \in Nat /\ Len(events) \in Nat
      BY Numbers DEF LInv
    <2>2. Undecided' => Undecided
      BY <2>1 DEF Undecided
    <2> QED
      BY <2>2 DEF LInv, LiveInv
  <1> QED
    BY <1>1, <1>2, <1>3, <1>4

\* The ways in which the worker moves on without touching an order.
Moves ==
  \/ pc \in EntryPc \ {"place"} /\ pc' \in EntryPc \ {"place"}
  \/ pc \in EntryPc /\ pc' = "abandoned"
  \/ pc = "finish" /\ qty > 0 /\ pc' = "held"
  \/ pc = "held" /\ pc' = "exit_place"
  \/ pc \in Exiting /\ pc' \in Exiting
  \/ pc = "exit_batch" /\ pc' = "closed" /\ order \in Sell /\ status[order] = "filled"

\* They keep the invariant.
LEMMA CalmMoves ==
  ASSUME LInv, Moves, UNCHANGED <<status, filled, events, order, qty, partial, foreign>>,
         failures' \in 0..MaxFailures,
         from' \in 0..Len(events), from' >= from, upto' \in 0..Len(events),
         last' \in {Latest} \cup 1..Len(events), last' # Latest => last' = from'
  PROVE  LInv'
  <1>1. pc' \in EntryPc \cup ExitPc \cup {"abandoned", "held", "closed"}
    BY DEF Moves, EntryPc, ExitPc, Exiting
  <1>2. TypeOK' /\ EventInv' /\ FillInv' /\ LiveInv'
    BY <1>1, Calm
  <1>3. TypeOK /\ PlaceInv
    BY DEF LInv
  <1>4. PlaceInv'
    <2>1. CASE pc \in EntryPc \ {"place"} /\ pc' \in EntryPc \ {"place"}
      BY <1>3, <2>1 DEF PlaceInv, EntryPc, ExitPc, Exiting
    <2>2. CASE pc \in EntryPc /\ pc' = "abandoned"
      BY <1>3, <2>2 DEF PlaceInv, EntryPc, ExitPc, Exiting
    <2>3. CASE pc = "finish" /\ qty > 0 /\ pc' = "held"
      BY <1>3, <2>3 DEF PlaceInv, EntryPc, ExitPc, Exiting
    <2>4. CASE pc = "held" /\ pc' = "exit_place"
      BY <1>3, <2>4 DEF PlaceInv, EntryPc, ExitPc, Exiting
    <2>5. CASE pc \in Exiting /\ pc' \in Exiting
      BY <1>3, <2>5 DEF PlaceInv, EntryPc, ExitPc, Exiting
    <2>6. CASE pc = "exit_batch" /\ pc' = "closed" /\ order \in Sell /\ status[order] = "filled"
      BY <1>3, <2>6 DEF PlaceInv, EntryPc, ExitPc, Exiting
    <2> QED
      BY <2>1, <2>2, <2>3, <2>4, <2>5, <2>6 DEF Moves
  <1> QED
    BY <1>2, <1>4 DEF LInv

\* A move that reads nothing.
LEMMA StillMoves ==
  ASSUME LInv, Moves, failures' \in 0..MaxFailures,
         UNCHANGED <<status, filled, events, order, qty, partial, foreign, from, upto, last>>
  PROVE  LInv'
  <1>1. /\ from \in 0..Len(events) /\ from >= from /\ upto \in 0..Len(events)
        /\ last \in {Latest} \cup 1..Len(events) /\ (last # Latest => last = from)
    BY Numbers DEF LInv, TypeOK, PlaceInv
  <1> QED
    BY <1>1, CalmMoves

\* XREAD is called, returns, or raises; an entry is consumed.
LEMMA ReadMoves ==
  ASSUME LInv, Moves, UNCHANGED <<status, filled, events, order, qty, partial, foreign>>,
         \/ BeginRead(pc') \/ EndRead(pc') \/ ReadRaises(pc')
         \/ from < upto /\ Consume /\ UNCHANGED <<upto, failures>>
  PROVE  LInv'
  <1>0. TypeOK /\ PlaceInv
    BY DEF LInv
  <1>1. /\ from \in Nat /\ from <= Len(events) /\ upto \in Nat /\ upto <= Len(events)
        /\ Len(events) \in Nat
    BY <1>0, Numbers
  <1>2. last \in {Latest} \cup 1..Len(events) /\ failures \in 0..MaxFailures
    BY <1>0 DEF TypeOK
  <1>3. last # Latest => last = from
    BY <1>0 DEF PlaceInv
  <1>4. CASE BeginRead(pc')
    <2>1. /\ from' = (IF last = Latest THEN Len(events) ELSE last)
          /\ UNCHANGED <<upto, last, failures>>
      BY <1>4 DEF BeginRead
    <2>2. from' \in 0..Len(events) /\ from' >= from /\ upto' \in 0..Len(events)
      BY <1>1, <1>2, <1>3, <2>1
    <2> QED
      BY <1>2, <2>1, <2>2, CalmMoves
  <1>5. CASE EndRead(pc')
    <2>1. upto' = Len(events) /\ UNCHANGED <<from, last, failures>>
      BY <1>5 DEF EndRead
    <2>2. from' \in 0..Len(events) /\ from' >= from /\ upto' \in 0..Len(events)
      BY <1>1, <2>1
    <2> QED
      BY <1>2, <1>3, <2>1, <2>2, CalmMoves
  <1>6. CASE ReadRaises(pc')
    <2>1. failures' \in 0..MaxFailures /\ UNCHANGED <<from, upto, last>>
      BY <1>2, <1>6, LiveOrderAssumption DEF ReadRaises, readVars
    <2> QED
      BY <2>1, StillMoves
  <1>7. CASE from < upto /\ Consume /\ UNCHANGED <<upto, failures>>
    <2>1. from' = from + 1 /\ last' = from'
      BY <1>7 DEF Consume
    <2>2. /\ from' \in 0..Len(events) /\ from' >= from /\ upto' \in 0..Len(events)
          /\ last' \in 1..Len(events)
      BY <1>1, <1>7, <2>1
    <2> QED
      BY <1>2, <1>7, <2>1, <2>2, CalmMoves
  <1> QED
    BY <1>4, <1>5, <1>6, <1>7
-----------------------------------------------------------------------------
(* Steps on an order.                                                      *)

\* place_order, whether the worker hears of it or not: the order is working or
\* was never taken.
LEMMA PlaceFacts ==
  ASSUME LInv, NEW o \in Order, status[o] = "none",
         status' = [status EXCEPT ![o] = "open"] \/ status' = status,
         UNCHANGED <<filled, events, qty>>, 0 < OrderQty(o)
  PROVE  /\ status' \in [Order -> Status] /\ EventInv' /\ FillInv'
         /\ \A n \in Order \ {o} : status'[n] = status[n]
         /\ status'[o] \in {"none", "open"}
  <1>1. status \in [Order -> Status] /\ EventInv /\ FillInv
    BY DEF LInv, TypeOK
  <1>2. /\ status' \in [Order -> Status] /\ status'[o] \in {"none", "open"}
        /\ \A n \in Order \ {o} : status'[n] = status[n]
    BY <1>1 DEF Status
  <1>3. EventInv'
    BY <1>1, <1>2, EventQuiet
  <1>4. FillInv'
    BY <1>1, <1>2 DEF FillInv, OrderQty
  <1> QED
    BY <1>2, <1>3, <1>4

\* The entry order is placed.
LEMMA PlaceBuy ==
  ASSUME LInv, Place \/ PlaceRejected PROVE LInv'
  <1>a. /\ TypeOK /\ EventInv /\ FillInv /\ PlaceInv /\ LiveInv /\ Buy \in Order /\ 0 < OrderQty(Buy)
        /\ Buy \notin Sell /\ Sell \subseteq Order
    BY Numbers DEF LInv, OrderQty
  <1>b. pc = "place" /\ status[Buy] = "none" /\ \A n \in Sell : status[n] = "none"
    BY <1>a DEF Place, PlaceRejected, PlaceInv, Exiting
  <1>1. /\ status' = [status EXCEPT ![Buy] = "open"] \/ status' = status
        /\ UNCHANGED <<filled, events, readVars, qty, partial, foreign>>
        /\ \/ pc' = "top" /\ order' = Buy
           \/ pc' = "abandoned" /\ order' = order
        /\ failures' \in 0..MaxFailures
    BY <1>a, LiveOrderAssumption DEF Place, PlaceRejected, Placed, PlaceFails, TypeOK
  <1>2. /\ status' \in [Order -> Status] /\ EventInv' /\ FillInv'
        /\ \A n \in Order \ {Buy} : status'[n] = status[n]
    BY <1>a, <1>b, <1>1, PlaceFacts
  <1>3. \A n \in Sell : status'[n] = "none"
    BY <1>a, <1>b, <1>2
  <1>4. TypeOK'
    BY <1>a, <1>1, <1>2 DEF TypeOK, EntryPc, readVars
  <1>5. PlaceInv'
    <2>1. qty = 0
      BY <1>a, <1>b DEF PlaceInv
    <2> QED
      BY <1>a, <1>1, <1>3, <2>1 DEF PlaceInv, EntryPc, ExitPc, Exiting, readVars
  <1>6. LiveInv'
    BY <1>3 DEF LiveInv, Live
  <1> QED
    BY <1>2, <1>4, <1>5, <1>6 DEF LInv

\* An exit is placed for the first time.
LEMMA PlaceSell ==
  ASSUME LInv, NEW o \in Sell, ExitPlace(o) \/ ExitPlaceFails(o) PROVE LInv'
  <1>a. /\ TypeOK /\ EventInv /\ FillInv /\ PlaceInv /\ LiveInv
        /\ Buy \notin Sell /\ Sell \subseteq Order /\ o # Buy
    BY Numbers DEF LInv
  <1>b. /\ pc = "exit_place" /\ status[o] = "none" /\ \A n \in Sell : status[n] = "none"
        /\ qty # 0 /\ qty = Qty /\ status[Buy] = "filled"
    BY <1>a DEF ExitPlace, ExitPlaceFails, FirstUnplaced, PlaceInv, ExitPc, Exiting
  <1>1. /\ status' = [status EXCEPT ![o] = "open"] \/ status' = status
        /\ UNCHANGED <<filled, events, from, upto, qty, partial, foreign>>
        /\ order' \in {o, NoOrder} /\ last' = Latest /\ pc' = "exit_top"
        /\ failures' \in 0..MaxFailures
    BY <1>a, LiveOrderAssumption DEF ExitPlace, ExitPlaceFails, Placed, PlaceFails, TypeOK
  <1>c. 0 < OrderQty(o)
    BY <1>a, <1>b, LiveOrderAssumption DEF OrderQty
  <1>2. /\ status' \in [Order -> Status] /\ EventInv' /\ FillInv'
        /\ \A n \in Order \ {o} : status'[n] = status[n]
    BY <1>a, <1>b, <1>c, <1>1, PlaceFacts
  <1>3. \A n \in Sell \ {o} : status'[n] = "none"
    BY <1>a, <1>b, <1>2
  <1>4. TypeOK'
    BY <1>a, <1>1, <1>2 DEF TypeOK, ExitPc
  <1>5. PlaceInv'
    <2>1. status'[Buy] = "filled" /\ order' # Buy
      BY <1>a, <1>b, <1>1, <1>2, Numbers DEF Buy, NoOrder
    <2> QED
      BY <1>b, <1>1, <2>1 DEF PlaceInv, EntryPc, ExitPc, Exiting
  <1>6. LiveInv'
    <2>1. NoOrder \notin Sell
      BY <1>a DEF NoOrder, Sell
    <2> QED
      BY <1>1, <1>3, <2>1 DEF LiveInv, Live
  <1> QED
    BY <1>2, <1>4, <1>5, <1>6 DEF LInv

\* A rejected exit is placed again.
LEMMA PlaceAgain ==
  ASSUME LInv, NEW o \in Sell, ExitRetry(o) \/ ExitRetryFails(o) PROVE LInv'
  <1>a. /\ TypeOK /\ EventInv /\ FillInv /\ PlaceInv /\ LiveInv
        /\ Buy \notin Sell /\ Sell \subseteq Order /\ o # Buy
    BY Numbers DEF LInv
  <1>b. /\ pc = "exit_batch" /\ from < upto /\ status[o] = "none" /\ from' = from + 1 /\ last' = from + 1
        /\ order # NoOrder /\ Entry.order = order /\ Entry.kind = "REJECT"
    BY DEF ExitRetry, ExitRetryFails, FirstUnplaced, Mine, Consume
  <1>c. qty # 0 /\ qty = Qty /\ status[Buy] = "filled" /\ order # Buy
    BY <1>a, <1>b DEF PlaceInv, ExitPc, Exiting
  <1>d. order \in Sell
    BY <1>a, <1>b, <1>c DEF TypeOK, Order
  <1>e. /\ from \in Nat /\ upto \in Nat /\ upto <= Len(events) /\ Len(events) \in Nat
        /\ from + 1 \in 1..Len(events)
    BY <1>a, <1>b, Numbers
  <1>f. Entry = Says(order, "REJECT") /\ Entry = events[from + 1]
    <2>1. events[from + 1] \in Event
      BY <1>a, <1>e, ElementOfSeq DEF TypeOK
    <2> QED
      BY <1>b, <2>1 DEF Entry, Event, Says
  <1>g. status[order] = "rejected" /\ Undecided
    BY <1>a, <1>d, <1>e, <1>f DEF EventInv, Undecided
  <1>h. \A n \in Sell : status[n] \notin Live
    BY <1>a, <1>d, <1>g DEF LiveInv, Live
  <1>1. /\ status' = [status EXCEPT ![o] = "open"] \/ status' = status
        /\ UNCHANGED <<pc, filled, events, upto, qty, partial, foreign>>
        /\ order' \in {o, order} /\ failures' \in 0..MaxFailures
    BY <1>a, LiveOrderAssumption DEF ExitRetry, ExitRetryFails, Placed, PlaceFails, TypeOK
  <1>i. 0 < OrderQty(o)
    BY <1>a, <1>c, LiveOrderAssumption DEF OrderQty
  <1>2. /\ status' \in [Order -> Status] /\ EventInv' /\ FillInv'
        /\ \A n \in Order \ {o} : status'[n] = status[n]
        /\ status'[o] \in {"none", "open"}
    BY <1>a, <1>b, <1>i, <1>1, PlaceFacts
  <1>3. \A n \in Sell \ {o} : status'[n] \notin Live
    BY <1>a, <1>h, <1>2
  <1>4. TypeOK'
    <2>1. from' \in 0..Len(events) /\ last' \in 1..Len(events)
      BY <1>b, <1>e
    <2> QED
      BY <1>a, <1>d, <1>1, <1>2, <2>1 DEF TypeOK
  <1>5. PlaceInv'
    <2>1. status'[Buy] = "filled" /\ order' # Buy /\ last' = from' /\ pc' = "exit_batch"
      BY <1>a, <1>b, <1>c, <1>1, <1>2, Numbers
    <2> QED
      BY <1>c, <1>1, <2>1 DEF PlaceInv, EntryPc, ExitPc, Exiting
  <1>6. LiveInv'
    <2>1. CASE order' = o
      BY <1>3, <2>1 DEF LiveInv
    <2>2. CASE order' = order /\ order # o
      <3>1. status'[order] = "rejected"
        BY <1>a, <1>d, <1>g, <1>2, <2>2
      <3>2. \A i \in 1..Len(events) : events[i] = Says(order, "REJECT") => i = from + 1
        BY <1>a, <1>d, <1>e, <1>f DEF EventInv
      <3>3. ~Undecided'
        BY <1>1, <1>b, <1>e, <2>2, <3>1, <3>2 DEF Undecided
      <3> QED
        BY <1>3, <3>3 DEF LiveInv
    <2> QED
      BY <1>1, <2>1, <2>2
  <1> QED
    BY <1>2, <1>4, <1>5, <1>6 DEF LInv

\* The entry order is cancelled, or too late, or the broker does not answer.
LEMMA CancelBuy ==
  ASSUME LInv, EntryChaseCeiling \/ EntryPartialGrace \/ EntryOpenTimeout PROVE LInv'
  <1>a. /\ TypeOK /\ EventInv /\ FillInv /\ PlaceInv /\ LiveInv
        /\ Buy \notin Sell /\ Sell \subseteq Order /\ Buy \in Order
    BY Numbers DEF LInv
  <1>b. pc \in EntryPc \ {"place"} /\ pc' \in {"abandoned", "finish"}
    BY DEF EntryChaseCeiling, EntryPartialGrace, EntryOpenTimeout, EntryPc
  <1>1. /\ Cancel(Buy) /\ UNCHANGED <<filled, events, readVars, order, qty, partial, foreign>>
    BY DEF EntryChaseCeiling, EntryPartialGrace, EntryOpenTimeout
  <1>2. /\ status' \in [Order -> Status] /\ failures' \in 0..MaxFailures
        /\ \A n \in Order \ {Buy} : status'[n] = status[n]
        /\ status'[Buy] = status[Buy] \/ (status[Buy] = "open" /\ status'[Buy] = "cancelled")
    BY <1>a, <1>1, LiveOrderAssumption DEF Cancel, TypeOK, Status
  <1>3. \A n \in Sell : status[n] = "none" /\ status'[n] = "none"
    BY <1>a, <1>b, <1>2 DEF PlaceInv, EntryPc, Exiting
  <1>4. EventInv'
    BY <1>a, <1>1, <1>2, EventQuiet
  <1>5. FillInv'
    BY <1>a, <1>1, <1>2 DEF FillInv, OrderQty
  <1>6. TypeOK'
    BY <1>a, <1>b, <1>1, <1>2 DEF TypeOK, EntryPc, readVars
  <1>7. PlaceInv'
    BY <1>a, <1>b, <1>1, <1>2, <1>3 DEF PlaceInv, EntryPc, ExitPc, Exiting, readVars
  <1>8. LiveInv'
    BY <1>3 DEF LiveInv, Live
  <1> QED
    BY <1>4, <1>5, <1>6, <1>7, <1>8 DEF LInv

\* The worker reads an event while it enters.
LEMMA ReadEntry ==
  ASSUME LInv, EntryEvent PROVE LInv'
  <1>a. /\ TypeOK /\ EventInv /\ FillInv /\ PlaceInv /\ LiveInv
        /\ Buy \notin Sell /\ Sell \subseteq Order /\ Buy \in Order
    BY Numbers DEF LInv
  <1>b. /\ pc = "batch" /\ from < upto /\ from' = from + 1 /\ last' = from + 1
        /\ UNCHANGED <<status, filled, events, upto, order, foreign, failures>>
    BY DEF EntryEvent, Consume, brokerVars
  <1>c. order = Buy /\ \A n \in Sell : status[n] = "none"
    BY <1>a, <1>b DEF PlaceInv, EntryPc, Exiting
  <1>d. /\ from \in Nat /\ upto \in Nat /\ upto <= Len(events) /\ Len(events) \in Nat
        /\ from + 1 \in 1..Len(events)
    BY <1>a, <1>b, Numbers
  <1>e. events[from + 1] \in Event
    BY <1>a, <1>d, ElementOfSeq DEF TypeOK
  <1>1. /\ qty' = qty \/ (qty' = Qty /\ Entry.order = order /\ Entry.kind = "FILL")
        /\ partial' = (partial \/ (Entry.order = order /\ Entry.kind = "PARTIAL_FILL"))
        /\ pc' \in {"batch", "abandoned"}
    BY <1>b DEF EntryEvent
  <1>2. qty' = qty \/ (qty' = Qty /\ status[Buy] = "filled")
    <2>1. ASSUME Entry.order = order, Entry.kind = "FILL" PROVE status[Buy] = "filled"
      <3>1. events[from + 1] = Says(Buy, "FILL")
        BY <1>c, <1>e, <2>1 DEF Entry, Event, Says
      <3> QED
        BY <1>a, <1>d, <3>1 DEF EventInv
    <2> QED
      BY <1>1, <2>1
  <1>3. TypeOK'
    <2>1. from' \in 0..Len(events) /\ last' \in 1..Len(events)
      BY <1>b, <1>d
    <2>2. qty' \in 0..Qty
      BY <1>a, <1>2, LiveOrderAssumption DEF TypeOK
    <2>3. partial' \in BOOLEAN
      BY <1>1, <1>a DEF TypeOK
    <2> QED
      BY <1>a, <1>b, <1>1, <2>1, <2>2, <2>3 DEF TypeOK, EntryPc
  <1>4. EventInv'
    BY <1>a, <1>b, EventQuiet
  <1>5. FillInv'
    <2>1. \A n \in Order : n # Buy => n \in Sell
      BY DEF Order
    <2> QED
      BY <1>a, <1>b, <1>c, <2>1 DEF FillInv, OrderQty
  <1>6. PlaceInv'
    BY <1>a, <1>b, <1>c, <1>1, <1>2 DEF PlaceInv, EntryPc, ExitPc, Exiting
  <1>7. LiveInv'
    BY <1>b, <1>c DEF LiveInv, Live
  <1> QED
    BY <1>3, <1>4, <1>5, <1>6, <1>7 DEF LInv

\* An entry is added to the stream.
LEMMA PublishFacts ==
  ASSUME TypeOK, NEW o \in Order \cup {NoOrder},
         NEW kind \in {"FILL", "PARTIAL_FILL", "REJECT"}, Publish(o, kind)
  PROVE  /\ events' \in Seq(Event) /\ Len(events) \in Nat /\ Len(events') = Len(events) + 1
         /\ \A i \in 1..Len(events') :
              \/ i \in 1..Len(events) /\ events'[i] = events[i]
              \/ i = Len(events) + 1 /\ events'[i] = Says(o, kind)
         /\ \A i \in 1..Len(events) : i \in 1..Len(events') /\ events'[i] = events[i]
         /\ 0..Len(events) \subseteq 0..Len(events') /\ 1..Len(events) \subseteq 1..Len(events')
  <1> DEFINE e == Says(o, kind)
  <1>1. events \in Seq(Event) /\ Len(events) \in Nat /\ e \in Event
    BY LenProperties DEF TypeOK, Says, Event
  <1>2. events' = Append(events, e)
    BY DEF Publish, Says
  <1> HIDE DEF e
  <1>3. /\ events' \in Seq(Event) /\ Len(events') = Len(events) + 1
        /\ \A i \in 1..Len(events) : events'[i] = events[i]
        /\ events'[Len(events) + 1] = e
    BY <1>1, <1>2, AppendProperties
  <1>4. \A i \in 1..Len(events') : i \in 1..Len(events) \/ i = Len(events) + 1
    BY <1>1, <1>3
  <1>5. 0..Len(events) \subseteq 0..Len(events') /\ 1..Len(events) \subseteq 1..Len(events')
    BY <1>1, <1>3
  <1> QED
    BY <1>1, <1>3, <1>4, <1>5 DEF e

\* An event keeps the stream true when it is: when the order it names is as it
\* says, was working before, and no decided order changed.
LEMMA EventTold ==
  ASSUME TypeOK, EventInv, NEW o \in Order \cup {NoOrder},
         NEW kind \in {"FILL", "PARTIAL_FILL", "REJECT"}, Publish(o, kind),
         \A n \in Order : status[n] \in {"filled", "rejected"} => status'[n] = status[n],
         o \in Order /\ kind = "FILL" => status'[o] = "filled",
         o \in Order /\ kind = "REJECT" => status'[o] = "rejected" /\ status[o] = "open"
  PROVE  EventInv'
  <1>1. /\ \A i \in 1..Len(events') :
              \/ i \in 1..Len(events) /\ events'[i] = events[i]
              \/ i = Len(events) + 1 /\ events'[i] = Says(o, kind)
    BY PublishFacts
  <1>2. \A n, k : Says(o, kind) = Says(n, k) => o = n /\ kind = k
    BY DEF Says
  <1>3. ASSUME NEW i \in 1..Len(events'), NEW n \in Order
        PROVE  /\ events'[i] = Says(n, "FILL") => status'[n] = "filled"
               /\ events'[i] = Says(n, "REJECT") => status'[n] = "rejected"
    <2>1. CASE i \in 1..Len(events) /\ events'[i] = events[i]
      BY <2>1 DEF EventInv
    <2>2. CASE i = Len(events) + 1 /\ events'[i] = Says(o, kind)
      BY <1>2, <2>2
    <2> QED
      BY <1>1, <2>1, <2>2
  <1>4. ASSUME NEW i \in 1..Len(events'), NEW j \in 1..Len(events'), NEW n \in Order,
               events'[i] = Says(n, "REJECT"), events'[j] = Says(n, "REJECT")
        PROVE  i = j
    <2>1. ASSUME NEW k \in 1..Len(events), events[k] = Says(n, "REJECT") PROVE status[n] = "rejected"
      BY <2>1 DEF EventInv
    <2>2. CASE i \in 1..Len(events) /\ j \in 1..Len(events)
      <3>1. events[i] = Says(n, "REJECT") /\ events[j] = Says(n, "REJECT")
        BY <1>4, <2>2, PublishFacts
      <3> QED
        BY <2>2, <3>1 DEF EventInv
    <2>3. CASE i \in 1..Len(events) /\ j = Len(events) + 1 /\ events'[j] = Says(o, kind)
      <3>1. events[i] = Says(n, "REJECT")
        BY <1>4, <2>3, PublishFacts
      <3>2. o = n /\ kind = "REJECT"
        BY <1>2, <1>4, <2>3
      <3> QED
        BY <2>1, <2>3, <3>1, <3>2
    <2>4. CASE j \in 1..Len(events) /\ i = Len(events) + 1 /\ events'[i] = Says(o, kind)
      <3>1. events[j] = Says(n, "REJECT")
        BY <1>4, <2>4, PublishFacts
      <3>2. o = n /\ kind = "REJECT"
        BY <1>2, <1>4, <2>4
      <3> QED
        BY <2>1, <2>4, <3>1, <3>2
    <2> QED
      BY <1>1, <2>2, <2>3, <2>4
  <1> QED
    BY <1>3, <1>4 DEF EventInv

\* A step of the broker: it tells of one order, which was working, and the
\* worker does nothing.
LEMMA BrokerTells ==
  ASSUME LInv, NEW o \in Order \cup {NoOrder},
         NEW kind \in {"FILL", "PARTIAL_FILL", "REJECT"}, Publish(o, kind),
         UNCHANGED <<pc, readVars, order, qty, partial>>,
         foreign' \in 0..MaxForeign, failures' \in 0..MaxFailures,
         status' \in [Order -> Status], filled' \in [Order -> 0..Qty], FillInv',
         \A n \in Order : \/ status'[n] = status[n]
                          \/ n = o /\ status[n] = "open" /\ status'[n] \in {"filled", "rejected"},
         o \in Order /\ kind = "FILL" => status'[o] = "filled",
         o \in Order /\ kind = "REJECT" => status'[o] = "rejected" /\ status[o] = "open"
  PROVE  LInv'
  <1>a. TypeOK /\ EventInv /\ PlaceInv /\ LiveInv /\ Sell \subseteq Order /\ Buy \in Order
    BY Numbers DEF LInv
  <1>1. TypeOK'
    <2>1. events' \in Seq(Event) /\ 0..Len(events) \subseteq 0..Len(events')
          /\ 1..Len(events) \subseteq 1..Len(events')
      BY <1>a, PublishFacts
    <2> QED
      BY <1>a, <2>1 DEF TypeOK, readVars
  <1>2. EventInv'
    BY <1>a, EventTold
  <1>3. PlaceInv'
    BY <1>a DEF PlaceInv, readVars
  <1>4. LiveInv'
    <2>1. \A n \in Sell : status'[n] \in Live => status[n] \in Live
      BY <1>a DEF Live
    <2>2. ASSUME order \in Sell, Undecided' PROVE Undecided
      <3>1. CASE status'[order] # "rejected"
        BY <1>a, <2>2, <3>1 DEF Undecided
      <3>2. ASSUME NEW i \in 1..Len(events'), i > from, events'[i] = Says(order, "REJECT")
            PROVE  Undecided
        <4>1. CASE i \in 1..Len(events) /\ events'[i] = events[i]
          BY <3>2, <4>1 DEF Undecided
        <4>2. CASE events'[i] = Says(o, kind)
          <5>1. o = order /\ kind = "REJECT"
            BY <3>2, <4>2 DEF Says
          <5> QED
            BY <1>a, <2>2, <5>1 DEF Undecided
        <4> QED
          BY <1>a, <4>1, <4>2, PublishFacts
      <3> QED
        BY <2>2, <3>1, <3>2 DEF Undecided, readVars
    <2> QED
      BY <1>a, <2>1, <2>2 DEF LiveInv
  <1> QED
    BY <1>1, <1>2, <1>3, <1>4 DEF LInv

\* The broker, and other positions' orders.
LEMMA BrokerStep == LInv /\ Broker => LInv'
  <1> SUFFICES ASSUME LInv, Broker PROVE LInv'
    OBVIOUS
  <1>a. /\ TypeOK /\ FillInv /\ PlaceInv /\ Qty \in Nat \ {0}
        /\ status \in [Order -> Status] /\ filled \in [Order -> 0..Qty]
        /\ foreign \in 0..MaxForeign /\ failures \in 0..MaxFailures
    BY Numbers DEF LInv, TypeOK
  <1>b. \A o \in Order : OrderQty(o) \in 0..Qty
    BY <1>a DEF OrderQty, TypeOK
  <1>1. ASSUME NEW o \in Order, BrokerFill(o) PROVE LInv'
    <2>1. /\ status[o] = "open" /\ filled' = [filled EXCEPT ![o] = @ + 1]
          /\ UNCHANGED <<pc, readVars, order, qty, partial, foreign, failures>>
      BY <1>1 DEF BrokerFill
    <2>2. filled[o] \in Nat /\ filled[o] < OrderQty(o) /\ filled[o] + 1 \in 0..Qty
      BY <1>a, <1>b, <2>1 DEF FillInv
    <2>3. filled' \in [Order -> 0..Qty]
      BY <1>a, <2>1, <2>2
    <2>4. CASE filled[o] + 1 = OrderQty(o)
      <3>1. Publish(o, "FILL") /\ status' = [status EXCEPT ![o] = "filled"]
        BY <1>1, <2>4 DEF BrokerFill
      <3>2. /\ status' \in [Order -> Status] /\ status'[o] = "filled"
            /\ \A n \in Order \ {o} : status'[n] = status[n]
        BY <1>a, <3>1 DEF Status
      <3>3. FillInv'
        BY <1>a, <2>1, <2>4, <3>2 DEF FillInv, OrderQty
      <3> QED
        BY <1>a, <2>1, <2>3, <3>1, <3>2, <3>3, BrokerTells
    <2>5. CASE filled[o] + 1 # OrderQty(o)
      <3>1. Publish(o, "PARTIAL_FILL") /\ status' = status
        BY <1>1, <2>5 DEF BrokerFill
      <3>2. filled[o] + 1 < OrderQty(o)
        BY <1>b, <2>2, <2>5
      <3>3. FillInv'
        BY <1>a, <2>1, <3>1, <3>2 DEF FillInv, OrderQty
      <3> QED
        BY <1>a, <2>1, <2>3, <3>1, <3>3, BrokerTells
    <2> QED
      BY <2>4, <2>5
  <1>2. ASSUME NEW o \in Order, BrokerReject(o) PROVE LInv'
    <2>1. /\ status[o] = "open" /\ filled[o] = 0 /\ failures' \in 0..MaxFailures
          /\ status' = [status EXCEPT ![o] = "rejected"] /\ Publish(o, "REJECT")
          /\ UNCHANGED <<pc, filled, readVars, order, qty, partial, foreign>>
      BY <1>a, <1>2, LiveOrderAssumption DEF BrokerReject
    <2>2. /\ status' \in [Order -> Status] /\ status'[o] = "rejected"
          /\ \A n \in Order \ {o} : status'[n] = status[n]
      BY <1>a, <2>1 DEF Status
    <2>3. FillInv'
      BY <1>a, <2>1, <2>2 DEF FillInv, OrderQty
    <2> QED
      BY <1>a, <2>1, <2>2, <2>3, BrokerTells
  <1>3. CASE ForeignEvent
    <2>1. /\ foreign' \in 0..MaxForeign /\ Publish(NoOrder, "FILL")
          /\ UNCHANGED <<pc, status, filled, readVars, order, qty, partial, failures>>
      BY <1>a, <1>3, LiveOrderAssumption DEF ForeignEvent, brokerVars
    <2>2. FillInv'
      BY <1>a, <2>1 DEF FillInv, OrderQty
    <2>3. NoOrder \notin Order
      BY DEF NoOrder, Order, Buy, Sell
    <2> QED
      BY <1>a, <2>1, <2>2, <2>3, BrokerTells
  <1> QED
    BY <1>1, <1>2, <1>3 DEF Broker
-----------------------------------------------------------------------------
(* The theorems.                                                           *)

\* Nothing is placed yet.
LEMMA InitLInv == Init => LInv
  <1> SUFFICES ASSUME Init PROVE LInv
    OBVIOUS
  <1>0. <<>> \in Seq(Event) /\ Len(<<>>) = 0 /\ Qty \in Nat
    BY LiveOrderAssumption
  <1>1. TypeOK
    <2>1. status \in [Order -> Status] /\ filled \in [Order -> 0..Qty]
      BY <1>0 DEF Init, Status
    <2>2. events \in Seq(Event) /\ from \in 0..Len(events) /\ upto \in 0..Len(events)
      BY <1>0 DEF Init
    <2>3. qty \in 0..Qty /\ foreign \in 0..MaxForeign /\ failures \in 0..MaxFailures
      BY <1>0, LiveOrderAssumption DEF Init
    <2> QED
      BY <2>1, <2>2, <2>3 DEF Init, TypeOK, EntryPc
  <1>2. EventInv
    BY <1>0 DEF Init, EventInv
  <1>3. FillInv
    BY DEF Init, FillInv
  <1>4. PlaceInv
    BY LiveOrderAssumption DEF Init, PlaceInv, EntryPc, ExitPc, Exiting, Order, Buy
  <1>5. LiveInv
    BY DEF Init, LiveInv, Live, Order
  <1> QED
    BY <1>1, <1>2, <1>3, <1>4, <1>5 DEF LInv

\* Every step of the worker and of the broker preserves the invariant.
LEMMA NextLInv == LInv /\ [Next]_vars => LInv'
  <1> SUFFICES ASSUME LInv, [Next]_vars PROVE LInv'
    OBVIOUS
  <1>a. TypeOK /\ EventInv /\ PlaceInv /\ failures \in 0..MaxFailures
    BY DEF LInv, TypeOK
  <1> USE DEF brokerVars, readVars
  <1>1. CASE NoQuote \/ EntryDeadline \/ EntryQuiet \/ EntryGoRound \/ EntryBatchDone \/ EntryFilled
    <2>1. /\ Moves /\ failures' = failures
          /\ UNCHANGED <<status, filled, events, order, qty, partial, foreign, from, upto, last>>
      BY <1>1 DEF NoQuote, EntryDeadline, EntryQuiet, EntryGoRound, EntryBatchDone, EntryFilled,
         Moves, EntryPc
    <2> QED
      BY <1>a, <2>1, StillMoves
  <1>2. CASE DecideExit \/ ExitQuiet \/ ExitBatchDone
    <2>1. /\ Moves /\ failures' = failures
          /\ UNCHANGED <<status, filled, events, order, qty, partial, foreign, from, upto, last>>
      BY <1>2 DEF DecideExit, ExitQuiet, ExitBatchDone, Moves, Exiting
    <2> QED
      BY <1>a, <2>1, StillMoves
  <1>3. CASE EntryRead \/ EntryReturn \/ EntryReadRaises \/ ExitRead \/ ExitReturn \/ ExitReadRaises
    <2>1. /\ Moves /\ UNCHANGED <<status, filled, events, order, qty, partial, foreign>>
          /\ BeginRead(pc') \/ EndRead(pc') \/ ReadRaises(pc')
      BY <1>3 DEF EntryRead, EntryReturn, EntryReadRaises, ExitRead, ExitReturn, ExitReadRaises,
         BeginRead, EndRead, ReadRaises, Moves, EntryPc, Exiting
    <2> QED
      BY <2>1, ReadMoves
  <1>4. CASE ExitIgnore \/ ExitFill
    <2>1. /\ from < upto /\ Consume /\ UNCHANGED <<upto, failures>>
          /\ UNCHANGED <<status, filled, events, order, qty, partial, foreign>>
          /\ pc = "exit_batch"
          /\ \/ pc' = pc
             \/ pc' = "closed" /\ Mine /\ Entry.kind = "FILL"
      BY <1>4 DEF ExitIgnore, ExitFill
    <2>2. ASSUME Mine, Entry.kind = "FILL" PROVE order \in Sell /\ status[order] = "filled"
      <3>1. order \in Sell
        BY <1>a, <2>1, <2>2 DEF TypeOK, Order, Mine, PlaceInv, Exiting
      <3>2. from + 1 \in 1..Len(events)
        BY <1>a, <2>1, Numbers
      <3>3. events[from + 1] \in Event
        BY <1>a, <3>2, ElementOfSeq DEF TypeOK
      <3>4. events[from + 1] = Says(order, "FILL")
        BY <2>2, <3>3 DEF Mine, Entry, Event, Says
      <3> QED
        BY <1>a, <3>1, <3>2, <3>4 DEF EventInv, Order
    <2>3. Moves
      BY <2>1, <2>2 DEF Moves, Exiting
    <2> QED
      BY <2>1, <2>3, ReadMoves
  <1>5. CASE UNCHANGED vars
    BY <1>5 DEF vars, LInv, TypeOK, EventInv, FillInv, PlaceInv, LiveInv, Undecided, OrderQty
  <1>6. CASE EntryStep
    BY <1>6, <1>1, <1>3, PlaceBuy, CancelBuy, ReadEntry DEF EntryStep
  <1>7. CASE ExitStep
    BY <1>7, <1>2, <1>3, <1>4, PlaceSell, PlaceAgain DEF ExitStep
  <1> QED
    BY <1>5, <1>6, <1>7, BrokerStep DEF Next

\* The invariant holds of every behaviour.
THEOREM AlwaysLInv == Spec => []LInv
  BY InitLInv, NextLInv, PTL DEF Spec

\* Types: the broker's orders, the stream, and what the worker knows.
THEOREM AlwaysTypeOK == Spec => []TypeOK
  <1>1. LInv => TypeOK
    BY DEF LInv
  <1> QED
    BY <1>1, AlwaysLInv, PTL

\* What one SELL order has done is all that is sold, and no more than was bought.
LEMMA SoldOnce ==
  ASSUME LInv
  PROVE  /\ Sold <= filled[Buy]
         /\ \A x \in Sell : status[x] \in Live => Sold = filled[x]
  <1>a. TypeOK /\ FillInv /\ PlaceInv /\ LiveInv /\ Buy \in Order /\ Sell \subseteq Order /\ Buy \notin Sell
    BY Numbers DEF LInv
  <1>b. filled \in [Order -> 0..Qty] /\ filled \in [Order -> Nat] /\ status \in [Order -> Status]
    BY <1>a, LiveOrderAssumption DEF TypeOK
  <1>c. \A n \in Sell : status[n] \notin Live => filled[n] = 0
    BY <1>a, <1>b DEF FillInv, Live, Status
  <1>1. ASSUME NEW x \in Sell, status[x] \in Live PROVE Sold = filled[x]
    <2>1. \A n \in Sell \ {x} : filled[n] = 0
      BY <1>a, <1>c, <1>1 DEF LiveInv
    <2> QED
      BY <1>b, <2>1, SoldFacts
  <1>2. Sold <= filled[Buy]
    <2>1. CASE \E x \in Sell : status[x] \in Live
      <3>1. PICK x \in Sell : status[x] \in Live
        BY <2>1
      <3>2. qty = Qty /\ status[Buy] = "filled"
        BY <1>a, <3>1 DEF PlaceInv, Live, ExitPc, Exiting
      <3>3. filled[Buy] = Qty
        BY <1>a, <3>2 DEF FillInv, OrderQty
      <3>4. filled[x] <= Qty
        BY <1>a, <1>b, <3>1, LiveOrderAssumption
      <3> QED
        BY <1>1, <3>1, <3>3, <3>4
    <2>2. CASE \A x \in Sell : status[x] \notin Live
      <3>1. 1 \in Sell
        BY LiveOrderAssumption DEF Sell
      <3>2. Sold = 0
        BY <1>b, <1>c, <2>2, <3>1, SoldFacts
      <3> QED
        BY <1>a, <1>b, <3>2
    <2> QED
      BY <2>1, <2>2
  <1> QED
    BY <1>1, <1>2

\* The account never goes short (exit_submit.py), however often the exit is
\* rejected and placed again, and whether or not the worker heard of it.
THEOREM AlwaysNeverShort == Spec => []NeverShort
  <1>1. LInv => NeverShort
    <2> SUFFICES ASSUME LInv PROVE NeverShort
      OBVIOUS
    <2>1. Sold <= filled[Buy]
      BY SoldOnce
    <2>2. \A o, n \in Working : o = n
      BY DEF LInv, LiveInv, Working, Live
    <2> QED
      BY <2>1, <2>2 DEF NeverShort
  <1> QED
    BY <1>1, AlwaysLInv, PTL

\* What the worker holds is what the broker bought, and is sold at the close.
THEOREM AlwaysHeldQuantityTrue == Spec => []HeldQuantityTrue
  <1>1. LInv => HeldQuantityTrue
    <2> SUFFICES ASSUME LInv PROVE HeldQuantityTrue
      OBVIOUS
    <2>a. TypeOK /\ FillInv /\ PlaceInv /\ Buy \in Order /\ Sell \subseteq Order /\ Buy \notin Sell
      BY Numbers DEF LInv
    <2>1. ASSUME pc \in ExitPc \cup {"held", "closed"}
          PROVE  status[Buy] = "filled" /\ qty = Qty /\ filled[Buy] = Qty
      BY <2>1, <2>a DEF PlaceInv, FillInv, OrderQty
    <2>2. ASSUME pc = "closed" PROVE Sold = filled[Buy]
      <3>1. order \in Sell /\ status[order] = "filled"
        BY <2>2, <2>a DEF PlaceInv
      <3>2. Sold = filled[order]
        BY <3>1, SoldOnce DEF Live
      <3>3. filled[order] = qty
        BY <2>a, <3>1 DEF FillInv, OrderQty
      <3> QED
        BY <2>1, <2>2, <3>2, <3>3
    <2> QED
      BY <2>1, <2>2 DEF HeldQuantityTrue
  <1> QED
    BY <1>1, AlwaysLInv, PTL
=============================================================================
