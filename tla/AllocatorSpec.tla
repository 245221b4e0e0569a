--------------------------- MODULE AllocatorSpec ---------------------------
(***************************************************************************)
(* What engines/order_exec/allocator.py promises its callers: a ledger in  *)
(* which an index holds at most one reservation, at most MaxConcurrent     *)
(* indexes hold one, and the premium committed never exceeds Capital.      *)
(* Reserving and releasing are single indivisible steps here; Allocator    *)
(* shows that the WATCH / MULTI / EXEC code behaves as if they were.       *)
(***************************************************************************)
EXTENDS Naturals, FiniteSets

CONSTANTS Index,          \* the traded underlyings (state/keys.py INDEXES)
          Premium,        \* the premiums a signal may ask for, in rupees
          Capital,        \* risk config trading_capital_inr
          MaxConcurrent   \* risk config max_concurrent_positions

VARIABLES held,           \* held[i]: premium reserved for i, 0 when none is
          committed       \* the sum of all reservations

ledger == <<held, committed>>

Init == /\ held = [i \in Index |-> 0]
        /\ committed = 0

Reserve(i, m) ==
  /\ held[i] = 0
  /\ Cardinality({j \in Index : held[j] > 0}) < MaxConcurrent
  /\ committed + m <= Capital
  /\ held' = [held EXCEPT ![i] = m]
  /\ committed' = committed + m

Release(i) ==
  /\ held[i] > 0
  /\ held' = [held EXCEPT ![i] = 0]
  /\ committed' = committed - held[i]

Next == \/ \E i \in Index, m \in Premium : Reserve(i, m)
        \/ \E i \in Index : Release(i)

Spec == Init /\ [][Next]_ledger
=============================================================================
