----------------------------- MODULE Allocator -----------------------------
(***************************************************************************)
(* engines/order_exec/allocator.py: the shared ledger in Redis from which  *)
(* every order_exec worker thread reserves premium before it buys, and the *)
(* optimistic WATCH / read / read / read / MULTI / EXEC transaction that   *)
(* check_and_reserve runs on it.  Each Redis command is one step, so the   *)
(* reads of one caller interleave with the commits of the others.          *)
(*                                                                         *)
(* redis-py's transaction() restarts the callback whenever EXEC finds a    *)
(* watched key changed, and it does so without a bound: the five attempts  *)
(* of allocator.py's own loop are never used up, so neither is modelled as *)
(* a counter.  A connection that breaks after Redis ran EXEC and before    *)
(* the reply arrives leaves the reservation in place while the caller is   *)
(* told it failed (LoseReply), and a release whose pipeline raises is      *)
(* logged and forgotten, so the worker goes on without its index while the *)
(* ledger still counts it (ReleaseFails).                                  *)
(***************************************************************************)
EXTENDS Integers, FiniteSets

CONSTANTS Worker,         \* the threads of the worker pool
          Index, Premium, Capital, MaxConcurrent,
          NoIndex         \* the value of `index` outside a call

\* pre_entry_gate.check_and_reserve refuses a capital or a concurrency cap
\* that is not positive, and a premium that is not positive, before it calls
\* the allocator.
ASSUME AllocatorAssumption ==
  /\ IsFiniteSet(Index)
  /\ NoIndex \notin Index
  /\ Premium \subseteq Nat \ {0}
  /\ Capital \in Nat \ {0}
  /\ MaxConcurrent \in Nat \ {0}

VARIABLES
  deployed,       \* orders:allocator:deployed[index]
  deployedTotal,  \* orders:allocator:deployed["total"]
  openCount,      \* orders:allocator:open_count[index]
  openTotal,      \* orders:allocator:open_count["total"]
  openSymbols,    \* orders:allocator:open_symbols
  pc,             \* the command each worker issues next
  want,           \* the index each worker's call, or reservation, is for
  prem,           \* the premium it asks for, or holds
  seenOpen,       \* cur_total, as read inside the transaction
  seenDeployed,   \* deployed_total, as read inside the transaction
  clean,          \* no watched key was written since this worker's WATCH
  leaked          \* leaked[i]: premium of i that the ledger counts and no worker
                  \* will give back, 0 when there is none

store == <<deployed, deployedTotal, openCount, openTotal, openSymbols>>
seen  == <<seenOpen, seenDeployed>>
vars  == <<store, pc, want, prem, seen, clean, leaked>>

Pc == {"idle", "watch", "symbols", "open", "deployed", "exec", "holding"}

TypeOK ==
  /\ deployed \in [Index -> Int] /\ deployedTotal \in Int
  /\ openCount \in [Index -> Int] /\ openTotal \in Int
  /\ openSymbols \subseteq Index
  /\ pc \in [Worker -> Pc]
  /\ want \in [Worker -> Index \cup {NoIndex}]
  /\ prem \in [Worker -> Premium \cup {0}]
  /\ \A w \in Worker : pc[w] # "idle" => want[w] \in Index /\ prem[w] \in Premium
  /\ seenOpen \in [Worker -> Int]
  /\ seenDeployed \in [Worker -> Int]
  /\ clean \in [Worker -> BOOLEAN]
  /\ leaked \in [Index -> Premium \cup {0}]

\* engines/init/redis_template.py writes the zeroed ledger.
Init ==
  /\ deployed = [i \in Index |-> 0] /\ deployedTotal = 0
  /\ openCount = [i \in Index |-> 0] /\ openTotal = 0
  /\ openSymbols = {}
  /\ pc = [w \in Worker |-> "idle"]
  /\ want = [w \in Worker |-> NoIndex]
  /\ prem = [w \in Worker |-> 0]
  /\ seenOpen = [w \in Worker |-> 0]
  /\ seenDeployed = [w \in Worker |-> 0]
  /\ clean = [w \in Worker |-> FALSE]
  /\ leaked = [i \in Index |-> 0]

GoTo(w, label) == pc' = [pc EXCEPT ![w] = label]

ForgetReads(w) == /\ seenOpen' = [seenOpen EXCEPT ![w] = 0]
                  /\ seenDeployed' = [seenDeployed EXCEPT ![w] = 0]

\* The call is over and its locals are gone.
BecomeIdle(w) == /\ GoTo(w, "idle")
                 /\ want' = [want EXCEPT ![w] = NoIndex]
                 /\ prem' = [prem EXCEPT ![w] = 0]
                 /\ ForgetReads(w)

\* UNWATCH and return ok = False.
Refuse(w) == /\ BecomeIdle(w)
             /\ clean' = [clean EXCEPT ![w] = FALSE]
             /\ UNCHANGED <<store, leaked>>

\* Slip: the gate lets a zero premium through.
CallZeroPremium(w, i, m) ==
  /\ pc[w] = "idle"
  /\ GoTo(w, "watch")
  /\ want' = [want EXCEPT ![w] = i]
  /\ UNCHANGED <<store, prem, seen, clean, leaked>>

\* pre_entry_gate calls check_and_reserve for one signal.
Call(w, i, m) ==
  /\ pc[w] = "idle"
  /\ GoTo(w, "watch")
  /\ want' = [want EXCEPT ![w] = i]
  /\ prem' = [prem EXCEPT ![w] = m]
  /\ UNCHANGED <<store, seen, clean, leaked>>

\* transaction(): WATCH deployed, open_count, open_symbols.
Watch(w) ==
  /\ pc[w] = "watch"
  /\ GoTo(w, "symbols")
  /\ clean' = [clean EXCEPT ![w] = TRUE]
  /\ UNCHANGED <<store, want, prem, seen, leaked>>

\* Cap 1: SISMEMBER open_symbols.
CheckIndex(w) ==
  /\ pc[w] = "symbols"
  /\ want[w] \notin openSymbols
  /\ GoTo(w, "open")
  /\ UNCHANGED <<store, want, prem, seen, clean, leaked>>

\* Slip: a taken index is waited for, not refused.
WaitForIndex(w) ==
  /\ pc[w] = "symbols"
  /\ want[w] \in openSymbols
  /\ GoTo(w, "watch")
  /\ UNCHANGED <<store, want, prem, seen, clean, leaked>>

AlreadyOpenOnIndex(w) ==
  /\ pc[w] = "symbols"
  /\ want[w] \in openSymbols
  /\ Refuse(w)

ReadOpenTotal(w) ==
  /\ pc[w] = "open"
  /\ GoTo(w, "deployed")
  /\ seenOpen' = [seenOpen EXCEPT ![w] = openTotal]
  /\ UNCHANGED <<store, want, prem, seenDeployed, clean, leaked>>

\* Slips: the concurrency cap is off by one, the capital cap forgets the new
\* premium.
MaxConcurrentExceeded(w) == seenOpen[w] > MaxConcurrent
CapitalExceeded(w, total) == total > Capital

\* Caps 2 and 3, decided on the values this worker has read.
MaxConcurrentReached(w) == seenOpen[w] + 1 > MaxConcurrent
InsufficientCapital(w, total) == total + prem[w] > Capital

ReadDeployedTotal(w) ==
  /\ pc[w] = "deployed"
  /\ ~MaxConcurrentReached(w)
  /\ ~InsufficientCapital(w, deployedTotal)
  /\ GoTo(w, "exec")
  /\ seenDeployed' = [seenDeployed EXCEPT ![w] = deployedTotal]
  /\ UNCHANGED <<store, want, prem, seenOpen, clean, leaked>>

RefuseByCaps(w) ==
  /\ pc[w] = "deployed"
  /\ MaxConcurrentReached(w) \/ InsufficientCapital(w, deployedTotal)
  /\ Refuse(w)

\* The buffered commands add to what Redis holds when EXEC runs, not to the
\* values the worker read.
AddReservation(i, m) ==
  /\ deployed' = [deployed EXCEPT ![i] = @ + m]
  /\ deployedTotal' = deployedTotal + m
  /\ openCount' = [openCount EXCEPT ![i] = @ + 1]
  /\ openTotal' = openTotal + 1
  /\ openSymbols' = openSymbols \cup {i}

\* The reservation of w stands in the ledger and nobody will release it.
Leak(w) == leaked' = [leaked EXCEPT ![want[w]] = prem[w]]

\* A write to the watched keys spoils every watch that is standing.
SpoilWatches == clean' = [v \in Worker |-> FALSE]

\* Slip: EXEC is sent without the protection of WATCH.
CommitUnwatched(w) ==
  /\ pc[w] = "exec"
  /\ AddReservation(want[w], prem[w])
  /\ SpoilWatches
  /\ GoTo(w, "holding")
  /\ ForgetReads(w)
  /\ UNCHANGED <<want, prem, leaked>>

Commit(w) ==
  /\ pc[w] = "exec" /\ clean[w]
  /\ AddReservation(want[w], prem[w])
  /\ SpoilWatches
  /\ GoTo(w, "holding")
  /\ ForgetReads(w)
  /\ UNCHANGED <<want, prem, leaked>>

\* EXEC finds a watched key changed: WatchError, and the callback restarts.
Retry(w) ==
  /\ pc[w] = "exec" /\ ~clean[w]
  /\ GoTo(w, "watch")
  /\ ForgetReads(w)
  /\ UNCHANGED <<store, want, prem, clean, leaked>>

\* Redis ran EXEC and the connection broke before the reply.  redis-py turns
\* the error into a WatchError (the callback restarts and will meet its own
\* reservation) or it reaches the `except Exception` clause, which returns
\* ALLOCATOR_ERROR; either way no caller ever learns of the reservation.
LoseReply(w) ==
  /\ pc[w] = "exec" /\ clean[w]
  /\ AddReservation(want[w], prem[w])
  /\ SpoilWatches
  /\ Leak(w)
  /\ \/ BecomeIdle(w)
     \/ GoTo(w, "watch") /\ ForgetReads(w) /\ UNCHANGED <<want, prem>>

\* A command of the transaction fails before anything is written:
\* ALLOCATOR_ERROR.
Fail(w) ==
  /\ pc[w] \in {"watch", "symbols", "open", "deployed", "exec"}
  /\ Refuse(w)

\* Slips: a release of another amount than was reserved, and a release that
\* writes keys nobody watches.
ReleaseOtherAmount(w) ==
  /\ pc[w] = "holding"
  /\ deployed' = [deployed EXCEPT ![want[w]] = @ - prem[w] + 1]
  /\ deployedTotal' = deployedTotal - prem[w] + 1
  /\ openCount' = [openCount EXCEPT ![want[w]] = @ - 1]
  /\ openTotal' = openTotal - 1
  /\ openSymbols' = openSymbols \ {want[w]}
  /\ SpoilWatches
  /\ BecomeIdle(w)
  /\ UNCHANGED leaked

ReleaseUnwatched(w) ==
  /\ pc[w] = "holding"
  /\ deployed' = [deployed EXCEPT ![want[w]] = @ - prem[w]]
  /\ deployedTotal' = deployedTotal - prem[w]
  /\ openCount' = [openCount EXCEPT ![want[w]] = @ - 1]
  /\ openTotal' = openTotal - 1
  /\ openSymbols' = openSymbols \ {want[w]}
  /\ BecomeIdle(w)
  /\ UNCHANGED <<clean, leaked>>

\* release(): one MULTI, unconditional, by the worker that holds the
\* reservation and with the premium it reserved (worker.py, entry abandoned
\* and position closed).
Release(w) ==
  /\ pc[w] = "holding"
  /\ deployed' = [deployed EXCEPT ![want[w]] = @ - prem[w]]
  /\ deployedTotal' = deployedTotal - prem[w]
  /\ openCount' = [openCount EXCEPT ![want[w]] = @ - 1]
  /\ openTotal' = openTotal - 1
  /\ openSymbols' = openSymbols \ {want[w]}
  /\ SpoilWatches
  /\ BecomeIdle(w)
  /\ UNCHANGED leaked

\* release() cannot reach Redis: the exception is caught and logged, no caller
\* looks at the result, and the worker ends with nothing given back.  (When
\* only the reply is lost, the release has taken place.)
ReleaseFails(w) ==
  /\ pc[w] = "holding"
  /\ Leak(w)
  /\ BecomeIdle(w)
  /\ UNCHANGED <<store, clean>>

\* The steps of a call, once made, on a connection that works.
Step(w) == \/ Watch(w) \/ CheckIndex(w) \/ AlreadyOpenOnIndex(w)
           \/ ReadOpenTotal(w) \/ ReadDeployedTotal(w) \/ RefuseByCaps(w)
           \/ Commit(w) \/ Retry(w)

Next == \E w \in Worker :
          \/ \E i \in Index, m \in Premium : Call(w, i, m)
          \/ Step(w)
          \/ LoseReply(w)
          \/ Fail(w)
          \/ Release(w)
          \/ ReleaseFails(w)

Spec == Init /\ [][Next]_vars

\* A worker thread that is inside check_and_reserve keeps executing.  Nothing
\* obliges a thread to make a call or to release.
FairSpec == Spec /\ \A w \in Worker : WF_vars(Step(w))
-----------------------------------------------------------------------------
Holder == {w \in Worker : pc[w] = "holding"}
Leaked == {i \in Index : leaked[i] # 0}

\* The caps the allocator exists for, in terms of the workers' beliefs rather
\* than its counters: no two workers hold the same index at once, no more than
\* MaxConcurrent indexes are taken (held, or leaked by a lost reply or a failed
\* release), and the ledger never commits more than Capital.
CapsRespected ==
  /\ \A v, w \in Holder : want[v] = want[w] => v = w
  /\ Cardinality({want[w] : w \in Holder} \cup Leaked) <= MaxConcurrent
  /\ deployedTotal <= Capital

\* The three redundant records agree with each other and with the workers: an
\* index is in open_symbols exactly when one worker holds it or a lost reply or
\* a failed release leaked it (never both), its counter is then 1, and the
\* total counts those indexes.
LedgerMatchesHolders ==
  /\ openSymbols = {want[w] : w \in Holder} \cup Leaked
  /\ \A w \in Holder : want[w] \notin Leaked
  /\ \A i \in Index : openCount[i] = IF i \in openSymbols THEN 1 ELSE 0
  /\ openTotal = Cardinality(openSymbols)

\* The per-index amounts are to the rupee what the holders reserved or what was
\* leaked: a release never takes more or less than its own reservation, and
\* nothing is left deployed on an index that is neither held nor leaked.
DeployedMatchesHolders ==
  /\ \A w \in Holder : deployed[want[w]] = prem[w]
  /\ \A i \in Index \ {want[w] : w \in Holder} : deployed[i] = leaked[i]

\* What makes the optimistic transaction sound: while a worker's watch is
\* clean, everything it has read is still what Redis holds.
WatchedReadsFresh ==
  \A w \in Worker : clean[w] =>
    /\ pc[w] \in {"open", "deployed", "exec"} => want[w] \notin openSymbols
    /\ pc[w] \in {"deployed", "exec"} => seenOpen[w] = openTotal
    /\ pc[w] = "exec" => /\ seenDeployed[w] = deployedTotal
                         /\ seenOpen[w] + 1 <= MaxConcurrent
                         /\ seenDeployed[w] + prem[w] <= Capital

\* Reserving is atomic: whatever the interleaving, the ledger changes as the
\* abstract allocator's does.
Abstract == INSTANCE AllocatorSpec WITH held <- deployed,
                                        committed <- deployedTotal
ImplementsAllocatorSpec == Abstract!Spec

\* Optimistic retries cannot livelock: as long as some worker is inside a
\* call, some call keeps returning, reserved or refused.
InCall(w) == pc[w] \notin {"idle", "holding"}
Returned(w) == InCall(w) /\ ~InCall(w)'
SomeCallReturns ==
  []<>(\A w \in Worker : ~InCall(w)) \/ []<><<\E w \in Worker : Returned(w)>>_vars
=============================================================================
