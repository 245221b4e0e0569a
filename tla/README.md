# TLA+ models of the pcr-momentum trading backend

The backend trades index options (NIFTY 50 and BANKNIFTY) on the momentum of the
order book. It is a set of Python processes ("engines") that share nothing but
Redis: a market-data engine writes option chains, one *vessel* per index decides on
them and publishes signals, and the order-execution engine turns signals into
positions, watches them and sells them.

This directory models the way of a tick from the broker's websocket to the order that
it causes, and the day around it: init, scheduler, background, the operator and
systemd. All paths below are relative to the repository root's `backend/` unless they
say otherwise.

## 1. The system

| Component | State it keeps | Operations | Talks to |
|---|---|---|---|
| `engines/order_exec/allocator.py` | `orders:allocator:deployed`, `open_count`, `open_symbols` | `check_and_reserve`, `release` | called by every worker thread, on one Redis |
| `engines/order_exec/dispatcher.py` | its consumer in the group of `strategy:stream:signals`, an in-process queue | read, acknowledge, queue, or turn `MANUAL_EXIT` into an `exit_pull` flag | vessel to worker pool |
| `engines/order_exec/worker.py`, `cleanup.py`, `exit_eval.py` | `orders:positions:*`, the vessel's `current_position_id` and `state`, `exit_pull` flags | `process_signal`, `_close_existing_position_for_flip` | allocator, broker, vessel state |
| `engines/order_exec/entry.py`, `exit_submit.py` | locals only; orders at the broker | paper and live entry and exit | broker, `orders:stream:order_events` |
| `engines/order_exec/reporting.py`, `engines/background/report_drainer.py` | `orders:reports:pending`, Postgres | queue a report; pop, insert, requeue | worker to Postgres |
| `engines/strategy/runner.py`, `publisher.py` | vessel memory (held leg, basket, buffers); Redis `state`, `cooldown_until_ts`, `strategy:signals:*`, the signal stream | boot; one tick: read state, leave cooldown, sync memory, decide, emit | reads what `order_exec` wrote |
| `engines/strategy/strategies/bid_ask_imbalance` | ring buffers, basket | metrics, `on_tick` gates, continuation, reversal, timing, ATM shift | pure on the vessel's memory |
| `engines/strategy/ingestion.py` | routes, one pub/sub connection, a lock | register, unregister, reconcile, wake vessels | data pipeline to vessels |
| `engines/data_pipeline` | bounded tick queue, chains in memory and in Redis, dirty flags, subscriptions | receive, queue, merge, notify, flush, subscribe at the pre-open | broker feed to vessels |
| `engines/init` | none; writes every runtime key | flush, template, credentials, token, calendar, session, instruments, baskets | the engines start when it has ended |
| `engines/scheduler` | none | eight cron jobs: flags and events | `system:flags:*`, the scheduler's stream |
| `engines/background` | the report in hand, the events read | drain reports, consume events, poll the kill switch | Postgres, broker |
| `engines/api_gateway` | none | halt, resume, global kill, credentials, token webhook, kill switch | flags, credentials, caches |
| `engines/health` | heartbeats summary | probes | nobody acts on it |
| `brokers/upstox` | none (stateless HTTP) | orders, login, calendar, instruments, prices, kill switch | `order_exec`, init, background, API |
| `state` | key names, pools, configuration, encryption at rest | | all |
| `scripts/systemd` (repository root) | units and timers | start 08:00 and at boot (engines after init, well or not), stop 15:45, restart on failure | all |

What is hard here:

* **Concurrency.** Several worker threads and one coroutine per vessel read and
  write the same keys. Only the allocator's transaction and two `MULTI`s are
  atomic; `cleanup()` uses a pipeline without `MULTI`, and the last writes of a
  closing worker come after it has let the next worker in.
* **Two owners of one position.** A reversal flip closes the prior position from
  its own thread while the prior thread keeps watching.
* **Failure.** `worker_loop` swallows every exception; `cleanup()`, `release()`, the
  queuing of a report and the router's `unsubscribe` swallow theirs and go on. A reply lost after `EXEC` looks like a
  failure. A restart forgets the queue, the threads and the delivered signals.
* **Unreliable hearing.** Live fills are heard by `XREAD` from `"$"`, which skips
  what was published between two calls; broker calls may fail after taking effect.
* **Notify before flush.** Vessels hear of a tick before the chain that holds it is
  written to Redis, from a queue that drops frames when it is full.
* **One flag, many writers.** Init, two cron jobs and four operator commands write
  `trading_active` without reading it, in any order.

Properties that make each part correct: the allocator must respect its three caps
and keep three redundant records in agreement under any interleaving; the life
cycle must hold at most one position per index, close nothing that is not sold,
and leave nothing behind; the live loops must never sell more than was bought,
must know what they hold, and must end. The vessel must publish a decision once, know
the position it has, keep it in view and ask for its close; the data path must keep
the order of ticks and leave no vessel behind; the day must start clean, keep its
reports and see the kill switch.

## 2. Modules

| Module | Models | Used by |
|---|---|---|
| `AllocatorSpec` | the promise of the allocator: atomic reserve and release | refinement target of `Allocator` |
| `Allocator` | `allocator.py`, one step per Redis command, callers in `pre_entry_gate.py` | `MCAllocator`, `AllocatorProofs` |
| `OrderExec` | vessel tick, dispatcher, pool, `process_signal`, flip close, failures | `MCOrderExec`, `OrderExecProofs`, `OrderExecBookProofs` |
| `LiveOrder` | the live entry and exit loops of one position | `MCLiveOrder`, `LiveOrderProofs` |
| `Imbalance` | the metrics, decisions and `on_tick` of `bid_ask_imbalance`, as operators | `Vessel` |
| `Vessel` | `vessel_loop` with the publisher, against `order_exec`, market, operator, kills | `MCVessel`, `VesselProofs` |
| `MarketFlow` | `data_pipeline`, the tick router, the waiting half of the vessels | `MCMarketFlow`, `MarketFlowProofs` |
| `StrikeBasket` | `init/strike_basket_builder.py`, as operators | `Session` |
| `Session` | the days: init, systemd, scheduler, background, operator commands, reports | `MCSession`, `SessionProofs` |
| `SumProofs` | sums of positive amounts over a finite set, as listings with running totals | `AllocatorProofs`, `OrderExecBookProofs` |
| `AllocatorProofs`, `OrderExecProofs`, `OrderExecBookProofs`, `LiveOrderProofs`, `VesselProofs`, `MarketFlowProofs`, `SessionProofs` | theorems (section 4) | |

The models are layered. `OrderExec` reserves and releases in one step; that is
what the refinement `Allocator => AllocatorSpec` justifies. `OrderExec` buys and
sells in one step (`EntryFill`, `EntryAbandon`, `Exit`) with the outcomes of live
mode: an abandoned entry may have bought, a sale may never complete. In paper mode
neither happens; `LiveOrder` shows what happens inside. `Vessel` opens the
decision that `OrderExec` leaves as a choice (`MayEmit`) and in turn sees `order_exec`
only as the writes it makes to Redis. `MarketFlow` shows what becomes of the ticks that
`Vessel` reads as a chain, and `Session` what surrounds a trading day.

### Allocator

State: the Redis hashes and set, and per worker the command it issues next (`pc`),
its arguments and its reads. `Watch`, `CheckIndex`, `ReadOpenTotal`,
`ReadDeployedTotal`, `Commit` are the commands of `_txn`; each cap has its own
refusal. `clean[w]` is Redis's WATCH bookkeeping: any write to the watched keys
clears it for everyone. `Retry` is the `WatchError`; redis-py's `transaction()`
restarts the callback itself and without a bound, so the five attempts of
`_TXN_MAX_RETRIES` are never consumed and are not modelled. `LoseReply` is a
connection that breaks after `EXEC` ran, `ReleaseFails` a release that cannot reach
Redis and swallows it; `leaked[i]` is the amount either leaves on an index.
`Release` is the release by the holder, with the amount it reserved; the flip's
release of another amount belongs to `OrderExec`.

### OrderExec

A signal and the position it may become share one number `p`, and the thread that
runs `process_signal` for it is identified with `p`; `stage[p]` is the program
counter. Each Redis command or `MULTI` other threads can observe is a step. The
vessel's tick is three steps (`VesselRead`, `VesselSync`, then `VesselIdle` or
`VesselEmit`), so order_exec's writes fall between what the vessel read and what it
emits. `MayEmit` says which signals `on_tick` can ask for given the leg in memory;
whether its gates pass is left open, so a vessel may emit or stay idle at any tick.
The gate of `pre_entry_gate.check` and the exit cascade of `exit_eval` are likewise
open choices, except that an `exit_pull` flag forces the exit.

`hash[p]` is `"full"`, `"none"`, or `"partial"`: the mark-to-market `HSET` of the
watch loop on a hash that a flip has deleted creates one with only those fields,
which does not load as a position. The pipeline of `cleanup()` has no `MULTI`, so its
commands are steps: `DeleteHash`, `RemoveFromOpen`, `AddToClosed`, `ClearCurrent`.

`abandoned` has the purchases of entries that reported failure: the worker releases
their reservation and keeps no record.

Failures: `WorkerRaises` at any step, `FlipExitRaises`, `ReportFails` (the report is
not queued, `unreported`, and the worker goes on), `CleanupFails` after any command
of the pipeline, `ReleaseFails`, `ReserveReplyLost`, `EngineRestart`. `MaxFaults`
bounds them.

Left out: `orders:status`, the day counters, prices, the clock (a cooldown may end
at any time), and the per-index hash fields of the allocator.

### LiveOrder

One position of `Qty` units. The broker fills unit by unit, rejects an order it has
not begun to fill, and publishes each change on the stream in order; it and the
publisher are outside the repository. `from`/`upto` delimit what an `XREAD`
returned; `last = Latest` is the id `"$"`. `PlaceFails` covers both a refused
request and one that timed out after the broker took the order. `Cancel` may be too
late or fail. The entry decides by `FILL` only, `PARTIAL_FILL` starts the grace
period, a reject abandons. Slicing of an order into several broker orders is left
out (the code keeps the first order id only).

### Imbalance

Every metric and rule is an operator with the name of the code's function; thresholds
are fields of `Cfg`. A ratio is the pair of its quantities and is compared by
cross-multiplication, exact where the code has doubles. A missing price or quantity is
`None`, and each operator says what the code does with it. Labels and reasons, which
only telemetry shows, are left out.

### Vessel

`pc` is where the coroutine is; every Redis read or write another process can come
between is a step. `BootRead`/`BootWrite` are `set_state(read_state())`; `Wake` with
`ExitCooldown` is the read and the later write of `maybe_exit_cooldown`; `ReadCurrent`
and `SyncMemory` are the two reads of the memory sync, of a pointer and of a hash that
may be gone by then. `Pinned` is the leaf of the held side and strike, which the snapshot
takes in whatever the basket is; both sides of a strike are listed together
(`VesselAssumption`), as the exchange lists them. `EmitSignal` is the `SET NX`, `Publish`
the pipeline with the `XADD`. `Evaluate` shifts the basket and calls `on_tick` on the snapshot. An
exception anywhere (`RedisFails`, `PublishFails`) ends the task, and with it the engine:
`main.py` waits for the *first* task to finish and exits with 0, so `Restart=on-failure`
does not start it again. `EngineKilled` is a kill, after which it is restarted with empty
memory. `OEFill`, `OECleanHash`, `OECleanCur`, `OESettle` are order_exec's writes in the
order `OrderExec` derives them; they may fall between any two steps of the vessel.

### MarketFlow

A frame is its number and its token; a leaf of the chain is the number of the frame that
wrote it last. `OnMessage` is the SDK's thread handing the frame over with
`call_soon_threadsafe`, `Put` the `put_nowait` that runs later on the loop and drops the
frame when the queue is full. `Apply` and `Notify` are the halves of `_process_one_tick`,
`flush_chains` the flush. `NotifyFails` leaves the chain changed and not dirty. The
router's `_reconcile_subscriptions` is a step per call under its lock, since each
`subscribe`/`unsubscribe` awaits; vessels change the routes meanwhile. `srv` is what the
connection is subscribed to, `known` what `_subscribed` says, `missed` the channels whose
`unsubscribe` failed (`UnsubscribeFails`). A `subscribe` that raises is left out: it ends
the task that called it.

### Session

`ipc` is where init is; each of its steps is an action with the code's exits
(`Skip` with a reason and exit code 0, `InitFailed` with 1). What the broker answers is
an operator per endpoint that gives the possible answers (`get_holidays`,
`get_market_timings`, `get_ltp`, ...). `StrikeBasket!build_for_index` computes the basket
from a price and a list of contracts. The operator's commands are those of the API
and the script that imports credentials from a file. `Trigger` is the next cron time; a scheduler that
is down misses it. `pending`, `hand` and `rows` are the way of a report from Redis
through the drainer into Postgres. The initial choice of `bound` says which reports are
malformed (`DropMalformed`) and which Postgres refuses every time; `BufferFails` is the
swallowed failure of `RPUSH` or of `LTRIM`. `StackUp` starts the engines once init has
ended, with 0 or not, as the units say. Steps 5 and 10 of init read keys that its own flush
has just deleted and therefore have no step.

## 3. Runs

| Run | Instance | What it shows |
|---|---|---|
| `allocator` | 2 workers, 3 indexes, premiums 1 and 3, capital 5, concurrency 2 | `TypeOK`, `CapsRespected`, `LedgerMatchesHolders`, `DeployedMatchesHolders`, `WatchedReadsFresh`, refinement of `AllocatorSpec`, `SomeCallReturns` |
| `orderexec_trades` | 2 indexes, 2 signals, 2 threads, 1 fault, premiums 1 and 2, capital 3, symmetry | `TypeOK`, `LedgerCountsHeld`, `BookConsistent`, `SettledMeansFlat`, `OneUnsoldPerIndex`, `ClosedOnlyAfterSale`, `CurrentNotOverwritten` |
| `orderexec_queue` | 1 index, 3 signals, 1 thread, no fault | `SignalsSettle` |
| `liveorder` | 2 units, 3 sells, 2 foreign events, 2 failures | `TypeOK`, `NeverShort`, `HeldQuantityTrue`, `EntryDecided` |
| `vessel` | 2 strikes, 2 sides, 3 books, clock of 3; 2 ticks without a position, or 1 position with a tick and a shift, halt or kill, or 2 positions with one of these | `TypeOK`, `SignalsOnce`, `LostSignalsBounded`, `PositionAdopted`, `CooldownEnds`, `LosingLegExited` |
| `marketflow` | 2 vessels, 2 options and the spot, a queue of 1; up to 3 frames or 4 basket shifts, 1 restart | `TypeOK`, `FramesInOrder`, `RouterConverged`, `TickReachesVessel` |
| `session` | 2 indexes; 2 days with a report and a fault, or a day with 2 reports and an outage, or with 2 commands, or with 3 reports of which one is malformed and one refused | `TypeOK`, `FreshDay`, `ReportsInOrder`, `ReportsDelivered`, `KillSwitchSeen` |
| `session_off` | one day, nothing fails, no command | a statement of the repository that the code does not meet (section 6) |
| `orderexec_flip`, `orderexec_state`, `orderexec_restart`, `liveorder_exit` | the smallest instance of each | a statement of the repository that the code does not meet (section 6) |

**Why the bounds are enough.** The allocator's hazards are about two callers: with
two workers, capital 5 and premiums 1 and 3, two reservations can fit, fit
not at all (3 and 3), or compete for the same index; three premiums of 1 fit the
capital, so with a third index, taken by a lost reply or a second call, it is the
concurrency cap that refuses. Every cap decides somewhere. In the life cycle the
hazards are about a worker that closes while the next one opens, on the same index or
on the other: two signals overlap on two threads, the second being an entry, a flip or
an exit request aimed at the first, with one failure at any command of either.
Premiums 2 and 2 exceed the capital, 1 and 2 do not, so either index can be refused.
`orderexec_queue` has three signals on one thread: the second and the third wait behind
a position that is being watched. The reads with `count=10` never meet their limit,
since a run has at most three signals, and the live stream is re-read from `last_id`
if it did.

`vessel` has a basket of the ATM strike alone and two strikes, so that a shift of the spot
drops the held strike; books move only on the call of strike 1, which enters (`strong`),
holds or breaks (`broken`), so the positions are calls; puts take part in the metrics and in
the basket. Two ticks fill the ring buffers. On a market that opens strong one tick breaks
the position while a shift, a halt or a kill happens at any step. Two positions one after
the other, with a tick or with such an event between them, let a vessel read the pointer of
one position and the hash or state of the next. Three instants let an entry, its cooldown and a repeated decision in the same instant
happen. `marketflow` has a queue of one, so that the second frame meets a full queue;
four shifts of two vessels interleave two reconciliations with a third caller, the router,
and any unsubscribe may fail.
`session` keeps one pending report, so that the second trims the first; one report put
back and one new is the overrun that its type invariant allows. Each failed trim allows
one more; with the single report of the run that has faults a trim has nothing to remove,
so that case rests on the proof alone. Of the eight jobs, its `Triggers` are the three
that change a modelled key between 08:00 and 15:45; the others publish events nobody
handles or fall outside these hours (section 6).
`MarketFlow`, `Vessel` and `Session` take a set `Bounds` of *combinations* of bounds and
pick one initially: each combination is searched completely, and together they fit in
one run.

**Up to the first flip close.** Several properties of `OrderExec` are stated up to the
first flip that finds a position to close (`NoFlipClose`), because from there on the code
really breaks them (section 6). The victim of a flip is never reset, so once false
`NoFlipClose` stays false. The run goes on beyond it: `TypeOK` and `ClosedOnlyAfterSale`
hold there too.

**Deadlock** is checked wherever the system runs for ever. `LiveOrder` follows one
position, whose worker ends, so those two configurations switch it off. So do `Vessel`,
whose engine ends for good after an exception or at 15:30, `MarketFlow`, whose pipeline
stops, and `Session`, whose last day ends.

**Fairness.** `Allocator`: a thread inside `check_and_reserve` keeps executing
(`WF` on its steps); nothing obliges it to call or to release. `OrderExec`: the
dispatcher coroutine and the threads keep running (`WF`); the watch loop of an open
position ends (`SF` on `EvalExit`) because `exit_eval` says yes at every evaluation
from the end-of-day time on and `max_hold_sec` is finite. A sale owes nothing
(`Selling`), since a live exit may wait for ever (`liveorder_exit`); `SignalsSettle`
speaks of behaviours in which none does. The vessel and the
failures owe nothing. `LiveOrder`: the worker keeps running (`WF`), its clock
reaches the deadline of the entry (`SF` on `EntryDeadline`, since the loop passes
its head again and again), and the broker goes on filling an order that stays open.
`Vessel`: the event loop runs the coroutine while it can go on, and the clock advances;
order_exec, the market and the operator owe nothing. The formula spells out when the
coroutine is runnable instead of using `ENABLED`; it is `WF_vars(Loop)`. `MarketFlow`: the
loop runs what is ready; the flush interval and the vessels' idle timeout of 2 s pass;
`asyncio.Lock` serves its waiters in the order they came, which `SF` on `Acquire` states.
No frame has to arrive. `Session`: background's loops run and systemd starts it again; an
outage of Postgres ends. Neither init, nor the scheduler, nor the operator has to act.

**Mutants.** Next to the definitions that model the code stand *slips* ("Slip: ..."):
the same definition with a plausible bug, such as a missing cap, an `EXEC` without
`WATCH`, an abandoned entry that does not release, a retry on a partial fill, a leg that
is not pinned, a report requeued at the wrong end.
`PROJECT.json` pairs each property with the slip that breaks it.

## 4. Proofs

Every invariant that a passing run checks is also a theorem, for every value of the
constants, and so are the action property `CurrentNotOverwritten` and the refinement of
`AllocatorSpec`. The theorems assume of the constants what the named `ASSUME`s say:

* `AllocatorAssumption`, `OrderExecAssumption`: finitely many indexes, positive premiums,
  positive caps (`pre_entry_gate` refuses others), and that a fill costs something;
* `LiveOrderAssumption`: a positive quantity;
* `CfgAssumption`, `VesselAssumption`: thresholds and strikes are numbers, books are given
  for the listed legs, and both sides of a strike are listed;
* `FlowAssumption`, `CallerAssumption`: a queue of at least one; spot, options, unknown
  tokens and callers are distinct;
* `SessionAssumption`: positive limits; expiries are days, that is numbers from 0 on, so
  that the nearest of several exists.

**AllocatorProofs**, for any workers, indexes, premiums and caps:

* `TypeCorrect`, `CapsAlwaysRespected`, `LedgerAlwaysMatches`, `DeployedAlwaysMatches`,
  `ReadsAlwaysFresh`, with failing releases and lost replies.
* `DeployedAlwaysAddsUp`: `deployed["total"]` is the sum of the per-index amounts, which
  `DeployedAlwaysMatches` ties to the holders and to what was leaked.
* `Refinement`: every command maps to a step of `AllocatorSpec` or to a stutter.

The inductive invariant adds to the checked invariants `WatchedReadsFresh`: what a
worker has read is still in Redis as long as its watch is clean, which is why a
commit that passes `EXEC` passes the caps *now*. It also says that a held index is
not a leaked one, so that a release never gives back what a lost reply or another
worker's failed release left. That the total is a sum rests on `SumProofs`.

**OrderExecProofs**, for any indexes, signals, threads, caps and number of faults:

* `TypeCorrect`: in particular no step dereferences a position that does not exist.
* `LedgerAlwaysCountsHeld`: until a flip takes over a position, the ledger counts
  exactly the outstanding reservations, one per index and within the caps, through
  exceptions, lost replies and restarts.
* `AlwaysOneUnsoldPerIndex`: until then, whatever fails, the broker holds at most
  one position of an index, apart from what live entries bought and abandoned.

The invariant is `TypeOK`, `VictimInv` (a flip or an exit pull
is aimed once, at a position that exists), `HoldInv` (which stages hold a reservation, and that
a bought, unsold and not abandoned position always has its own) and `LedgerCountsHeld`. The last
theorem follows from the last two: two unsold positions of one index would be two
reservations of it.

**OrderExecBookProofs** builds on that invariant, for the same constants:

* `AlwaysClosedOnlyAfterSale`: sale, report (or the failed attempt at it) and teardown
  keep their order in the worker of a position and in the worker of a flip, whatever
  fails and with flips included.
* `AlwaysBookConsistent`, `AlwaysSettledMeansFlat`, `AlwaysCurrentNotOverwritten`: the
  books agree while the system runs and are empty when it has settled, until something
  fails or a flip takes over a position.
* `AlwaysDeployedAddsUp`: `deployed["total"]` is the sum of the outstanding premiums,
  failures included, until a flip takes over a position.

The invariant has a part per record. `SaleInv` carries the sale through the stages, of
the victim too: at `flip_cleanup` nothing else remembers that the victim was sold.
`BookInv` ties the open set, the hash and `current_position_id` to the stages; both
directions are needed, since the step that blanks the pointer has to know that no other
worker of the index is between its purchase and its own blanking, which is where the
reservation of `HoldInv` comes in. `OwedInv` says that only workers that will still
release hold something, `TallyInv` counts sales and reports by stage, and `PlacedInv` gives
a vessel in `IN_CE` or `IN_PE` a worker that will still set it `FLAT`. That the total is zero at the end needs
the total to be a sum on the way: `DeployedAddsUp`, with the lemmas of `SumProofs`, says that some listing of the
reservations has it as its last running total, so that a reservation appends to the
listing and a release removes an entry from it.

**LiveOrderProofs**, for any quantity, number of exits, failures and foreign events:

* `AlwaysTypeOK`, `AlwaysHeldQuantityTrue`, `AlwaysNeverShort`.

`EventInv` says that the stream tells the truth about an order and rejects it once,
`FillInv` what a status says of the quantity done, `PlaceInv` where the worker is when an
order exists. The heart is `LiveInv`: one exit at most is working or done, and while the
worker can still *read* that the order it knows was rejected, no other exit is. Without
the second half a re-placement could not be shown safe, because the worker acts on an event that
may be old: it is the only event of its kind, and the entry it is read at is behind it
afterwards. When a re-placement times out after the broker took it, the worker keeps the
old order id, but has passed that order's only reject and will not place another.

**VesselProofs**, for any strikes, books, thresholds, spots and clock:

* `AlwaysTypeOK`, `AlwaysSignalsOnce`, `AlwaysLostSignalsBounded`.

The lemmas about `on_tick` (`EntryFacts`, `HeldFacts`, `DecisionFacts`) say what it can
return: nothing, or an action on a leg of the snapshot, on the other side for a flip.
`ShapeInv` adds that what is bought, recorded or held is a leg the chain lists, which
is why the pinned leg can be looked up. `OnceInv` says that a signal in the
stream keeps its key until the millisecond it was minted in is over: `order_exec` deletes
keys, but only of trades that are over, and the model takes it that a trade outlasts the
millisecond its signal was minted in (`OECleanHash`); an older id is never minted again.

**MarketFlowProofs**, for any tokens, baskets, number of vessels, queue size and bounds:

* `TypeCorrect`, with the bound of the queue.
* `RouterAlwaysConverged`: when nobody is reconciling, the connection is subscribed to the
  vessels' baskets and to the channels it failed to drop. The invariant says that the routes
  are the baskets (`RoutesInv`), that the connection has what `_subscribed` knows and what
  it missed, and nothing else (`KnownInv`), and that what the holder of the lock is going to
  leave in `_subscribed`, `(known \cup add) \ drop`, is what the routes want now, or
  somebody is waiting to reconcile after it (`TargetInv`). The second half is what a caller
  that skipped a taken lock would break.
* `FramesAlwaysInOrder`: the invariant orders the whole path (`QueueInv`, `HandInv`,
  `LeafInv`): chain in Redis, chain in memory, frame in hand, queue, frames not yet queued.
  Without the frame in hand, and whether it is already merged, the step that merges it
  could not be shown to keep the order.

**SessionProofs**, for any number of days, reports, commands and failures, and any listings:

* `AlwaysTypeOK`, with the length of the pending list, failed trims included;
  `AlwaysFreshDay`; `AlwaysReportsInOrder`.

`LifeInv`, that engines run only after init has ended and hold nothing while they are
down, is what makes a day fresh: an event of yesterday could only survive the flush in
the hands of a consumer, and there is none while init runs. `CountInv` bounds the pending
list when a report is put back, and gives an open position a report to make. `OrderInv`
orders table, hand and list part by part, as the two ends at which the drainer and
order_exec work require.

**Induction over data.** The library's induction theorems take an operator as parameter
and cannot be used. Three facts that would call for them are proved without: what
`SoldUpTo` (a recursive function) computes, that a set of expiries has a least element,
and that removing a reservation from a sum subtracts it. The first two take the least
counterexample in the *set* of numbers where the claim fails, which `WFMin` and
`NatLessThanWellFounded` provide (`FirstFailure` in `LiveOrderProofs`); the third shifts the
listing with its running totals.

**Checked by TLC only**: the liveness properties `SomeCallReturns`, `SignalsSettle`,
`EntryDecided`, `PositionAdopted`, `CooldownEnds`, `LosingLegExited`, `TickReachesVessel`,
`ReportsDelivered` and `KillSwitchSeen`, since reasoning about fairness is out of the
prover's reach; and the runs of section 6, which are counterexamples.

## 5. Plan

Done, in this order: `AllocatorSpec` and `Allocator` with proofs and refinement;
`OrderExec` with its first proofs; `LiveOrder`; `Imbalance` and `Vessel`; `MarketFlow` with
its proofs; `StrikeBasket` and `Session`; `OrderExecBookProofs`, `VesselProofs`,
`SessionProofs`, `LiveOrderProofs`; then the swallowed failures (release, report,
unsubscribe, trim), refused and malformed reports, the teardown command by command and
abandoned entries in all of these, with `SumProofs`.

Left, in order of importance:

1. The link between the layers as theorems: that `LiveOrder` takes a position from nothing
   to held to closed in the way `OrderExec` takes it in one step, and that the ledger of
   `OrderExec` moves by reservations and releases only.
2. Action properties: an order that is done stays done, a report in the table stays there.
3. Lemmas about the metrics and gates of `Imbalance`, such as which gates a flip skips.
4. A bound on the drift a flip leaves in the ledger, which needs prices in `OrderExec`.

## 6. What the code does that the repository says it does not

* **A flip can sell a position twice** (`orderexec_flip`). The flip's worker closes
  the prior position while the worker that owns it is still in its watch loop;
  nothing tells that worker, and it sells the same quantity again when its own exit
  comes. `cleanup.py` rests on "the single thread that owned the position".
* **The vessel state can say FLAT over an open position** (`orderexec_state`). A
  closing worker releases its index, the next worker buys and writes `IN_CE`, then
  the first writes `FLAT` or `COOLDOWN`. `runner.py` says Redis state never lies
  about whether a position is open.
* **A restart leaves open positions unwatched** (`orderexec_restart`).
  The repository's top-level `docs/Sequential_Flow.md` says a restart skips no exits.
* **A live exit can wait for ever** (`liveorder_exit`). Its fill is published before
  the first `XREAD` from `"$"`; `exit_submit.py` says to continue until FILLED.
* **A day init has disabled is enabled at the open** (`session_off`). `market_open` writes
  `trading_active` without reading it; its docstring says "Init must have run
  successfully for this to take".

Recorded as hazards and not as runs, since nothing claims otherwise: a live entry
abandoned at its chase ceiling, timeout or grace period forgets what filled before the
cancel and releases the reservation, so that the next signal may buy again; a flip
releases the fill cost instead of the reservation, so `deployed["total"]` drifts; a
release that fails is swallowed and leaves its index blocked for the day.

Met while modelling, visible in the models or their comments:

* *Strategy.* One vessel's exception ends the engine and its siblings with exit code 0
  (`engines/strategy/main.py` 140-165, where `docs/Strategy.md` says a crash cannot affect
  siblings). A strike that was missing from the chain is looked up again only at the next
  shift, or while the basket has no call at all, and not at the next tick (`runner.py`
  107). `continuation.py` asks for two failing ticks, but the first one exits; a reversal
  flips without the entry gates that `reversal.py` mentions. An `IN_CE` state whose
  position hash is gone lets the entry gates run. A vessel that missed a close and reads
  the state of the next position of the same side keeps the old strike: memory is reloaded
  only when the side differs or no token is held (`runner.py` 380).
* *Data path.* A websocket that opens after 15 s is never subscribed. A tick whose
  notification failed is not marked dirty and waits for the next one of its index. The set
  of desired subscriptions the vessels extend is read at the pre-open only. When the queue
  is full it is the newest frame that is dropped, uncounted, since `put_nowait` raises
  later, on the loop; `tick_processor.py` 14 and `ws_io.py` 75 say the oldest, counted.
  `ingestion.py` 4 says vessels are notified after the frame is persisted; the
  notification comes before the flush. `_reconcile_subscriptions` says "additive only" and
  unsubscribes; when `unsubscribe` fails, the channel stays subscribed and is forgotten.
* *systemd.* `pcr-stack.target` says "Engines must NOT run unless init succeeded today",
  but only the target requires `pcr-init.service`; the engines' own units are ordered
  after it and no more, so they start after a failed init as well. When init failed
  before its flush they run on the keys of the day before: `FreshDay` speaks of days
  whose init got past it.
* *Init.* The flush deletes `skip_today`, `auto_continue`, `force_paper_today` and `mode`
  before the steps that read them, and the reports still pending from the day before; a
  `global_kill` during init is overwritten by its last step.
* *Scheduler.* `instrument_refresh` (05:30) and `nightly_maintenance` (02:00) fall outside
  the stack's hours; the flags of `entry_freeze` and `eod_squareoff` have no reader.
* *Background.* A task ended by an exception outside its `try` is not restarted while the
  heartbeat goes on. A report that Postgres refuses is put back at the head each time and
  holds up all later ones (`report_drainer.py` 99); one whose `RPUSH` failed is nowhere.
  Shutdown cancels the drainer with a report in hand; the INSERT has no
  key that would refuse a second copy after a lost reply.
* *API.* The kill switch is cached as an object that the entry gate reads as not
  engaged, until the poller's next round; the manual-exit and control streams have no
  consumer; an approved token leaves the day's disabled flag as it is.

## 7. Not modelled

The content of reports, health, the REST and WebSocket views, login and configuration
editing, request building and response parsing at the broker, key naming, connection
pools, schemas and the database migrations: computation or I/O without a protocol of its
own. A frame's fields are copied one by one into a leaf, which is one number here.
Telemetry (metrics, decision log, heartbeats), VACUUM and log rotation write what no
engine reads. The vessels' configuration is constant: its reload is not modelled. In
`order_exec` prices, day counters, the slicing of large orders and the arithmetic of the
exit cascade are abstracted as section 2 says. The SDK's own reconnection is outside the
repository.
