----------------------------- MODULE OrderExec -----------------------------
(***************************************************************************)
(* The trade life cycle of engines/order_exec: the vessel of each index    *)
(* (engines/strategy/runner.py) publishes signals on a Redis stream, the   *)
(* dispatcher hands them to a pool of worker threads, and each worker runs *)
(* process_signal: close the prior position for a flip, pass the gate,     *)
(* reserve premium, buy, publish the position, watch it, sell, report,     *)
(* clean up, release, set the vessel state.                                *)
(*                                                                         *)
(* A signal and the position it may become share one number p (the code    *)
(* mints pos_id from the signal one to one), and the thread that runs      *)
(* process_signal for p is identified with p: the pool bounds how many run *)
(* at once.  Every Redis command or MULTI of order_exec that others can    *)
(* observe is a step of its own, the commands of cleanup()'s pipeline      *)
(* without MULTI included; reserve and release are single steps, which the *)
(* module Allocator justifies.  A sale or a purchase is one step here      *)
(* (LiveOrder has their commands), and so are the vessel's GET of          *)
(* current_position_id and HGETALL of the hash (Vessel has both).          *)
(*                                                                         *)
(* The entry and the exit are those of live mode, of which the paper mode  *)
(* is a special case: there an entry that is abandoned has bought nothing, *)
(* and every exit completes.                                               *)
(*                                                                         *)
(* Left out: orders:status (only displayed by the API), the day counters   *)
(* (incremented, never read by the engines), the per-index fields of the   *)
(* allocator hashes (modelled in Allocator), prices, and clock time: a     *)
(* cooldown may end at any moment.                                         *)
(***************************************************************************)
EXTENDS Integers, FiniteSets

CONSTANTS Index, Side,    \* underlyings; the option sides CE and PE
          Premium,        \* premiums a reservation may ask for
          Slippage,       \* fill cost minus reserved premium
          Capital, MaxConcurrent,
          PoolSize,       \* worker threads
          MaxSignals,     \* bound: signals published in a behaviour
          MaxFaults,      \* bound: exceptions and crashes in a behaviour
          None            \* no index, no side

ASSUME OrderExecAssumption ==
  /\ IsFiniteSet(Index)
  /\ None \notin Index \cup Side
  /\ {"FLAT", "COOLDOWN", "synced"} \cap (Side \cup {None}) = {}
  /\ Premium \subseteq Nat \ {0}
  /\ Slippage \subseteq Int
  /\ \A m \in Premium, slip \in Slippage : m + slip > 0
  /\ Capital \in Nat \ {0}
  /\ MaxConcurrent \in Nat \ {0}
  /\ PoolSize \in Nat \ {0}
  /\ MaxSignals \in Nat
  /\ MaxFaults \in Nat

Pos == 1..MaxSignals
NoPos == 0

Intent == {"FRESH_ENTRY", "REVERSAL_FLIP", "MANUAL_EXIT"}

\* Where process_signal stands, for a signal a worker has taken.
FlipStage == {"flip_read", "flip_load", "flip_exit", "flip_report",
              "flip_cleanup", "flip_unlist", "flip_closed", "flip_current",
              "flip_release"}
OwnStage == {"gate", "reserve", "entry", "abort", "record", "refresh", "eval",
             "exit", "report", "cleanup", "unlist", "closed", "current",
             "release", "settle"}
Active == FlipStage \cup OwnStage
Stage == {"unsent", "stream", "delivered", "pulling", "queued", "done",
          "failed", "lost"} \cup Active

VARIABLES
  stage,     \* stage[p]: how far signal p has come
  idx,       \* idx[p], side[p], intent[p]: the signal's fields
  side,
  intent,
  victim,    \* the position that p's flip, or p's exit pull, is aimed at
  prem,      \* premium_reserved of p
  held,      \* reservations made and not yet released by their own worker
  symbols,   \* orders:allocator:open_symbols
  openTotal, \* orders:allocator:open_count["total"]
  deployedTotal, \* orders:allocator:deployed["total"]
  cost,      \* what the broker was paid for p; 0 until p is bought
  sold,      \* how many times p's quantity was sold
  abandoned, \* bought by an entry that reported failure: no record is kept
  hash,      \* orders:positions:{p}: "none", "full", or only mark-to-market
  open,      \* orders:positions:open
  closed,    \* orders:positions:closed_today
  reports,   \* reports queued for p on orders:reports:pending
  unreported,  \* positions for which queuing the report has failed
  cur,       \* cur[i]: the vessel's current_position_id, NoPos when ""
  vstate,    \* vstate[i]: FLAT, COOLDOWN, or the side s for IN_s
  pull,      \* positions with an orders:exit_pull flag
  seen,      \* seen[i]: the state the vessel read this tick, "synced" once its
             \* memory follows that state, None between ticks
  mem,       \* mem[i]: memory.held_side, None when nothing is held
  faults     \* exceptions and crashes so far

signal  == <<idx, side, intent>>
ledger  == <<symbols, openTotal, deployedTotal>>
broker  == <<cost, sold, abandoned>>
book    == <<hash, open, closed, reports, unreported>>
vessel  == <<seen, mem>>
vars == <<stage, signal, victim, prem, held, ledger, broker, book, cur, vstate,
          pull, vessel, faults>>

VState == Side \cup {"FLAT", "COOLDOWN"}

TypeOK ==
  /\ stage \in [Pos -> Stage]
  /\ idx \in [Pos -> Index \cup {None}]
  /\ side \in [Pos -> Side \cup {None}]
  /\ intent \in [Pos -> Intent \cup {"none"}]
  /\ \A p \in Pos : stage[p] # "unsent" => idx[p] \in Index /\ side[p] \in Side
  /\ victim \in [Pos -> Pos \cup {NoPos}]
  /\ prem \in [Pos -> Premium \cup {0}]
  /\ held \subseteq Pos
  /\ symbols \subseteq Index /\ openTotal \in Int /\ deployedTotal \in Int
  /\ cost \in [Pos -> Nat] /\ sold \in [Pos -> Nat] /\ abandoned \subseteq Pos
  /\ hash \in [Pos -> {"none", "full", "partial"}]
  /\ open \subseteq Pos /\ closed \subseteq Pos
  /\ reports \in [Pos -> Nat] /\ unreported \subseteq Pos
  /\ cur \in [Index -> Pos \cup {NoPos}]
  /\ vstate \in [Index -> VState]
  /\ pull \subseteq Pos
  /\ seen \in [Index -> VState \cup {"synced", None}]
  /\ mem \in [Index -> Side \cup {None}]
  /\ faults \in 0..MaxFaults

\* The state engines/init leaves: an empty book and a flat vessel per index.
Init ==
  /\ stage = [p \in Pos |-> "unsent"]
  /\ idx = [p \in Pos |-> None]
  /\ side = [p \in Pos |-> None]
  /\ intent = [p \in Pos |-> "none"]
  /\ victim = [p \in Pos |-> NoPos]
  /\ prem = [p \in Pos |-> 0]
  /\ held = {}
  /\ symbols = {} /\ openTotal = 0 /\ deployedTotal = 0
  /\ cost = [p \in Pos |-> 0] /\ sold = [p \in Pos |-> 0] /\ abandoned = {}
  /\ hash = [p \in Pos |-> "none"]
  /\ open = {} /\ closed = {} /\ reports = [p \in Pos |-> 0] /\ unreported = {}
  /\ cur = [i \in Index |-> NoPos]
  /\ vstate = [i \in Index |-> "FLAT"]
  /\ pull = {}
  /\ seen = [i \in Index |-> None] /\ mem = [i \in Index |-> None]
  /\ faults = 0

GoTo(p, s) == stage' = [stage EXCEPT ![p] = s]
First(p, s) == /\ stage[p] = s
               /\ \A q \in Pos : stage[q] = s => p <= q
-----------------------------------------------------------------------------
(* The vessel: one asyncio task per index, reading what order_exec wrote.  *)

\* A tick begins: read_state.
VesselRead(i) ==
  /\ seen[i] = None
  /\ seen' = [seen EXCEPT ![i] = vstate[i]]
  /\ UNCHANGED <<stage, signal, victim, prem, held, ledger, broker, book, cur,
                 vstate, pull, mem, faults>>

\* maybe_exit_cooldown read COOLDOWN, found the timer elapsed, and writes FLAT
\* without looking again.
VesselExitCooldown(i) ==
  /\ seen[i] = "COOLDOWN"
  /\ vstate' = [vstate EXCEPT ![i] = "FLAT"]
  /\ seen' = [seen EXCEPT ![i] = None]
  /\ UNCHANGED <<stage, signal, victim, prem, held, ledger, broker, book, cur,
                 pull, mem, faults>>

\* Memory follows the state that was read; the held leg is looked up through
\* current_position_id only when memory does not have that side already.
SyncedMemory(i) ==
  IF seen[i] \notin Side THEN None
  ELSE IF mem[i] = seen[i] \/ cur[i] = NoPos THEN mem[i]
  ELSE IF hash[cur[i]] = "full" THEN seen[i]
  ELSE None

\* In cooldown the tick ends here: telemetry only.
VesselSync(i) ==
  /\ seen[i] \in VState
  /\ mem' = [mem EXCEPT ![i] = SyncedMemory(i)]
  /\ seen' = [seen EXCEPT ![i] = IF @ = "COOLDOWN" THEN None ELSE "synced"]
  /\ UNCHANGED <<stage, signal, victim, prem, held, ledger, broker, book, cur,
                 vstate, pull, faults>>

\* on_tick emits nothing (NO_OP, HOLD, REVERSAL_WARN).
VesselIdle(i) ==
  /\ seen[i] = "synced"
  /\ seen' = [seen EXCEPT ![i] = None]
  /\ UNCHANGED <<stage, signal, victim, prem, held, ledger, broker, book, cur,
                 vstate, pull, mem, faults>>

\* on_tick: with a held leg in memory the vessel asks for an exit or for a flip
\* to the other side, without one (whatever the state) for a fresh entry.
MayEmit(m, kind, s) ==
  \/ m = None /\ kind = "FRESH_ENTRY"
  \/ m # None /\ kind = "MANUAL_EXIT" /\ s = m
  \/ m # None /\ kind = "REVERSAL_FLIP" /\ s # m

\* _apply_action and publisher.emit_signal: XADD on the signal stream.
VesselEmit(i, p, kind, s) ==
  /\ seen[i] = "synced"
  /\ First(p, "unsent")
  /\ MayEmit(mem[i], kind, s)
  /\ GoTo(p, "stream")
  /\ idx' = [idx EXCEPT ![p] = i]
  /\ side' = [side EXCEPT ![p] = s]
  /\ intent' = [intent EXCEPT ![p] = kind]
  /\ seen' = [seen EXCEPT ![i] = None]
  /\ UNCHANGED <<victim, prem, held, ledger, broker, book, cur, vstate, pull,
                 mem, faults>>
-----------------------------------------------------------------------------
(* The dispatcher: one coroutine, one batch at a time.                     *)

\* XREADGROUP ">" moves everything on the stream to this consumer.
Deliver ==
  /\ \E p \in Pos : stage[p] = "stream"
  /\ \A p \in Pos : stage[p] \notin {"delivered", "pulling"}
  /\ stage' = [p \in Pos |-> IF stage[p] = "stream" THEN "delivered" ELSE stage[p]]
  /\ UNCHANGED <<signal, victim, prem, held, ledger, broker, book, cur, vstate,
                 pull, vessel, faults>>

DispatchNext(p) == /\ First(p, "delivered")
                   /\ \A q \in Pos : stage[q] # "pulling"

\* An entry or a flip goes to the pool, and is acknowledged.
DispatchToPool(p) ==
  /\ DispatchNext(p)
  /\ intent[p] # "MANUAL_EXIT"
  /\ GoTo(p, "queued")
  /\ UNCHANGED <<signal, victim, prem, held, ledger, broker, book, cur, vstate,
                 pull, vessel, faults>>

\* Slip: a pull flag is set even when no position is current.
ManualExitReadUnchecked(p) ==
  /\ DispatchNext(p)
  /\ intent[p] = "MANUAL_EXIT"
  /\ victim' = [victim EXCEPT ![p] = cur[idx[p]]]
  /\ GoTo(p, "pulling")
  /\ UNCHANGED <<signal, prem, held, ledger, broker, book, cur, vstate, pull,
                 vessel, faults>>

\* An exit request is resolved to whatever position is current now ...
ManualExitRead(p) ==
  /\ DispatchNext(p)
  /\ intent[p] = "MANUAL_EXIT"
  /\ victim' = [victim EXCEPT ![p] = cur[idx[p]]]
  /\ GoTo(p, IF cur[idx[p]] = NoPos THEN "done" ELSE "pulling")
  /\ UNCHANGED <<signal, prem, held, ledger, broker, book, cur, vstate, pull,
                 vessel, faults>>

\* ... and that position's exit_pull flag is set.
ManualExitPull(p) ==
  /\ stage[p] = "pulling"
  /\ pull' = pull \cup {victim[p]}
  /\ GoTo(p, "done")
  /\ UNCHANGED <<signal, victim, prem, held, ledger, broker, book, cur, vstate,
                 vessel, faults>>

\* Slip: the signals that wait are counted among those being processed.
TakeUnlessCrowded(p) ==
  /\ First(p, "queued")
  /\ Cardinality({q \in Pos : stage[q] \in Active \cup {"queued"}}) <= PoolSize
  /\ GoTo(p, IF intent[p] = "REVERSAL_FLIP" THEN "flip_read" ELSE "gate")
  /\ UNCHANGED <<signal, victim, prem, held, ledger, broker, book, cur, vstate,
                 pull, vessel, faults>>

\* A free thread takes the oldest signal of the queue.
Take(p) ==
  /\ First(p, "queued")
  /\ Cardinality({q \in Pos : stage[q] \in Active}) < PoolSize
  /\ GoTo(p, IF intent[p] = "REVERSAL_FLIP" THEN "flip_read" ELSE "gate")
  /\ UNCHANGED <<signal, victim, prem, held, ledger, broker, book, cur, vstate,
                 pull, vessel, faults>>
-----------------------------------------------------------------------------
(* _close_existing_position_for_flip, run by the worker of the flip.       *)

FlipRead(p) ==
  /\ stage[p] = "flip_read"
  /\ victim' = [victim EXCEPT ![p] = cur[idx[p]]]
  /\ GoTo(p, IF cur[idx[p]] = NoPos THEN "gate" ELSE "flip_load")
  /\ UNCHANGED <<signal, prem, held, ledger, broker, book, cur, vstate, pull,
                 vessel, faults>>

\* Slip: the flip goes straight to the report.
FlipLoadSkipsSale(p) ==
  /\ stage[p] = "flip_load"
  /\ GoTo(p, IF hash[victim[p]] = "full" THEN "flip_report" ELSE "done")
  /\ UNCHANGED <<signal, victim, prem, held, ledger, broker, book, cur, vstate,
                 pull, vessel, faults>>

\* A hash that is gone, or that only has mark-to-market fields, does not
\* validate as a Position: the flip is rejected as reversal_close_failed.
FlipLoad(p) ==
  /\ stage[p] = "flip_load"
  /\ GoTo(p, IF hash[victim[p]] = "full" THEN "flip_exit" ELSE "done")
  /\ UNCHANGED <<signal, victim, prem, held, ledger, broker, book, cur, vstate,
                 pull, vessel, faults>>

FlipExit(p) ==
  /\ stage[p] = "flip_exit"
  /\ sold' = [sold EXCEPT ![victim[p]] = @ + 1]
  /\ GoTo(p, "flip_report")
  /\ UNCHANGED <<signal, victim, prem, held, ledger, cost, abandoned, book,
                 cur, vstate, pull, vessel, faults>>

FlipReport(p) ==
  /\ stage[p] = "flip_report"
  /\ reports' = [reports EXCEPT ![victim[p]] = @ + 1]
  /\ GoTo(p, "flip_cleanup")
  /\ UNCHANGED <<signal, victim, prem, held, ledger, broker, hash, open, closed,
                 unreported, cur, vstate, pull, vessel, faults>>

\* cleanup() tears position q down with a pipeline without MULTI, so the
\* commands of other clients come between its own: DEL of the hash, SREM from
\* the open set, SADD to closed_today, SET of current_position_id, each taking
\* worker p from one stage to the next.
DeleteHash(p, q, from, to) ==
  /\ stage[p] = from
  /\ hash' = [hash EXCEPT ![q] = "none"]
  /\ GoTo(p, to)
  /\ UNCHANGED <<signal, victim, prem, held, ledger, broker, open, closed,
                 reports, unreported, cur, vstate, pull, vessel, faults>>

RemoveFromOpen(p, q, from, to) ==
  /\ stage[p] = from
  /\ open' = open \ {q}
  /\ GoTo(p, to)
  /\ UNCHANGED <<signal, victim, prem, held, ledger, broker, hash, closed,
                 reports, unreported, cur, vstate, pull, vessel, faults>>

AddToClosed(p, q, from, to) ==
  /\ stage[p] = from
  /\ closed' = closed \cup {q}
  /\ GoTo(p, to)
  /\ UNCHANGED <<signal, victim, prem, held, ledger, broker, hash, open,
                 reports, unreported, cur, vstate, pull, vessel, faults>>

\* current_position_id is blanked whatever it holds.
ClearCurrent(p, from, to) ==
  /\ stage[p] = from
  /\ cur' = [cur EXCEPT ![idx[p]] = NoPos]
  /\ GoTo(p, to)
  /\ UNCHANGED <<signal, victim, prem, held, ledger, broker, book, vstate, pull,
                 vessel, faults>>

FlipCleanup(p) ==
  \/ DeleteHash(p, victim[p], "flip_cleanup", "flip_unlist")
  \/ RemoveFromOpen(p, victim[p], "flip_unlist", "flip_closed")
  \/ AddToClosed(p, victim[p], "flip_closed", "flip_current")
  \/ ClearCurrent(p, "flip_current", "flip_release")

\* allocator.release(index, amount), unconditional.
AllocatorRelease(i, amount) ==
  /\ symbols' = symbols \ {i}
  /\ openTotal' = openTotal - 1
  /\ deployedTotal' = deployedTotal - amount

\* The flip gives back entry_price * qty, the fill cost, not the reservation.
FlipRelease(p) ==
  /\ stage[p] = "flip_release"
  /\ AllocatorRelease(idx[p], cost[victim[p]])
  /\ GoTo(p, "gate")
  /\ UNCHANGED <<signal, victim, prem, held, broker, book, cur, vstate, pull,
                 vessel, faults>>
-----------------------------------------------------------------------------
(* process_signal proper, run by the worker of p.                          *)

\* The read-only gates look at flags and quotes and may refuse at any time.
Gate(p) ==
  /\ stage[p] = "gate"
  /\ \/ GoTo(p, "reserve")
     \/ GoTo(p, "done")
  /\ UNCHANGED <<signal, victim, prem, held, ledger, broker, book, cur, vstate,
                 pull, vessel, faults>>

\* Slip: the per-index cap is not checked.
CapsAllowAnyIndex(i, m) ==
  /\ openTotal + 1 <= MaxConcurrent
  /\ deployedTotal + m <= Capital

CapsAllow(i, m) ==
  /\ i \notin symbols
  /\ openTotal + 1 <= MaxConcurrent
  /\ deployedTotal + m <= Capital

\* The three caps hold and the reservation is written.
TakeReservation(p, m) ==
  /\ CapsAllow(idx[p], m)
  /\ symbols' = symbols \cup {idx[p]}
  /\ openTotal' = openTotal + 1
  /\ deployedTotal' = deployedTotal + m
  /\ prem' = [prem EXCEPT ![p] = m]
  /\ held' = held \cup {p}

Reserve(p, m) ==
  /\ stage[p] = "reserve"
  /\ TakeReservation(p, m)
  /\ GoTo(p, "entry")
  /\ UNCHANGED <<signal, victim, broker, book, cur, vstate, pull, vessel, faults>>

ReserveRefused(p, m) ==
  /\ stage[p] = "reserve"
  /\ ~CapsAllow(idx[p], m)
  /\ GoTo(p, "done")
  /\ UNCHANGED <<signal, victim, prem, held, ledger, broker, book, cur, vstate,
                 pull, vessel, faults>>

EntryFill(p, slip) ==
  /\ stage[p] = "entry"
  /\ cost' = [cost EXCEPT ![p] = prem[p] + slip]
  /\ GoTo(p, "record")
  /\ UNCHANGED <<signal, victim, prem, held, ledger, sold, abandoned, book, cur,
                 vstate, pull, vessel, faults>>

\* Slip: an abandoned entry returns without releasing.
EntryAbandonNoRelease(p) ==
  /\ stage[p] = "entry"
  /\ GoTo(p, "done")
  /\ UNCHANGED <<signal, victim, prem, held, ledger, broker, book, cur, vstate,
                 pull, vessel, faults>>

\* The entry reports that it bought nothing.  In live mode the order may have
\* been filled, in part or while the cancel was under way, after the price ran
\* away, the grace period or the timeout: nobody records that purchase.
EntryAbandon(p) ==
  /\ stage[p] = "entry"
  /\ GoTo(p, "abort")
  /\ \/ UNCHANGED <<cost, abandoned>>
     \/ \E slip \in Slippage : /\ cost' = [cost EXCEPT ![p] = prem[p] + slip]
                               /\ abandoned' = abandoned \cup {p}
  /\ UNCHANGED <<signal, victim, prem, held, ledger, sold, book, cur, vstate,
                 pull, vessel, faults>>

AbortRelease(p) ==
  /\ stage[p] = "abort"
  /\ AllocatorRelease(idx[p], prem[p])
  /\ held' = held \ {p}
  /\ GoTo(p, "done")
  /\ UNCHANGED <<signal, victim, prem, broker, book, cur, vstate, pull, vessel,
                 faults>>

\* One MULTI publishes the position and moves the vessel to IN_<side>.
Record(p) ==
  /\ stage[p] = "record"
  /\ hash' = [hash EXCEPT ![p] = "full"]
  /\ open' = open \cup {p}
  /\ cur' = [cur EXCEPT ![idx[p]] = p]
  /\ vstate' = [vstate EXCEPT ![idx[p]] = side[p]]
  /\ GoTo(p, "refresh")
  /\ UNCHANGED <<signal, victim, prem, held, ledger, broker, closed, reports,
                 unreported, pull, vessel, faults>>

\* The watch loop writes the mark-to-market fields first; on a hash that was
\* deleted meanwhile HSET creates a new one with those fields alone.
Refresh(p) ==
  /\ stage[p] = "refresh"
  /\ hash' = [hash EXCEPT ![p] = IF @ = "none" THEN "partial" ELSE @]
  /\ GoTo(p, "eval")
  /\ UNCHANGED <<signal, victim, prem, held, ledger, broker, open, closed,
                 reports, unreported, cur, vstate, pull, vessel, faults>>

\* exit_eval.evaluate says no; the pull flag alone would have made it say yes.
EvalHold(p) ==
  /\ stage[p] = "eval"
  /\ p \notin pull
  /\ GoTo(p, "refresh")
  /\ UNCHANGED <<signal, victim, prem, held, ledger, broker, book, cur, vstate,
                 pull, vessel, faults>>

\* The pull flag, or any of the price, time and risk triggers.
EvalExit(p) ==
  /\ stage[p] = "eval"
  /\ GoTo(p, "exit")
  /\ UNCHANGED <<signal, victim, prem, held, ledger, broker, book, cur, vstate,
                 pull, vessel, faults>>

\* Slip: the exit reports completion without a fill.
ExitUnfilled(p) ==
  /\ stage[p] = "exit"
  /\ GoTo(p, "report")
  /\ UNCHANGED <<signal, victim, prem, held, ledger, broker, book, cur, vstate,
                 pull, vessel, faults>>

Exit(p) ==
  /\ stage[p] = "exit"
  /\ sold' = [sold EXCEPT ![p] = @ + 1]
  /\ GoTo(p, "report")
  /\ UNCHANGED <<signal, victim, prem, held, ledger, cost, abandoned, book,
                 cur, vstate, pull, vessel, faults>>

Report(p) ==
  /\ stage[p] = "report"
  /\ reports' = [reports EXCEPT ![p] = @ + 1]
  /\ GoTo(p, "cleanup")
  /\ UNCHANGED <<signal, victim, prem, held, ledger, broker, hash, open, closed,
                 unreported, cur, vstate, pull, vessel, faults>>

\* Slips: the teardown leaves the position in the open set, or leaves
\* current_position_id as it is.
CleanupKeepsOpen(p) ==
  \/ DeleteHash(p, p, "cleanup", "closed")
  \/ AddToClosed(p, p, "closed", "current")
  \/ ClearCurrent(p, "current", "release")

CleanupKeepsCurrent(p) ==
  \/ DeleteHash(p, p, "cleanup", "unlist")
  \/ RemoveFromOpen(p, p, "unlist", "closed")
  \/ AddToClosed(p, p, "closed", "release")

Cleanup(p) ==
  \/ DeleteHash(p, p, "cleanup", "unlist")
  \/ RemoveFromOpen(p, p, "unlist", "closed")
  \/ AddToClosed(p, p, "closed", "current")
  \/ ClearCurrent(p, "current", "release")

Release(p) ==
  /\ stage[p] = "release"
  /\ AllocatorRelease(idx[p], prem[p])
  /\ held' = held \ {p}
  /\ GoTo(p, "settle")
  /\ UNCHANGED <<signal, victim, prem, broker, book, cur, vstate, pull, vessel,
                 faults>>

\* DEL exit_pull, then one MULTI sets the vessel to COOLDOWN or FLAT, by the
\* exit reason and the configured seconds, whatever the state is by now.
Settle(p) ==
  /\ stage[p] = "settle"
  /\ pull' = pull \ {p}
  /\ \E s \in {"FLAT", "COOLDOWN"} : vstate' = [vstate EXCEPT ![idx[p]] = s]
  /\ GoTo(p, "done")
  /\ UNCHANGED <<signal, victim, prem, held, ledger, broker, book, cur, vessel,
                 faults>>
-----------------------------------------------------------------------------
(* Failures.                                                               *)

Fault == faults < MaxFaults /\ faults' = faults + 1

\* Any call raises; worker_loop logs it and takes the next signal.
WorkerRaises(p) ==
  /\ Fault
  /\ stage[p] \in Active
  /\ GoTo(p, "failed")
  /\ UNCHANGED <<signal, victim, prem, held, ledger, broker, book, cur, vstate,
                 pull, vessel>>

\* The reservation is written and its reply lost (Allocator!LoseReply): the
\* signal is rejected, the reservation stays.
ReserveReplyLost(p, m) ==
  /\ Fault
  /\ stage[p] = "reserve"
  /\ TakeReservation(p, m)
  /\ GoTo(p, "done")
  /\ UNCHANGED <<signal, victim, broker, book, cur, vstate, pull, vessel>>

\* exit_submit raises inside the flip, before anything was sold: rejected.
FlipExitRaises(p) ==
  /\ Fault
  /\ stage[p] = "flip_exit"
  /\ GoTo(p, "done")
  /\ UNCHANGED <<signal, victim, prem, held, ledger, broker, book, cur, vstate,
                 pull, vessel>>

\* The RPUSH of the report fails: it is logged and the worker goes on to the
\* teardown.  (When only the reply or the LTRIM fails, the report is queued.)
ReportFails(p) ==
  /\ Fault
  /\ \/ /\ stage[p] = "report" /\ GoTo(p, "cleanup")
        /\ unreported' = unreported \cup {p}
     \/ /\ stage[p] = "flip_report" /\ GoTo(p, "flip_cleanup")
        /\ unreported' = unreported \cup {victim[p]}
  /\ UNCHANGED <<signal, victim, prem, held, ledger, broker, hash, open, closed,
                 reports, cur, vstate, pull, vessel>>

\* cleanup() and release() swallow their own exceptions and the worker goes on;
\* the pipeline of cleanup() may have run in part.
CleanupFails(p) ==
  /\ Fault
  /\ \/ /\ stage[p] \in {"cleanup", "unlist", "closed", "current"}
        /\ GoTo(p, "release")
     \/ /\ stage[p] \in {"flip_cleanup", "flip_unlist", "flip_closed", "flip_current"}
        /\ GoTo(p, "flip_release")
  /\ UNCHANGED <<signal, victim, prem, held, ledger, broker, book, cur, vstate,
                 pull, vessel>>

ReleaseFails(p) ==
  /\ Fault
  /\ \/ stage[p] = "release" /\ GoTo(p, "settle")
     \/ stage[p] = "abort" /\ GoTo(p, "done")
     \/ stage[p] = "flip_release" /\ GoTo(p, "gate")
  /\ UNCHANGED <<signal, victim, prem, held, ledger, broker, book, cur, vstate,
                 pull, vessel>>

\* The process stops and is started again.  Signals read from the stream are
\* not read again, the queue and the threads are gone, Redis stays as it is.
EngineRestart ==
  /\ Fault
  /\ stage' = [p \in Pos |->
                 IF stage[p] \in {"delivered", "pulling", "queued"} \cup Active
                 THEN "lost" ELSE stage[p]]
  /\ UNCHANGED <<signal, victim, prem, held, ledger, broker, book, cur, vstate,
                 pull, vessel>>
-----------------------------------------------------------------------------
Vessel(i) ==
  \/ VesselRead(i) \/ VesselExitCooldown(i) \/ VesselSync(i) \/ VesselIdle(i)
  \/ \E p \in Pos, kind \in Intent, s \in Side : VesselEmit(i, p, kind, s)

Dispatch(p) == DispatchToPool(p) \/ ManualExitRead(p) \/ ManualExitPull(p)

FlipClose(p) ==
  \/ FlipRead(p) \/ FlipLoad(p) \/ FlipExit(p) \/ FlipReport(p)
  \/ FlipCleanup(p) \/ FlipRelease(p)

EnterStep(p) ==
  \/ Gate(p)
  \/ \E m \in Premium : Reserve(p, m) \/ ReserveRefused(p, m)
  \/ \E slip \in Slippage : EntryFill(p, slip)
  \/ EntryAbandon(p) \/ AbortRelease(p) \/ Record(p)

WatchStep(p) == Refresh(p) \/ EvalHold(p) \/ EvalExit(p)

CloseStep(p) == Exit(p) \/ Report(p) \/ Cleanup(p) \/ Release(p) \/ Settle(p)

Worker(p) == FlipClose(p) \/ EnterStep(p) \/ WatchStep(p) \/ CloseStep(p)

Failure(p) == \/ WorkerRaises(p) \/ FlipExitRaises(p) \/ ReportFails(p)
              \/ CleanupFails(p) \/ ReleaseFails(p)
              \/ \E m \in Premium : ReserveReplyLost(p, m)

Next == \/ \E i \in Index : Vessel(i)
        \/ Deliver
        \/ \E p \in Pos : Dispatch(p) \/ Take(p) \/ Worker(p) \/ Failure(p)
        \/ EngineRestart

Spec == Init /\ [][Next]_vars

\* submit_and_complete is selling: in live mode it has no deadline.
Selling(p) == stage[p] \in {"exit", "flip_exit"}

\* The dispatcher and the threads keep running, except that a thread may wait
\* for ever for the fill of a live exit.  The watch loop of an open position
\* ends: from 15:15 every evaluation says yes, and max_hold_sec is finite.  The
\* vessel and the failures owe nothing.
FairSpec ==
  /\ Spec
  /\ WF_vars(Deliver \/ \E p \in Pos : Dispatch(p))
  /\ WF_vars(\E p \in Pos : Take(p))
  /\ \A p \in Pos : WF_vars(~Selling(p) /\ Worker(p)) /\ SF_vars(EvalExit(p))
-----------------------------------------------------------------------------
Bought(p) == cost[p] > 0
Unsold(p) == Bought(p) /\ sold[p] = 0

\* No flip has found a position to close so far.  The flip path takes a
\* position away from the thread that watches it, and the guarantees below end
\* there.
NoFlipClose == \A p \in Pos : intent[p] = "REVERSAL_FLIP" => victim[p] = NoPos

\* "Only one open position per index": of the purchases an entry has reported,
\* the broker never holds two of one index at once, however signals, exits,
\* exceptions, half-done teardowns and restarts interleave.  What a live entry
\* bought and then abandoned is not among them: its reservation is released
\* and the next signal may buy again.
OneUnsoldPerIndex ==
  NoFlipClose =>
    \A p, q \in Pos \ abandoned :
      Unsold(p) /\ Unsold(q) /\ idx[p] = idx[q] => p = q

\* The allocator's shared records count exactly the reservations that their
\* workers have not given back, those of failed and lost workers included.
LedgerCountsHeld ==
  NoFlipClose =>
    /\ \A p, q \in held : idx[p] = idx[q] => p = q
    /\ symbols = {idx[p] : p \in held}
    /\ openTotal = Cardinality(held)
    /\ openTotal <= MaxConcurrent /\ deployedTotal <= Capital

\* current_position_id, the open set and the position hash describe the same
\* position at every command: an open position is current on its index, and
\* loadable until its own worker has sent the DEL of its teardown; what is
\* current is open, or its own worker has removed it and is about to blank it.
BookConsistent ==
  NoFlipClose /\ faults = 0 =>
    /\ \A p \in open :
         /\ cur[idx[p]] = p
         /\ hash[p] = "full" \/ stage[p] = "unlist"
    /\ \A i \in Index : cur[i] # NoPos =>
         /\ idx[cur[i]] = i
         /\ cur[i] \in open \/ stage[cur[i]] \in {"closed", "current"}

\* When every signal has been dealt with and nothing failed, nothing is left
\* behind: no reservation, no open or current position, no vessel stuck in a
\* position, and every purchase that an entry reported was sold and reported
\* once.  What a live entry bought and abandoned was never sold.
SettledMeansFlat ==
  (NoFlipClose /\ faults = 0 /\ \A p \in Pos : stage[p] \in {"unsent", "done"}) =>
    /\ symbols = {} /\ openTotal = 0 /\ deployedTotal = 0 /\ held = {}
    /\ open = {} /\ \A i \in Index : cur[i] = NoPos /\ vstate[i] \notin Side
    /\ \A p \in Pos : Bought(p) =>
         IF p \in abandoned THEN sold[p] = 0
         ELSE p \in closed /\ sold[p] = 1 /\ reports[p] = 1

\* A flip buys its new leg only after the position it replaces was sold, and a
\* position is filed as closed only after it was sold and after its report was
\* queued or the attempt to queue it failed, whoever closes it and whatever
\* else fails.
ClosedOnlyAfterSale ==
  /\ \A p \in closed : sold[p] > 0 /\ (reports[p] > 0 \/ p \in unreported)
  /\ \A p \in Pos : (intent[p] = "REVERSAL_FLIP" /\ victim[p] # NoPos /\ Bought(p))
                      => sold[victim[p]] > 0

\* current_position_id never goes from one position to another without being
\* blanked in between: nobody's open position is overwritten.
CurrentNotOverwritten ==
  [][\A i \in Index :
       (NoFlipClose' /\ faults' = 0 /\ cur[i] # NoPos) => cur'[i] \in {cur[i], NoPos}]_vars

\* Every signal that reaches the stream is dealt with although it waits for the
\* dispatcher, for its place in the queue and for a free thread, when nothing
\* fails and no sale waits for ever for its fill.
SignalsSettle ==
  (\A q \in Pos : []<>~Selling(q)) =>
     <>[](faults > 0 \/ \A p \in Pos : stage[p] \in {"unsent", "done"})
-----------------------------------------------------------------------------
(* What the repository says of this engine and the code does not do; each  *)
(* is refuted by a run.                                                    *)

\* cleanup.py rests on the position being closed by the one thread that owns
\* it: no position is sold twice.
PositionSoldOnce == \A p \in Pos : sold[p] <= 1

\* runner.py says Redis state never lies about whether a position is open: a
\* vessel with an open position is in IN_CE or IN_PE.  Stated for behaviours
\* without faults and without a flip that closes anything.
StateNeverLies ==
  NoFlipClose /\ faults = 0 => \A p \in open : vstate[idx[p]] \in Side

\* Sequential_Flow.md says a restart of an engine skips no exits: an open
\* position is not left without a worker by one.
RestartSkipsNoExit == \A p \in open : stage[p] # "lost"
=============================================================================
