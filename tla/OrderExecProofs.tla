-------------------------- MODULE OrderExecProofs --------------------------
(***************************************************************************)
(* Proofs about the trade life cycle of order_exec for every number of     *)
(* indexes, signals, threads and faults: until a flip takes over another   *)
(* worker's position, the broker holds at most one position per index that *)
(* an entry has reported, and the allocator's ledger counts the            *)
(* reservations that are outstanding.                                      *)
(***************************************************************************)
EXTENDS OrderExec, TLAPS, FiniteSetTheorems

\* Stages before the worker has reserved, while it owes a release, and after
\* it has sold.
Unprocessed == {"unsent", "stream", "delivered", "queued", "flip_read"}
PreReserve  == Unprocessed \cup {"pulling", "gate", "reserve"} \cup FlipStage
Owing == {"entry", "abort", "record", "refresh", "eval", "exit", "report",
          "cleanup", "unlist", "closed", "current", "release"}
AfterSale == {"report", "cleanup", "unlist", "closed", "current", "release", "settle"}

\* Stages a signal can be in once its entry was abandoned.
AfterAbandon == {"abort", "done", "failed", "lost"}

\* The victim of a flip or of a pull is chosen once, and is a position.
VictimInv ==
  /\ \A p \in Pos : stage[p] \in Unprocessed => victim[p] = NoPos
  /\ \A p \in Pos : stage[p] = "pulling" => victim[p] \in Pos
  /\ \A p \in Pos : stage[p] \in FlipStage => intent[p] = "REVERSAL_FLIP"
  /\ \A p \in Pos : stage[p] \in FlipStage \ {"flip_read"} => victim[p] \in Pos

\* A worker reserves before it buys and sells before it releases, so whatever
\* is bought and not sold is covered by a reservation, unless a live entry
\* bought and abandoned it.
HoldInv ==
  /\ \A p \in Pos : stage[p] \in PreReserve => p \notin held /\ cost[p] = 0
  /\ \A p \in Pos : stage[p] = "entry" => cost[p] = 0
  /\ \A p \in Pos : stage[p] = "abort" => cost[p] = 0 \/ p \in abandoned
  /\ \A p \in abandoned : stage[p] \in AfterAbandon
  /\ \A p \in Pos : stage[p] \in Owing => p \in held
  /\ \A p \in Pos : stage[p] \in AfterSale => sold[p] > 0
  /\ \A p \in held : prem[p] \in Premium /\ idx[p] \in Index
  /\ \A p \in Pos : Unsold(p) => p \in held \cup abandoned

IInv == TypeOK /\ VictimInv /\ HoldInv /\ LedgerCountsHeld

\* At the start no signal has been sent, nothing is reserved and the ledger is
\* zero.
LEMMA InitIInv == Init => IInv
  <1> SUFFICES ASSUME Init PROVE IInv
    OBVIOUS
  <1> USE OrderExecAssumption DEF Init
  <1>1. TypeOK
    BY DEF TypeOK, Stage, VState, NoPos
  <1>2. VictimInv
    BY DEF VictimInv, FlipStage, NoPos
  <1>3. HoldInv
    BY DEF HoldInv, Owing, AfterSale, AfterAbandon, Unsold, Bought
  <1>4. LedgerCountsHeld
    BY FS_EmptySet DEF LedgerCountsHeld
  <1> QED
    BY <1>1, <1>2, <1>3, <1>4 DEF IInv

\* The set of positions is finite, and so is every set of reservations.
LEMMA HeldFinite == TypeOK => IsFiniteSet(held)
  <1>1. IsFiniteSet(Pos)
    BY FS_Interval, OrderExecAssumption DEF Pos
  <1> QED
    BY <1>1, FS_Subset DEF TypeOK

\* A step that leaves the ledger, the reservations and their indexes alone
\* keeps the ledger in step, provided no history of flip closes is forgotten.
LEMMA QuietLedger ==
  ASSUME LedgerCountsHeld, UNCHANGED <<held, ledger>>,
         \A p \in held : idx'[p] = idx[p],
         NoFlipClose' => NoFlipClose
  PROVE  LedgerCountsHeld'
  <1>1. {idx[p] : p \in held}' = {idx[p] : p \in held}
    OBVIOUS
  <1> QED
    BY <1>1 DEF LedgerCountsHeld, ledger

\* The steps that only move one signal from one stage to another: everything
\* the invariant relates to a stage survives if the move stays on the same side
\* of the reservation and of the sale.
LEMMA Move ==
  ASSUME IInv, NEW p \in Pos, NEW s \in Stage, GoTo(p, s),
         stage[p] # "unsent", s # "unsent",
         UNCHANGED <<signal, victim, prem, held, ledger, cost, abandoned>>,
         sold' \in [Pos -> Nat], \A q \in Pos : sold'[q] >= sold[q],
         s \in Unprocessed => stage[p] \in Unprocessed,
         s # "pulling",
         s \in FlipStage => /\ intent[p] = "REVERSAL_FLIP"
                            /\ s # "flip_read" => victim[p] \in Pos,
         s \in PreReserve => stage[p] \in PreReserve,
         s # "entry", s = "abort" => stage[p] = "entry",
         stage[p] \in AfterAbandon => s \in AfterAbandon,
         s \in Owing => stage[p] \in Owing,
         s \in AfterSale => stage[p] \in AfterSale \/ sold'[p] > 0
  PROVE  VictimInv' /\ HoldInv' /\ LedgerCountsHeld'
  <1>1. stage \in [Pos -> Stage] /\ sold \in [Pos -> Nat]
    BY DEF IInv, TypeOK
  <1>2. VictimInv'
    BY <1>1 DEF IInv, VictimInv, GoTo, signal
  <1>3. HoldInv'
    BY <1>1 DEF IInv, HoldInv, GoTo, signal, Unsold, Bought
  <1>4. LedgerCountsHeld'
    BY QuietLedger DEF IInv, signal, NoFlipClose
  <1> QED
    BY <1>2, <1>3, <1>4

\* The same for the steps that do not trade either.
LEMMA Relabel ==
  ASSUME IInv, NEW p \in Pos, NEW s \in Stage, GoTo(p, s),
         stage[p] # "unsent", s # "unsent",
         UNCHANGED <<signal, victim, prem, held, ledger, broker>>,
         s \in Unprocessed => stage[p] \in Unprocessed,
         s # "pulling",
         s \in FlipStage => /\ intent[p] = "REVERSAL_FLIP"
                            /\ s # "flip_read" => victim[p] \in Pos,
         s \in PreReserve => stage[p] \in PreReserve,
         s # "entry", s = "abort" => stage[p] = "entry",
         stage[p] \in AfterAbandon => s \in AfterAbandon,
         s \in Owing => stage[p] \in Owing,
         s \in AfterSale => stage[p] \in AfterSale
  PROVE  VictimInv' /\ HoldInv' /\ LedgerCountsHeld'
  <1>1. sold' \in [Pos -> Nat] /\ \A q \in Pos : sold'[q] >= sold[q]
    BY DEF IInv, TypeOK, broker
  <1>2. UNCHANGED <<signal, victim, prem, held, ledger, cost, abandoned>>
    BY DEF broker
  <1> QED
    BY <1>1, <1>2, Move

\* Premiums and fill costs are whole positive amounts.
LEMMA AmountsPositive ==
  /\ \A m \in Premium : m \in Nat /\ m \in Int
  /\ \A m \in Premium, slip \in Slippage : m + slip \in Nat /\ m + slip > 0
  <1>1. ASSUME NEW m \in Premium PROVE m \in Nat /\ m \in Int
    BY OrderExecAssumption
  <1>2. ASSUME NEW m \in Premium, NEW slip \in Slippage
        PROVE  m + slip \in Nat /\ m + slip > 0
    <2>1. slip \in Int /\ m \in Int /\ m + slip > 0
      BY <1>1, OrderExecAssumption
    <2> QED
      BY <2>1
  <1> QED
    BY <1>1, <1>2

\* A reservation keeps the types of what it writes.
LEMMA ReservationTypes ==
  ASSUME TypeOK, NEW p \in Pos, stage[p] # "unsent", NEW m \in Premium,
         TakeReservation(p, m)
  PROVE  /\ openTotal' \in Int /\ deployedTotal' \in Int /\ symbols' \subseteq Index
         /\ prem' \in [Pos -> Premium \cup {0}] /\ held' \subseteq Pos
  <1>1. idx[p] \in Index /\ m \in Int
    BY AmountsPositive DEF TypeOK
  <1>2. openTotal' \in Int /\ deployedTotal' \in Int /\ symbols' \subseteq Index
    BY <1>1 DEF TakeReservation, TypeOK
  <1>3. prem' \in [Pos -> Premium \cup {0}] /\ held' \subseteq Pos
    BY DEF TakeReservation, TypeOK
  <1> QED
    BY <1>2, <1>3

\* Every step keeps the types: in particular a victim is a position whenever
\* it is dereferenced, and a purchase has a positive cost.
LEMMA NextTypeOK == IInv /\ [Next]_vars => TypeOK'
  <1> SUFFICES ASSUME IInv, [Next]_vars PROVE TypeOK'
    OBVIOUS
  <1> USE OrderExecAssumption DEF IInv
  <1>a. TypeOK
    OBVIOUS
  <1>1. ASSUME NEW i \in Index, VesselRead(i) \/ VesselExitCooldown(i) \/ VesselSync(i) \/ VesselIdle(i)
        PROVE  TypeOK'
    BY <1>1, <1>a
       DEF VesselRead, VesselExitCooldown, VesselSync, VesselIdle, SyncedMemory, VState,
           TypeOK, signal, ledger, broker, book, vessel
  <1>2. ASSUME NEW i \in Index, NEW p \in Pos, NEW kind \in Intent, NEW s \in Side,
               VesselEmit(i, p, kind, s)
        PROVE  TypeOK'
    BY <1>2, <1>a
       DEF VesselEmit, VState, First, TypeOK, Stage, GoTo, signal,
           ledger, broker, book, vessel
  <1>3. ASSUME Deliver
        PROVE  TypeOK'
    BY <1>3, <1>a DEF Deliver, TypeOK, Stage, GoTo, signal, ledger, broker, book, vessel
  <1>4. ASSUME NEW p \in Pos, DispatchToPool(p) \/ Take(p)
        PROVE  TypeOK'
    BY <1>4, <1>a
       DEF DispatchToPool, DispatchNext, First, Take, Active, FlipStage, OwnStage,
           TypeOK, Stage, GoTo, signal, ledger, broker, book, vessel
  <1>5. ASSUME NEW p \in Pos, ManualExitRead(p) \/ FlipRead(p)
        PROVE  TypeOK'
    BY <1>5, <1>a
       DEF ManualExitRead, DispatchNext, First, FlipRead, Active, FlipStage,
           OwnStage, TypeOK, Stage, GoTo, signal, ledger, broker, book, vessel
  <1>6. ASSUME NEW p \in Pos, ManualExitPull(p)
        PROVE  TypeOK'
    BY <1>6, <1>a
       DEF ManualExitPull, VictimInv, TypeOK, Stage, GoTo, signal, ledger, broker,
           book, vessel
  <1>7. ASSUME NEW p \in Pos, FlipLoad(p) \/ FlipExit(p) \/ FlipReport(p) \/ FlipCleanup(p)
        PROVE  TypeOK'
    <2>1. victim[p] \in Pos
      BY <1>7 DEF FlipLoad, FlipExit, FlipReport, FlipCleanup, DeleteHash, RemoveFromOpen,
                  AddToClosed, ClearCurrent, VictimInv, FlipStage
    <2>2. CASE FlipLoad(p)
      BY <2>2, <1>a DEF FlipLoad, Active, FlipStage, TypeOK, Stage, GoTo, signal, ledger,
         broker, book, vessel
    <2>3. CASE FlipExit(p)
      BY <2>1, <2>3, <1>a DEF FlipExit, Active, FlipStage, TypeOK, Stage, GoTo, signal, ledger,
         broker, book, vessel
    <2>4. CASE FlipReport(p)
      BY <2>1, <2>4, <1>a DEF FlipReport, Active, FlipStage, TypeOK, Stage, GoTo, signal,
         ledger, broker, book, vessel
    <2>5. CASE FlipCleanup(p)
      BY <2>1, <2>5, <1>a
         DEF FlipCleanup, DeleteHash, RemoveFromOpen, AddToClosed, ClearCurrent, NoPos, Active,
             FlipStage, TypeOK, Stage, GoTo, signal, ledger, broker, book, vessel
    <2> QED
      BY <1>7, <2>2, <2>3, <2>4, <2>5
  <1>8. ASSUME NEW p \in Pos, FlipRelease(p)
        PROVE  TypeOK'
    BY <1>8, <1>a
       DEF FlipRelease, AllocatorRelease, VictimInv,
               NoPos, Active, FlipStage, OwnStage, TypeOK, Stage, GoTo, signal, ledger, broker, book, vessel
  <1>9. ASSUME NEW p \in Pos, Gate(p) \/ EvalHold(p) \/ EvalExit(p)
        PROVE  TypeOK'
    BY <1>9, <1>a
       DEF Gate, EvalHold, EvalExit, Active, FlipStage, OwnStage,
           TypeOK, Stage, GoTo, signal, ledger, broker, book, vessel
  <1>10. ASSUME NEW p \in Pos, NEW m \in Premium, Reserve(p, m) \/ ReserveRefused(p, m)
        PROVE  TypeOK'
    <2>1. CASE Reserve(p, m)
      <3>1. stage[p] # "unsent" /\ TakeReservation(p, m)
        BY <2>1 DEF Reserve
      <3> QED
        BY <2>1, <3>1, <1>a, ReservationTypes DEF Reserve, Active, OwnStage, TypeOK, Stage,
           GoTo, signal, broker, book, vessel
    <2>2. CASE ReserveRefused(p, m)
      BY <2>2, <1>a DEF ReserveRefused, TypeOK, Stage, GoTo, signal, ledger, broker, book,
         vessel
    <2> QED
      BY <1>10, <2>1, <2>2
  <1>11. ASSUME NEW p \in Pos, NEW slip \in Slippage, EntryFill(p, slip)
        PROVE  TypeOK'
    <2>1. prem[p] \in Premium
      BY <1>11 DEF EntryFill, HoldInv, Owing
    <2>2. prem[p] + slip \in Nat
      BY <2>1, AmountsPositive
    <2> QED
      BY <1>11, <1>a, <2>2 DEF EntryFill, Active, FlipStage, OwnStage, TypeOK, Stage,
         GoTo, signal, ledger, broker, book, vessel
  <1>19. ASSUME NEW p \in Pos, EntryAbandon(p)
        PROVE  TypeOK'
    <2>1. prem[p] \in Premium
      BY <1>19 DEF EntryAbandon, HoldInv, Owing
    <2>2. cost' \in [Pos -> Nat] /\ abandoned' \subseteq Pos
      <3>1. CASE UNCHANGED <<cost, abandoned>>
        BY <3>1, <1>a DEF TypeOK
      <3>2. ASSUME NEW slip \in Slippage,
                   cost' = [cost EXCEPT ![p] = prem[p] + slip],
                   abandoned' = abandoned \cup {p}
            PROVE  cost' \in [Pos -> Nat] /\ abandoned' \subseteq Pos
        <4>1. prem[p] + slip \in Nat
          BY <2>1, AmountsPositive
        <4> QED
          BY <3>2, <4>1, <1>a DEF TypeOK
      <3> QED
        BY <1>19, <3>1, <3>2 DEF EntryAbandon
    <2> QED
      BY <1>19, <1>a, <2>2 DEF EntryAbandon, Active, FlipStage, OwnStage, TypeOK, Stage,
         GoTo, signal, ledger, book, vessel
  <1>12. ASSUME NEW p \in Pos, AbortRelease(p) \/ Release(p)
        PROVE  TypeOK'
    <2>1. prem[p] \in Int
      <3>1. prem[p] \in Premium
        BY <1>12 DEF AbortRelease, Release, HoldInv, Owing
      <3> QED
        BY <3>1, AmountsPositive
    <2>2. openTotal' \in Int /\ deployedTotal' \in Int
      BY <1>12, <1>a, <2>1 DEF AbortRelease, Release, AllocatorRelease, TypeOK
    <2> QED
      BY <1>12, <1>a, <2>2
       DEF AbortRelease, Release, AllocatorRelease, Active, FlipStage,
         OwnStage, TypeOK, Stage, GoTo, signal, ledger, broker, book, vessel
  <1>13. ASSUME NEW p \in Pos, Record(p) \/ Refresh(p)
        PROVE  TypeOK'
    BY <1>13, <1>a
       DEF Record, Refresh, VState, Active, FlipStage, OwnStage, TypeOK, Stage,
           GoTo, signal, ledger, broker, book, vessel
  <1>14. ASSUME NEW p \in Pos, Exit(p) \/ Report(p) \/ Cleanup(p)
        PROVE  TypeOK'
    BY <1>14, <1>a
       DEF Exit, Report, Cleanup, DeleteHash, RemoveFromOpen, AddToClosed, ClearCurrent, NoPos,
               Active, FlipStage, OwnStage, TypeOK, Stage, GoTo, signal, ledger, broker, book, vessel
  <1>15. ASSUME NEW p \in Pos, Settle(p)
        PROVE  TypeOK'
    BY <1>15, <1>a
       DEF Settle, VState, TypeOK, Stage, GoTo, signal, ledger, broker, book, vessel
  <1>16. ASSUME NEW p \in Pos, Failure(p)
        PROVE  TypeOK'
    <2>1. CASE WorkerRaises(p) \/ FlipExitRaises(p) \/ CleanupFails(p) \/ ReleaseFails(p)
      BY <2>1, <1>a
         DEF Fault, WorkerRaises, FlipExitRaises, CleanupFails, ReleaseFails, Active,
             FlipStage, OwnStage, TypeOK, Stage, GoTo, signal, ledger, broker, book, vessel
    <2>2. ASSUME NEW m \in Premium, ReserveReplyLost(p, m)
          PROVE  TypeOK'
      <3>1. stage[p] # "unsent" /\ TakeReservation(p, m)
        BY <2>2 DEF ReserveReplyLost
      <3> QED
        BY <2>2, <3>1, <1>a, ReservationTypes DEF ReserveReplyLost, Fault, TypeOK, Stage,
           GoTo, signal, broker, book, vessel
    <2>3. CASE ReportFails(p)
      <3>1. unreported' \subseteq Pos
        BY <2>3, <1>a DEF ReportFails, VictimInv, FlipStage, TypeOK
      <3> QED
        BY <2>3, <3>1, <1>a DEF ReportFails, Fault, Active, FlipStage, OwnStage, TypeOK, Stage,
           GoTo, signal, ledger, broker, vessel
    <2> QED
      BY <1>16, <2>1, <2>2, <2>3 DEF Failure
  <1>17. ASSUME EngineRestart
        PROVE  TypeOK'
    BY <1>17, <1>a
       DEF EngineRestart, Fault, Active, FlipStage, OwnStage, TypeOK, Stage,
           signal, ledger, broker, book, vessel
  <1>18. CASE UNCHANGED vars
    BY <1>a, <1>18 DEF vars, TypeOK, signal, ledger, broker, book, vessel
  <1> QED
    BY <1>1, <1>2, <1>3, <1>4, <1>5, <1>6, <1>7, <1>8, <1>9, <1>10, <1>11, <1>12, <1>13, <1>14, <1>15, <1>16, <1>17, <1>18, <1>19
       DEF Next, Vessel, Dispatch, Worker, FlipClose, EnterStep, WatchStep, CloseStep

\* The steps that write none of the variables the invariant relates.
LEMMA VesselStep ==
  ASSUME IInv, NEW i \in Index, Vessel(i)
  PROVE  VictimInv' /\ HoldInv' /\ LedgerCountsHeld'
  <1> USE DEF IInv
  <1>1. CASE VesselRead(i) \/ VesselExitCooldown(i) \/ VesselSync(i) \/ VesselIdle(i)
    <2>1. UNCHANGED <<stage, signal, victim, prem, held, ledger, broker>>
      BY <1>1 DEF VesselRead, VesselExitCooldown, VesselSync, VesselIdle
    <2>2. VictimInv' /\ HoldInv'
      BY <2>1 DEF VictimInv, HoldInv, Unsold, Bought, signal, broker
    <2>3. LedgerCountsHeld'
      BY <2>1, QuietLedger DEF signal, NoFlipClose
    <2> QED
      BY <2>2, <2>3
  <1>2. ASSUME NEW p \in Pos, NEW kind \in Intent, NEW s \in Side,
               VesselEmit(i, p, kind, s)
        PROVE  VictimInv' /\ HoldInv' /\ LedgerCountsHeld'
    <2> USE <1>2 DEF VesselEmit, GoTo, First
    <2>1. p \notin held /\ victim[p] = NoPos /\ stage \in [Pos -> Stage]
      BY DEF HoldInv, VictimInv, PreReserve, Unprocessed, TypeOK
    <2>2. VictimInv'
      BY <2>1 DEF VictimInv, Unprocessed, FlipStage, TypeOK
    <2>3. HoldInv'
      BY <2>1 DEF HoldInv, PreReserve, Unprocessed, FlipStage, Owing, AfterSale, AfterAbandon, Unsold,
                  Bought, broker, TypeOK
    <2>4. NoFlipClose' => NoFlipClose
      BY <2>1 DEF NoFlipClose, TypeOK
    <2>5. LedgerCountsHeld'
      BY <2>1, <2>4, QuietLedger DEF TypeOK
    <2> QED
      BY <2>2, <2>3, <2>5
  <1> QED
    BY <1>1, <1>2 DEF Vessel

\* The dispatcher and the queue: nothing is reserved, bought or sold.
LEMMA DispatchStep ==
  ASSUME IInv, Deliver \/ \E p \in Pos : Dispatch(p) \/ Take(p)
  PROVE  VictimInv' /\ HoldInv' /\ LedgerCountsHeld'
  <1> USE DEF IInv
  <1>1. CASE Deliver
    <2> USE <1>1 DEF Deliver
    <2>1. VictimInv'
      BY DEF VictimInv, Unprocessed, FlipStage, TypeOK, signal
    <2>2. HoldInv'
      BY DEF HoldInv, PreReserve, Unprocessed, FlipStage, Owing, AfterSale, AfterAbandon, Unsold, Bought,
             broker, signal, TypeOK
    <2>3. LedgerCountsHeld'
      BY QuietLedger DEF signal, NoFlipClose
    <2> QED
      BY <2>1, <2>2, <2>3
  <1>2. ASSUME NEW p \in Pos, DispatchToPool(p)
        PROVE  VictimInv' /\ HoldInv' /\ LedgerCountsHeld'
    BY <1>2, Relabel DEF DispatchToPool, DispatchNext, First, Stage, Unprocessed, PreReserve,
       FlipStage, Owing, AfterSale, AfterAbandon
  <1>3. ASSUME NEW p \in Pos, ManualExitPull(p)
        PROVE  VictimInv' /\ HoldInv' /\ LedgerCountsHeld'
    BY <1>3, Relabel DEF ManualExitPull, Stage, Unprocessed, PreReserve,
       FlipStage, Owing, AfterSale, AfterAbandon
  <1>4. ASSUME NEW p \in Pos, Take(p)
        PROVE  VictimInv' /\ HoldInv' /\ LedgerCountsHeld'
    <2>1. CASE intent[p] = "REVERSAL_FLIP"
      BY <1>4, <2>1, Relabel DEF Take, First, Stage, Active, Unprocessed, PreReserve,
         FlipStage, OwnStage, Owing, AfterSale, AfterAbandon
    <2>2. CASE intent[p] # "REVERSAL_FLIP"
      BY <1>4, <2>2, Relabel DEF Take, First, Stage, Active, Unprocessed, PreReserve,
         FlipStage, OwnStage, Owing, AfterSale, AfterAbandon
    <2> QED
      BY <2>1, <2>2
  <1>5. ASSUME NEW p \in Pos, ManualExitRead(p)
        PROVE  VictimInv' /\ HoldInv' /\ LedgerCountsHeld'
    <2> USE <1>5 DEF ManualExitRead, DispatchNext, First, GoTo
    <2>1. idx[p] \in Index /\ cur[idx[p]] \in Pos \cup {NoPos}
      BY DEF TypeOK
    <2>2. VictimInv'
      BY <2>1 DEF VictimInv, Unprocessed, FlipStage, TypeOK, signal
    <2>3. HoldInv'
      BY DEF HoldInv, PreReserve, Unprocessed, FlipStage, Owing, AfterSale, AfterAbandon, Unsold, Bought,
             broker, signal, TypeOK
    <2>4. NoFlipClose' => NoFlipClose
      BY DEF NoFlipClose, TypeOK, signal
    <2>5. LedgerCountsHeld'
      BY <2>4, QuietLedger DEF signal
    <2> QED
      BY <2>2, <2>3, <2>5
  <1> QED
    BY <1>1, <1>2, <1>3, <1>4, <1>5 DEF Dispatch

\* Closing a position for a flip: the ledger may lose step with the
\* reservations, but only once NoFlipClose is false.
LEMMA FlipStep ==
  ASSUME IInv, NEW p \in Pos, FlipClose(p)
  PROVE  VictimInv' /\ HoldInv' /\ LedgerCountsHeld'
  <1> USE DEF IInv
  <1>1. CASE FlipRead(p)
    <2> USE <1>1 DEF FlipRead, GoTo
    <2>1. /\ idx[p] \in Index /\ cur[idx[p]] \in Pos \cup {NoPos}
          /\ victim[p] = NoPos /\ intent[p] = "REVERSAL_FLIP"
      BY DEF TypeOK, VictimInv, Unprocessed, FlipStage
    <2>2. VictimInv'
      BY <2>1 DEF VictimInv, Unprocessed, FlipStage, TypeOK, signal
    <2>3. HoldInv'
      BY DEF HoldInv, PreReserve, Unprocessed, FlipStage, Owing, AfterSale, AfterAbandon, Unsold, Bought,
             broker, signal, TypeOK
    <2>4. NoFlipClose' => NoFlipClose
      BY <2>1 DEF NoFlipClose, TypeOK, signal
    <2>5. LedgerCountsHeld'
      BY <2>4, QuietLedger DEF signal
    <2> QED
      BY <2>2, <2>3, <2>5
  <1>2. CASE FlipLoad(p)
    <2>1. CASE hash[victim[p]] = "full"
      BY <1>2, <2>1, Relabel DEF FlipLoad, VictimInv, Stage, Active, Unprocessed, PreReserve,
         FlipStage, OwnStage, Owing, AfterSale, AfterAbandon
    <2>2. CASE hash[victim[p]] # "full"
      BY <1>2, <2>2, Relabel DEF FlipLoad, VictimInv, Stage, Active, Unprocessed, PreReserve,
         FlipStage, OwnStage, Owing, AfterSale, AfterAbandon
    <2> QED
      BY <2>1, <2>2
  <1>3. CASE FlipExit(p)
    <2>1. victim[p] \in Pos
      BY <1>3 DEF FlipExit, VictimInv, FlipStage
    <2>2. sold' \in [Pos -> Nat] /\ \A q \in Pos : sold'[q] >= sold[q]
      BY <1>3, <2>1 DEF FlipExit, TypeOK
    <2> QED
      BY <1>3, <2>2, Move DEF FlipExit, VictimInv, Stage, Active, Unprocessed, PreReserve,
         FlipStage, OwnStage, Owing, AfterSale, AfterAbandon, TypeOK
  <1>4. CASE FlipReport(p) \/ FlipCleanup(p)
    BY <1>4, Relabel DEF FlipReport, FlipCleanup, DeleteHash, RemoveFromOpen, AddToClosed,
       ClearCurrent, book, VictimInv, Stage, Active,
       Unprocessed, PreReserve, FlipStage, OwnStage, Owing, AfterSale, AfterAbandon
  <1>5. CASE FlipRelease(p)
    <2> USE <1>5 DEF FlipRelease, GoTo
    <2>1. VictimInv'
      BY DEF VictimInv, Unprocessed, FlipStage, TypeOK, signal
    <2>2. HoldInv'
      BY DEF HoldInv, PreReserve, Unprocessed, FlipStage, Owing, AfterSale, AfterAbandon, Unsold, Bought,
             broker, signal, TypeOK
    <2>3. victim[p] \in Pos /\ intent[p] = "REVERSAL_FLIP"
      BY DEF VictimInv, FlipStage
    <2>4. ~NoFlipClose'
      BY <2>3 DEF NoFlipClose, Pos, NoPos, signal
    <2> QED
      BY <2>1, <2>2, <2>4 DEF LedgerCountsHeld
  <1> QED
    BY <1>1, <1>2, <1>3, <1>4, <1>5 DEF FlipClose

\* Giving a reservation back, after the sale or after an abandoned entry.
LEMMA GiveBack ==
  ASSUME IInv, NEW p \in Pos, p \in held, AllocatorRelease(idx[p], prem[p]),
         held' = held \ {p}, UNCHANGED <<signal, victim, prem>>
  PROVE  LedgerCountsHeld'
  <1> SUFFICES ASSUME NoFlipClose
               PROVE  LedgerCountsHeld!2'
    BY DEF LedgerCountsHeld, NoFlipClose, signal
  <1> USE DEF IInv, signal
  <1>1. LedgerCountsHeld!2
    BY DEF LedgerCountsHeld
  <1>2. \A q \in held' : idx[q] # idx[p]
    BY <1>1
  <1>3. symbols' = {idx[q] : q \in held}'
    BY <1>1, <1>2 DEF AllocatorRelease
  <1>4. Cardinality(held') = Cardinality(held) - 1
    BY HeldFinite, FS_RemoveElement
  <1>5. openTotal' = Cardinality(held')
    BY <1>1, <1>4 DEF AllocatorRelease
  <1>6. prem[p] \in Nat /\ openTotal \in Int /\ deployedTotal \in Int
    BY AmountsPositive DEF HoldInv, TypeOK
  <1>7. openTotal' <= MaxConcurrent /\ deployedTotal' <= Capital
    BY <1>1, <1>6, OrderExecAssumption DEF AllocatorRelease
  <1> QED
    BY <1>1, <1>3, <1>5, <1>7

\* A reservation that the caps allow, whether or not its worker hears of it.
LEMMA Reserving ==
  ASSUME IInv, NEW p \in Pos, NEW m \in Premium, stage[p] = "reserve",
         TakeReservation(p, m), NEW s \in {"entry", "done"}, GoTo(p, s),
         UNCHANGED <<signal, victim, broker>>
  PROVE  VictimInv' /\ HoldInv' /\ LedgerCountsHeld'
  <1> USE DEF IInv, TakeReservation, GoTo
  <1>1. p \notin held /\ cost[p] = 0 /\ idx[p] \in Index
    BY DEF HoldInv, PreReserve, TypeOK
  <1>2. VictimInv'
    BY DEF VictimInv, Unprocessed, FlipStage, TypeOK, signal
  <1>3. HoldInv'
    BY <1>1 DEF HoldInv, PreReserve, Unprocessed, FlipStage, Owing, AfterSale, AfterAbandon, Unsold,
                Bought, broker, signal, TypeOK
  <1>4. ASSUME NoFlipClose PROVE LedgerCountsHeld!2'
    <2>1. LedgerCountsHeld!2
      BY <1>4 DEF LedgerCountsHeld
    <2>2. \A q \in held : idx[q] # idx[p]
      BY <2>1 DEF CapsAllow
    <2>3. symbols' = {idx[q] : q \in held}'
      BY <2>1 DEF signal
    <2>4. Cardinality(held') = Cardinality(held) + 1
      BY <1>1, HeldFinite, FS_AddElement
    <2>5. openTotal' = Cardinality(held')
      BY <2>1, <2>4
    <2>6. openTotal' <= MaxConcurrent /\ deployedTotal' <= Capital
      BY DEF CapsAllow
    <2> QED
      BY <2>1, <2>2, <2>3, <2>5, <2>6 DEF signal
  <1>5. LedgerCountsHeld'
    BY <1>4 DEF LedgerCountsHeld, NoFlipClose, signal
  <1> QED
    BY <1>2, <1>3, <1>5

\* Gate, reservation, purchase and publication.
LEMMA EntryStep ==
  ASSUME IInv, NEW p \in Pos, EnterStep(p)
  PROVE  VictimInv' /\ HoldInv' /\ LedgerCountsHeld'
  <1> USE DEF IInv
  <1>1. CASE Gate(p) \/ Record(p)
    BY <1>1, Relabel DEF Gate, Record, Stage, Active, Unprocessed, PreReserve,
       FlipStage, OwnStage, Owing, AfterSale, AfterAbandon
  <1>2. ASSUME NEW m \in Premium, ReserveRefused(p, m)
        PROVE  VictimInv' /\ HoldInv' /\ LedgerCountsHeld'
    BY <1>2, Relabel DEF ReserveRefused, Stage, Active, Unprocessed, PreReserve,
       FlipStage, OwnStage, Owing, AfterSale, AfterAbandon
  <1>3. ASSUME NEW m \in Premium, Reserve(p, m)
        PROVE  VictimInv' /\ HoldInv' /\ LedgerCountsHeld'
    BY <1>3, Reserving DEF Reserve, broker
  <1>4. ASSUME NEW slip \in Slippage, EntryFill(p, slip)
        PROVE  VictimInv' /\ HoldInv' /\ LedgerCountsHeld'
    <2> USE <1>4 DEF EntryFill, GoTo
    <2>1. VictimInv'
      BY DEF VictimInv, Unprocessed, FlipStage, TypeOK, signal
    <2>2. HoldInv'
      BY DEF HoldInv, PreReserve, Unprocessed, FlipStage, Owing, AfterSale, AfterAbandon, Unsold,
             Bought, broker, signal, TypeOK
    <2>3. LedgerCountsHeld'
      BY QuietLedger DEF signal, NoFlipClose
    <2> QED
      BY <2>1, <2>2, <2>3
  <1>6. CASE EntryAbandon(p)
    <2> USE <1>6 DEF EntryAbandon, GoTo
    <2>1. /\ cost[p] = 0 /\ p \in held /\ p \notin abandoned
          /\ abandoned \subseteq abandoned' /\ abandoned' \subseteq abandoned \cup {p}
          /\ \A q \in Pos \ {p} : cost'[q] = cost[q]
          /\ cost'[p] = 0 \/ p \in abandoned'
      BY DEF HoldInv, AfterAbandon, Owing, TypeOK
    <2>2. VictimInv'
      BY DEF VictimInv, Unprocessed, FlipStage, TypeOK, signal
    <2>3. HoldInv'
      BY <2>1 DEF HoldInv, PreReserve, Unprocessed, FlipStage, Owing, AfterSale, AfterAbandon,
                  Unsold, Bought, signal, TypeOK
    <2>4. LedgerCountsHeld'
      BY QuietLedger DEF signal, NoFlipClose
    <2> QED
      BY <2>2, <2>3, <2>4
  <1>5. CASE AbortRelease(p)
    <2> USE <1>5 DEF AbortRelease, GoTo
    <2>1. p \in held /\ (cost[p] = 0 \/ p \in abandoned)
      BY DEF HoldInv, Owing
    <2>2. VictimInv'
      BY DEF VictimInv, Unprocessed, FlipStage, TypeOK, signal
    <2>3. HoldInv'
      BY <2>1 DEF HoldInv, PreReserve, Unprocessed, FlipStage, Owing, AfterSale, AfterAbandon, Unsold,
                  Bought, broker, signal, TypeOK
    <2> QED
      BY <2>1, <2>2, <2>3, GiveBack
  <1> QED
    BY <1>1, <1>2, <1>3, <1>4, <1>5, <1>6 DEF EnterStep

\* Watching, selling, reporting, cleaning up, releasing, settling.
LEMMA ExitStep ==
  ASSUME IInv, NEW p \in Pos, WatchStep(p) \/ CloseStep(p)
  PROVE  VictimInv' /\ HoldInv' /\ LedgerCountsHeld'
  <1> USE DEF IInv
  <1>1. CASE WatchStep(p)
    BY <1>1, Relabel DEF WatchStep, Refresh, EvalHold, EvalExit, Stage, Active, Unprocessed,
       PreReserve, FlipStage, OwnStage, Owing, AfterSale, AfterAbandon
  <1>2. CASE Exit(p)
    <2>1. /\ sold' \in [Pos -> Nat] /\ sold'[p] > 0
          /\ \A q \in Pos : sold'[q] >= sold[q]
      BY <1>2 DEF Exit, TypeOK
    <2> QED
      BY <1>2, <2>1, Move DEF Exit, Stage, Active, Unprocessed, PreReserve,
         FlipStage, OwnStage, Owing, AfterSale, AfterAbandon, TypeOK
  <1>3. CASE Report(p) \/ Cleanup(p) \/ Settle(p)
    BY <1>3, Relabel DEF Report, Cleanup, DeleteHash, RemoveFromOpen, AddToClosed,
       ClearCurrent, book, Settle, Stage, Active, Unprocessed,
       PreReserve, FlipStage, OwnStage, Owing, AfterSale, AfterAbandon
  <1>4. CASE Release(p)
    <2> USE <1>4 DEF Release, GoTo
    <2>1. p \in held /\ sold[p] > 0
      BY DEF HoldInv, Owing, AfterSale
    <2>2. VictimInv'
      BY DEF VictimInv, Unprocessed, FlipStage, TypeOK, signal
    <2>3. HoldInv'
      BY <2>1 DEF HoldInv, PreReserve, Unprocessed, FlipStage, Owing, AfterSale, AfterAbandon, Unsold,
                  Bought, broker, signal, TypeOK
    <2> QED
      BY <2>1, <2>2, <2>3, GiveBack
  <1> QED
    BY <1>1, <1>2, <1>3, <1>4 DEF CloseStep

\* Exceptions and restarts strand reservations but never free one.
LEMMA FaultStep ==
  ASSUME IInv, EngineRestart \/ \E p \in Pos : Failure(p)
  PROVE  VictimInv' /\ HoldInv' /\ LedgerCountsHeld'
  <1> USE DEF IInv
  <1>1. CASE EngineRestart
    <2> USE <1>1 DEF EngineRestart
    <2>1. VictimInv'
      BY DEF VictimInv, Unprocessed, FlipStage, TypeOK, signal
    <2>2. HoldInv'
      BY DEF HoldInv, PreReserve, Unprocessed, FlipStage, Owing, AfterSale, AfterAbandon, Unsold, Bought,
             broker, signal, TypeOK
    <2>3. LedgerCountsHeld'
      BY QuietLedger DEF signal, NoFlipClose
    <2> QED
      BY <2>1, <2>2, <2>3
  <1>2. ASSUME NEW p \in Pos, WorkerRaises(p) \/ FlipExitRaises(p) \/ CleanupFails(p)
                                 \/ ReportFails(p)
        PROVE  VictimInv' /\ HoldInv' /\ LedgerCountsHeld'
    BY <1>2, Relabel DEF WorkerRaises, FlipExitRaises, CleanupFails, ReportFails, VictimInv, Stage, Active,
       Unprocessed, PreReserve, FlipStage, OwnStage, Owing, AfterSale, AfterAbandon
  <1>3. ASSUME NEW p \in Pos, ReleaseFails(p)
        PROVE  VictimInv' /\ HoldInv' /\ LedgerCountsHeld'
    BY <1>3, Relabel DEF ReleaseFails, Stage, Active, Unprocessed, PreReserve,
       FlipStage, OwnStage, Owing, AfterSale, AfterAbandon
  <1>4. ASSUME NEW p \in Pos, NEW m \in Premium, ReserveReplyLost(p, m)
        PROVE  VictimInv' /\ HoldInv' /\ LedgerCountsHeld'
    BY <1>4, Reserving DEF ReserveReplyLost
  <1> QED
    BY <1>1, <1>2, <1>3, <1>4 DEF Failure

\* The invariant is inductive.
LEMMA NextIInv == IInv /\ [Next]_vars => IInv'
  <1> SUFFICES ASSUME IInv, [Next]_vars PROVE IInv'
    OBVIOUS
  <1>1. TypeOK'
    BY NextTypeOK
  <1>2. CASE UNCHANGED vars
    <2>1. VictimInv' /\ HoldInv'
      BY <1>2 DEF IInv, vars, VictimInv, HoldInv, Unsold, Bought, signal, broker
    <2>2. LedgerCountsHeld'
      BY <1>2, QuietLedger DEF IInv, vars, signal, NoFlipClose
    <2> QED
      BY <1>1, <2>1, <2>2 DEF IInv
  <1>3. CASE Next
    BY <1>1, <1>3, VesselStep, DispatchStep, FlipStep, EntryStep, ExitStep, FaultStep
       DEF Next, Worker, IInv
  <1> QED
    BY <1>2, <1>3

\* The inductive invariant holds throughout every behaviour.
THEOREM AlwaysIInv == Spec => []IInv
  BY InitIInv, NextIInv, PTL DEF Spec

\* Type correctness of the trade life cycle.
THEOREM TypeCorrect == Spec => []TypeOK
  <1>1. IInv => TypeOK
    BY DEF IInv
  <1> QED
    BY <1>1, AlwaysIInv, PTL

\* As long as no flip has closed another worker's position, the allocator's
\* shared records count exactly the outstanding reservations, one per index,
\* within the caps; exceptions and restarts included.
THEOREM LedgerAlwaysCountsHeld == Spec => []LedgerCountsHeld
  <1>1. IInv => LedgerCountsHeld
    BY DEF IInv
  <1> QED
    BY <1>1, AlwaysIInv, PTL

\* As long as no flip has closed another worker's position, the broker never
\* holds two positions of one index that their entries have reported, whatever
\* raises, fails half-way or restarts; what a live entry bought and abandoned
\* is out of the statement, as it is out of order_exec's books.
THEOREM AlwaysOneUnsoldPerIndex == Spec => []OneUnsoldPerIndex
  <1>1. IInv => OneUnsoldPerIndex
    BY DEF IInv, HoldInv, LedgerCountsHeld, OneUnsoldPerIndex, TypeOK
  <1> QED
    BY <1>1, AlwaysIInv, PTL
=============================================================================
