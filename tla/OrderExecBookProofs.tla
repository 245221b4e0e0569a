------------------------ MODULE OrderExecBookProofs ------------------------
(***************************************************************************)
(* Proofs about what order_exec leaves in the books, for every number of   *)
(* indexes, signals and threads: a position is filed as closed only after  *)
(* it was sold and its report attempted; until a flip takes over another worker's      *)
(* position or something fails, current_position_id, the open set and the  *)
(* position hash agree; and when every signal is settled nothing is left   *)
(* but what a live entry bought and abandoned.                             *)
(***************************************************************************)
EXTENDS OrderExecProofs, SumProofs

\* Stages in which the position is published and loadable, is in the open set,
\* is the current one of its index, has been reported and is being torn down,
\* has been filed as closed, and has not been sold.
Live == {"refresh", "eval", "exit", "report", "cleanup"}
Listed == Live \cup {"unlist"}
Named == Listed \cup {"closed", "current"}
Teardown == {"cleanup", "unlist", "closed"}
Filed == {"current", "release", "settle"}
BeforeSale == PreReserve \cup {"entry", "abort", "record", "refresh", "eval", "exit"}

\* Stages of a flip that has sold the position it closes.
FlipSold == {"flip_report", "flip_cleanup", "flip_unlist", "flip_closed", "flip_current",
             "flip_release"}
FlipTeardown == {"flip_cleanup", "flip_unlist", "flip_closed"}

\* The report of q is queued, or queuing it has failed.
Reported(q) == reports[q] > 0 \/ q \in unreported

\* A sale precedes the report, and the report the teardown, in the worker of
\* the position and in the worker of a flip; a flip that goes on has sold.
SaleInv ==
  /\ ClosedOnlyAfterSale
  /\ \A p \in Pos : stage[p] \in Teardown => Reported(p)
  /\ \A p \in Pos : stage[p] \in FlipSold => sold[victim[p]] > 0
  /\ \A p \in Pos : stage[p] \in FlipTeardown => Reported(victim[p])
  /\ \A p \in Pos : (stage[p] \in OwnStage /\ intent[p] = "REVERSAL_FLIP"
                      /\ victim[p] # NoPos) => sold[victim[p]] > 0

\* Nothing has failed and no flip has taken over a position.
Calm == NoFlipClose /\ faults = 0

\* The open set holds the positions whose workers watch or close them, and
\* current_position_id names the one of its index.
BookInv ==
  Calm =>
    /\ \A p \in Pos : p \in open <=> stage[p] \in Listed
    /\ \A p \in Pos : stage[p] \in Live => hash[p] = "full"
    /\ \A p \in Pos : stage[p] \in Named => cur[idx[p]] = p
    /\ \A i \in Index : cur[i] # NoPos =>
         idx[cur[i]] = i /\ stage[cur[i]] \in Named

\* Only workers that still owe a release hold a reservation.
OwedInv == Calm => \A p \in held : stage[p] \in Owing

\* What each stage has sold and reported so far.
TallyInv ==
  Calm =>
    /\ \A p \in Pos : stage[p] \in BeforeSale => sold[p] = 0
    /\ \A p \in Pos : stage[p] \in AfterSale => sold[p] = 1
    /\ \A p \in Pos : stage[p] \in BeforeSale \cup {"report"} => reports[p] = 0
    /\ \A p \in Pos : stage[p] \in Teardown \cup Filed => reports[p] = 1
    /\ \A p \in Pos : stage[p] \in Filed => p \in closed
    /\ \A p \in Pos : stage[p] = "done" /\ Bought(p) =>
                        IF p \in abandoned THEN sold[p] = 0
                        ELSE p \in closed /\ sold[p] = 1 /\ reports[p] = 1

\* A vessel in IN_CE or IN_PE has a worker that will still set its state.
PlacedInv ==
  Calm => \A i \in Index : vstate[i] \in Side =>
            \E p \in Pos : idx[p] = i /\ stage[p] \in Named \cup Filed

\* deployed["total"] is the sum of the premiums of the reservations that are
\* outstanding.
DeployedAddsUp == NoFlipClose => AddsUp(held, prem, deployedTotal)

\* The inductive invariant of this module, on top of IInv.
BInv == /\ SaleInv /\ BookInv /\ OwedInv /\ TallyInv /\ PlacedInv
        /\ DeployedAddsUp
-----------------------------------------------------------------------------
(* A position is torn down only after its sale and its report.             *)

\* A step that moves one signal, and sells and reports but never unsells, keeps
\* the order of sale, report and teardown if its own move respects it.
LEMMA SaleMove ==
  ASSUME IInv, SaleInv, NEW p \in Pos, NEW s \in Stage, GoTo(p, s),
         UNCHANGED <<intent, victim>>,
         sold' \in [Pos -> Nat], \A q \in Pos : sold'[q] >= sold[q],
         reports' \in [Pos -> Nat], \A q \in Pos : reports'[q] >= reports[q],
         \A q \in Pos : cost'[q] = cost[q] \/ (q = p /\ stage[p] \in OwnStage),
         unreported \subseteq unreported',
         \A q \in closed' : q \in closed \/ (sold'[q] > 0 /\ Reported(q)'),
         s \in Teardown => stage[p] \in Teardown \/ Reported(p)',
         s \in FlipSold => /\ victim[p] \in Pos
                           /\ stage[p] \in FlipSold \/ sold'[victim[p]] > 0,
         s \in FlipTeardown => stage[p] \in FlipTeardown \/ Reported(victim[p])',
         s \in OwnStage => stage[p] \in OwnStage \cup FlipSold \/ victim[p] = NoPos
                             \/ intent[p] # "REVERSAL_FLIP"
  PROVE  SaleInv'
  <1>1. /\ stage \in [Pos -> Stage] /\ sold \in [Pos -> Nat] /\ reports \in [Pos -> Nat]
        /\ victim \in [Pos -> Pos \cup {NoPos}] /\ closed \subseteq Pos
    BY DEF IInv, TypeOK
  <1>2. \A q \in Pos : stage[q] \in FlipSold => victim[q] \in Pos
    BY DEF IInv, VictimInv, FlipStage, FlipSold
  <1>3. stage' = [stage EXCEPT ![p] = s]
    BY DEF GoTo
  <1>a. \A q \in Pos : Reported(q) => Reported(q)'
    BY <1>1 DEF Reported
  <1>4. ClosedOnlyAfterSale!1'
    BY <1>1, <1>a DEF SaleInv, ClosedOnlyAfterSale, Reported
  <1>5. ClosedOnlyAfterSale!2'
    BY <1>1 DEF SaleInv, ClosedOnlyAfterSale, Bought
  <1>6. SaleInv!2'
    BY <1>1, <1>3, <1>a DEF SaleInv
  <1>7. SaleInv!3'
    BY <1>1, <1>2, <1>3 DEF SaleInv
  <1>8. SaleInv!4'
    <2>1. \A q \in Pos : stage[q] \in FlipTeardown => Reported(victim[q])'
      BY <1>2, <1>a DEF SaleInv, FlipSold, FlipTeardown, Reported
    <2> QED
      BY <2>1, <1>1, <1>3 DEF Reported
  <1>9. SaleInv!5'
    BY <1>1, <1>2, <1>3 DEF SaleInv
  <1> QED
    BY <1>4, <1>5, <1>6, <1>7, <1>8, <1>9 DEF SaleInv, ClosedOnlyAfterSale

\* The same when nothing is sold, reported or closed.
LEMMA SaleRelabel ==
  ASSUME IInv, SaleInv, NEW p \in Pos, NEW s \in Stage, GoTo(p, s),
         UNCHANGED <<intent, victim, cost, sold, closed, reports, unreported>>,
         s \in Teardown => stage[p] \in Teardown,
         s \in FlipTeardown => stage[p] \in FlipTeardown,
         s \in FlipSold => victim[p] \in Pos /\ stage[p] \in FlipSold,
         s \in OwnStage => stage[p] \in OwnStage \cup FlipSold \/ victim[p] = NoPos
                             \/ intent[p] # "REVERSAL_FLIP"
  PROVE  SaleInv'
  <1>1. /\ sold' \in [Pos -> Nat] /\ \A q \in Pos : sold'[q] >= sold[q]
        /\ reports' \in [Pos -> Nat] /\ \A q \in Pos : reports'[q] >= reports[q]
    BY DEF IInv, TypeOK
  <1> QED
    BY <1>1, SaleMove

\* The order of sale, report and teardown survives every step.
LEMMA NextSale == IInv /\ SaleInv /\ [Next]_vars => SaleInv'
  <1> SUFFICES ASSUME IInv, SaleInv, [Next]_vars PROVE SaleInv'
    OBVIOUS
  <1>a. TypeOK /\ VictimInv
    BY DEF IInv
  <1>b. /\ stage \in [Pos -> Stage] /\ sold \in [Pos -> Nat] /\ reports \in [Pos -> Nat]
        /\ victim \in [Pos -> Pos \cup {NoPos}] /\ closed \subseteq Pos
        /\ cost \in [Pos -> Nat] /\ intent \in [Pos -> Intent \cup {"none"}]
    BY <1>a DEF TypeOK
  <1>1. ASSUME NEW i \in Index,
               VesselRead(i) \/ VesselExitCooldown(i) \/ VesselSync(i) \/ VesselIdle(i)
        PROVE  SaleInv'
    <2>1. UNCHANGED <<stage, intent, victim, cost, sold, closed, reports, unreported>>
      BY <1>1 DEF VesselRead, VesselExitCooldown, VesselSync, VesselIdle, signal, broker, book
    <2> QED
      BY <2>1 DEF SaleInv, ClosedOnlyAfterSale, Bought, Reported
  <1>2. ASSUME NEW i \in Index, NEW p \in Pos, NEW kind \in Intent, NEW s \in Side,
               VesselEmit(i, p, kind, s)
        PROVE  SaleInv'
    <2>1. /\ UNCHANGED <<victim, cost, sold, closed, reports, unreported>>
          /\ stage' = [stage EXCEPT ![p] = "stream"] /\ intent' = [intent EXCEPT ![p] = kind]
      BY <1>2 DEF VesselEmit, GoTo, broker, book
    <2>2. victim[p] = NoPos
      BY <1>2, <1>a DEF VesselEmit, First, VictimInv, Unprocessed
    <2>3. SaleInv!2' /\ SaleInv!3' /\ SaleInv!4'
      BY <1>b, <2>1 DEF SaleInv, FlipSold, Teardown, FlipTeardown, Reported
    <2>4. SaleInv!5'
      BY <1>b, <2>1, <2>2 DEF SaleInv, OwnStage
    <2>5. ClosedOnlyAfterSale'
      BY <1>b, <2>1, <2>2 DEF SaleInv, ClosedOnlyAfterSale, Bought
    <2> QED
      BY <2>3, <2>4, <2>5 DEF SaleInv
  <1>3. CASE Deliver \/ EngineRestart
    <2>1. /\ UNCHANGED <<intent, victim, cost, sold, closed, reports, unreported>>
          /\ \A p \in Pos : stage'[p] \in FlipSold \cup OwnStage => stage'[p] = stage[p]
      BY <1>3, <1>b
         DEF Deliver, EngineRestart, signal, broker, book, FlipSold, OwnStage
    <2> QED
      BY <1>b, <2>1 DEF SaleInv, ClosedOnlyAfterSale, Bought, Reported,
         FlipSold, FlipTeardown, Teardown, OwnStage
  <1>4. ASSUME NEW p \in Pos, DispatchToPool(p) \/ ManualExitPull(p)
        PROVE  SaleInv'
    BY <1>4, SaleRelabel
       DEF Teardown, FlipTeardown, DispatchToPool, ManualExitPull, signal, broker, book, Stage,
           FlipSold, OwnStage
  <1>5. ASSUME NEW p \in Pos, Take(p)
        PROVE  SaleInv'
    <2>1. victim[p] = NoPos
      BY <1>5, <1>a DEF Take, First, VictimInv, Unprocessed
    <2>2. PICK s \in {"flip_read", "gate"} : GoTo(p, s)
      BY <1>5 DEF Take
    <2>3. s \in Stage /\ s \notin Teardown /\ s \notin FlipTeardown /\ s \notin FlipSold
      BY DEF Stage, Active, FlipStage, OwnStage, FlipSold, Teardown, FlipTeardown
    <2>4. UNCHANGED <<intent, victim, cost, sold, closed, reports, unreported>>
      BY <1>5 DEF Take, signal, broker, book
    <2> QED
      BY <2>1, <2>2, <2>3, <2>4, SaleRelabel
  <1>6. ASSUME NEW p \in Pos, ManualExitRead(p) \/ FlipRead(p)
        PROVE  SaleInv'
    <2>1. /\ UNCHANGED <<intent, cost, sold, closed, reports, unreported>>
          /\ victim' = [victim EXCEPT ![p] = cur[idx[p]]]
      BY <1>6 DEF ManualExitRead, FlipRead, signal, broker, book
    <2>2. PICK s \in {"done", "pulling", "gate", "flip_load"} :
               stage' = [stage EXCEPT ![p] = s]
      BY <1>6 DEF ManualExitRead, FlipRead, GoTo
    <2>3. s = "gate" => victim'[p] = NoPos
      BY <1>6, <2>1, <2>2, <1>b DEF ManualExitRead, FlipRead, GoTo
    <2>4. cost[p] = 0
      BY <1>6 DEF ManualExitRead, DispatchNext, First, FlipRead, IInv, HoldInv, PreReserve,
                  Unprocessed
    <2>5. SaleInv!2' /\ SaleInv!3' /\ SaleInv!4'
      BY <1>b, <2>1, <2>2 DEF SaleInv, FlipSold, Teardown, FlipTeardown, Reported
    <2>6. SaleInv!5'
      BY <1>b, <2>1, <2>2, <2>3 DEF SaleInv, OwnStage
    <2>7. ClosedOnlyAfterSale'
      BY <1>b, <2>1, <2>4 DEF SaleInv, ClosedOnlyAfterSale, Bought
    <2> QED
      BY <2>5, <2>6, <2>7 DEF SaleInv
  <1>7. ASSUME NEW p \in Pos, FlipClose(p), ~FlipRead(p)
        PROVE  SaleInv'
    <2>1. victim[p] \in Pos
      BY <1>7, <1>a DEF FlipClose, FlipLoad, FlipExit, FlipReport, FlipCleanup, DeleteHash,
         RemoveFromOpen, AddToClosed, ClearCurrent, FlipRelease, VictimInv, FlipStage
    <2>2. CASE FlipLoad(p)
      <3>1. PICK s \in {"flip_exit", "done"} : GoTo(p, s)
        BY <2>2 DEF FlipLoad
      <3> QED
        BY <2>2, <3>1, SaleRelabel DEF Teardown, FlipTeardown, FlipLoad, signal, broker, book,
           Stage, Active,
           FlipStage, FlipSold, OwnStage
    <2>3. CASE FlipExit(p)
      <3>1. /\ sold' \in [Pos -> Nat] /\ \A q \in Pos : sold'[q] >= sold[q]
            /\ sold'[victim[p]] > 0
        BY <2>3, <2>1, <1>b DEF FlipExit
      <3>2. reports' \in [Pos -> Nat] /\ \A q \in Pos : reports'[q] >= reports[q]
        BY <2>3, <1>b DEF FlipExit, book
      <3> QED
        BY <2>3, <2>1, <3>1, <3>2, SaleMove DEF Teardown, FlipTeardown, FlipExit, signal, book,
           Stage, Active,
           FlipStage, FlipSold, OwnStage
    <2>4. CASE FlipReport(p)
      <3>1. /\ reports' \in [Pos -> Nat] /\ \A q \in Pos : reports'[q] >= reports[q]
            /\ Reported(victim[p])'
        BY <2>4, <2>1, <1>b DEF FlipReport, signal, Reported
      <3>2. sold' \in [Pos -> Nat] /\ \A q \in Pos : sold'[q] >= sold[q]
        BY <2>4, <1>b DEF FlipReport, broker
      <3> QED
        BY <2>4, <2>1, <3>1, <3>2, SaleMove DEF Teardown, FlipTeardown, FlipReport, signal,
           broker, Stage, Active,
           FlipStage, FlipSold, OwnStage
    <2>5. CASE FlipCleanup(p)
      <3>1. CASE \/ DeleteHash(p, victim[p], "flip_cleanup", "flip_unlist")
                 \/ RemoveFromOpen(p, victim[p], "flip_unlist", "flip_closed")
                 \/ ClearCurrent(p, "flip_current", "flip_release")
        BY <3>1, <2>1, SaleRelabel DEF DeleteHash, RemoveFromOpen, ClearCurrent, signal,
           broker, book, Stage, Active, FlipStage, FlipSold, OwnStage, Teardown, FlipTeardown
      <3>2. CASE AddToClosed(p, victim[p], "flip_closed", "flip_current")
        <4>1. sold[victim[p]] > 0 /\ Reported(victim[p])
          BY <3>2 DEF AddToClosed, SaleInv, FlipSold, FlipTeardown
        <4>2. /\ UNCHANGED <<intent, victim, cost, sold, reports, unreported>>
              /\ closed' = closed \cup {victim[p]} /\ GoTo(p, "flip_current")
              /\ stage[p] = "flip_closed"
          BY <3>2 DEF AddToClosed, signal, broker
        <4>3. /\ sold' \in [Pos -> Nat] /\ \A q \in Pos : sold'[q] >= sold[q]
              /\ reports' \in [Pos -> Nat] /\ \A q \in Pos : reports'[q] >= reports[q]
          BY <4>2, <1>b
        <4>4. \A q \in closed' : q \in closed \/ (sold'[q] > 0 /\ Reported(q)')
          BY <4>1, <4>2 DEF Reported
        <4> QED
          BY <2>1, <4>2, <4>3, <4>4, SaleMove DEF Stage, Active, FlipStage, FlipSold,
             OwnStage, Teardown, FlipTeardown
      <3> QED
        BY <2>5, <3>1, <3>2 DEF FlipCleanup
    <2>6. CASE FlipRelease(p)
      BY <2>6, <2>1, SaleRelabel DEF FlipRelease, signal, broker, book,
         Stage, Active, FlipStage, FlipSold, OwnStage, Teardown, FlipTeardown
    <2> QED
      BY <1>7, <2>2, <2>3, <2>4, <2>5, <2>6 DEF FlipClose
  <1>8. ASSUME NEW p \in Pos, EnterStep(p) \/ WatchStep(p)
        PROVE  SaleInv'
    <2>1. CASE Gate(p) \/ AbortRelease(p) \/ Record(p) \/ WatchStep(p)
      <3>1. PICK s \in {"reserve", "done", "refresh", "eval", "exit"} : GoTo(p, s)
        BY <2>1 DEF Gate, AbortRelease, Record, WatchStep, Refresh, EvalHold,
                    EvalExit
      <3>2. UNCHANGED <<intent, victim, cost, sold, closed, reports, unreported>> /\ stage[p] \in OwnStage
        BY <2>1 DEF Gate, AbortRelease, Record, WatchStep, Refresh, EvalHold,
                    EvalExit, signal, broker, book, OwnStage
      <3>3. s \in Stage /\ s \notin Teardown /\ s \notin FlipTeardown /\ s \notin FlipSold
        BY DEF Stage, Active, OwnStage, FlipSold, Teardown, FlipTeardown
      <3> QED
        BY <3>1, <3>2, <3>3, SaleRelabel
    <2>2. ASSUME NEW m \in Premium, Reserve(p, m) \/ ReserveRefused(p, m)
          PROVE  SaleInv'
      BY <2>2, SaleRelabel DEF Teardown, FlipTeardown, Reserve, ReserveRefused, signal, broker,
         book, Stage, Active,
         OwnStage, FlipSold
    <2>3. CASE EntryAbandon(p) \/ \E slip \in Slippage : EntryFill(p, slip)
      <3>1. /\ UNCHANGED <<intent, victim, sold, closed, reports, unreported>>
            /\ stage[p] = "entry" /\ \E s \in {"abort", "record"} : GoTo(p, s)
        BY <2>3 DEF EntryFill, EntryAbandon, signal, book
      <3>2. \A q \in Pos : cost'[q] = cost[q] \/ q = p
        BY <2>3, <1>b DEF EntryFill, EntryAbandon
      <3>3. /\ sold' \in [Pos -> Nat] /\ \A q \in Pos : sold'[q] >= sold[q]
            /\ reports' \in [Pos -> Nat] /\ \A q \in Pos : reports'[q] >= reports[q]
        BY <3>1, <1>b
      <3> QED
        BY <3>1, <3>2, <3>3, SaleMove DEF Stage, Active, OwnStage, FlipSold, Teardown,
           FlipTeardown
    <2> QED
      BY <1>8, <2>1, <2>2, <2>3 DEF EnterStep
  <1>9. ASSUME NEW p \in Pos, CloseStep(p)
        PROVE  SaleInv'
    <2>1. CASE Exit(p)
      <3>1. /\ sold' \in [Pos -> Nat] /\ \A q \in Pos : sold'[q] >= sold[q]
            /\ reports' \in [Pos -> Nat] /\ \A q \in Pos : reports'[q] >= reports[q]
        BY <2>1, <1>b DEF Exit, book
      <3> QED
        BY <2>1, <3>1, SaleMove DEF Teardown, FlipTeardown, Exit, signal, book, Stage, Active,
           OwnStage, FlipSold
    <2>2. CASE Report(p)
      <3>1. /\ sold' \in [Pos -> Nat] /\ \A q \in Pos : sold'[q] >= sold[q]
            /\ reports' \in [Pos -> Nat] /\ \A q \in Pos : reports'[q] >= reports[q]
            /\ Reported(p)'
        BY <2>2, <1>b DEF Report, broker, Reported
      <3> QED
        BY <2>2, <3>1, SaleMove DEF Teardown, FlipTeardown, Report, signal, broker, Stage,
           Active, OwnStage, FlipSold
    <2>3. CASE Cleanup(p)
      <3>1. CASE \/ DeleteHash(p, p, "cleanup", "unlist")
                 \/ RemoveFromOpen(p, p, "unlist", "closed")
                 \/ ClearCurrent(p, "current", "release")
        BY <3>1, SaleRelabel DEF DeleteHash, RemoveFromOpen, ClearCurrent, signal, broker,
           book, Stage, Active, OwnStage, FlipSold, Teardown, FlipTeardown
      <3>2. CASE AddToClosed(p, p, "closed", "current")
        <4>1. sold[p] > 0 /\ Reported(p)
          BY <3>2 DEF AddToClosed, SaleInv, Teardown, IInv, HoldInv, AfterSale
        <4>2. /\ UNCHANGED <<intent, victim, cost, sold, reports, unreported>>
              /\ closed' = closed \cup {p} /\ GoTo(p, "current") /\ stage[p] = "closed"
          BY <3>2 DEF AddToClosed, signal, broker
        <4>3. /\ sold' \in [Pos -> Nat] /\ \A q \in Pos : sold'[q] >= sold[q]
              /\ reports' \in [Pos -> Nat] /\ \A q \in Pos : reports'[q] >= reports[q]
          BY <4>2, <1>b
        <4>4. \A q \in closed' : q \in closed \/ (sold'[q] > 0 /\ Reported(q)')
          BY <4>1, <4>2 DEF Reported
        <4> QED
          BY <4>2, <4>3, <4>4, SaleMove DEF Stage, Active, OwnStage, FlipSold, Teardown,
             FlipTeardown
      <3> QED
        BY <2>3, <3>1, <3>2 DEF Cleanup
    <2>4. CASE Release(p) \/ Settle(p)
      BY <2>4, SaleRelabel DEF Release, Settle, signal, broker, book, Stage,
         Active, OwnStage, FlipSold, Teardown, FlipTeardown
    <2> QED
      BY <1>9, <2>1, <2>2, <2>3, <2>4 DEF CloseStep
  <1>10. ASSUME NEW p \in Pos, Failure(p), ~ReportFails(p)
         PROVE  SaleInv'
    <2>1. UNCHANGED <<intent, victim, cost, sold, closed, reports, unreported>>
      BY <1>10 DEF Failure, WorkerRaises, FlipExitRaises, CleanupFails, ReleaseFails,
                   ReserveReplyLost, signal, broker, book
    <2>2. PICK s \in {"failed", "done", "release", "flip_release", "settle", "gate"} :
               /\ GoTo(p, s)
               /\ s = "release" => stage[p] \in OwnStage
               /\ s = "flip_release" => stage[p] \in FlipSold
               /\ s = "settle" => stage[p] = "release"
               /\ s = "gate" => stage[p] = "flip_release"
      BY <1>10, Zenon DEF Failure, WorkerRaises, FlipExitRaises, CleanupFails, ReleaseFails,
                   ReserveReplyLost, OwnStage, FlipSold
    <2>3. stage[p] \in FlipSold => victim[p] \in Pos
      BY <1>a DEF VictimInv, FlipStage, FlipSold
    <2> QED
      BY <2>1, <2>2, <2>3, SaleRelabel DEF Stage, Active, OwnStage, FlipStage, FlipSold,
         Teardown, FlipTeardown
  <1>12. ASSUME NEW p \in Pos, ReportFails(p)
         PROVE  SaleInv'
    <2>1. /\ UNCHANGED <<intent, victim, cost, sold, closed, reports>>
          /\ unreported \subseteq unreported'
      BY <1>12 DEF ReportFails, signal, broker
    <2>2. /\ sold' \in [Pos -> Nat] /\ \A q \in Pos : sold'[q] >= sold[q]
          /\ reports' \in [Pos -> Nat] /\ \A q \in Pos : reports'[q] >= reports[q]
      BY <1>b, <2>1
    <2>3. CASE stage[p] = "report" /\ GoTo(p, "cleanup") /\ unreported' = unreported \cup {p}
      BY <2>1, <2>2, <2>3, SaleMove DEF Stage, Active, OwnStage, FlipSold, Teardown,
         FlipTeardown, Reported
    <2>4. CASE /\ stage[p] = "flip_report" /\ GoTo(p, "flip_cleanup")
               /\ unreported' = unreported \cup {victim[p]}
      <3>1. victim[p] \in Pos
        BY <1>a, <2>4 DEF VictimInv, FlipStage
      <3> QED
        BY <2>1, <2>2, <2>4, <3>1, SaleMove DEF Stage, Active, FlipStage, OwnStage, FlipSold,
           Teardown, FlipTeardown, Reported
    <2> QED
      BY <1>12, <2>3, <2>4 DEF ReportFails
  <1>11. CASE UNCHANGED vars
    BY <1>11 DEF vars, signal, broker, book, SaleInv, ClosedOnlyAfterSale, Bought, Reported
  <1> QED
    BY <1>1, <1>2, <1>3, <1>4, <1>5, <1>6, <1>7, <1>8, <1>9, <1>10, <1>11, <1>12
       DEF Next, Vessel, Dispatch, Worker, FlipClose
-----------------------------------------------------------------------------
(* The books while nothing fails and no flip takes over a position.        *)

\* A flip that has found a position to close stays on record.
LEMMA NoFlipCloseBefore ==
  ASSUME IInv, [Next]_vars, NoFlipClose'
  PROVE  NoFlipClose
  <1>a. TypeOK /\ VictimInv
    BY DEF IInv
  <1> DEFINE Kept == \A p \in Pos : victim[p] # NoPos =>
                       victim'[p] = victim[p] /\ intent'[p] = intent[p]
  <1>1. CASE UNCHANGED <<victim, intent>>
    BY <1>1 DEF NoFlipClose
  <1>2. ASSUME NEW i \in Index, NEW p \in Pos, NEW kind \in Intent, NEW s \in Side,
               VesselEmit(i, p, kind, s)
        PROVE  Kept
    <2>1. victim[p] = NoPos /\ victim' = victim /\ intent' = [intent EXCEPT ![p] = kind]
      BY <1>2, <1>a DEF VesselEmit, First, VictimInv, Unprocessed
    <2> QED
      BY <2>1, <1>a DEF TypeOK
  <1>3. ASSUME NEW p \in Pos, ManualExitRead(p) \/ FlipRead(p)
        PROVE  Kept
    <2>1. victim[p] = NoPos /\ victim' = [victim EXCEPT ![p] = cur[idx[p]]] /\ intent' = intent
      BY <1>3, <1>a DEF ManualExitRead, DispatchNext, First, FlipRead, VictimInv, Unprocessed,
                        signal
    <2> QED
      BY <2>1, <1>a DEF TypeOK
  <1>4. \/ UNCHANGED <<victim, intent>>
        \/ \E i \in Index, p \in Pos, kind \in Intent, s \in Side : VesselEmit(i, p, kind, s)
        \/ \E p \in Pos : ManualExitRead(p) \/ FlipRead(p)
    <2>1. CASE UNCHANGED vars \/ Deliver \/ EngineRestart
      BY <2>1 DEF vars, signal, Deliver, EngineRestart
    <2>2. ASSUME NEW i \in Index,
                 VesselRead(i) \/ VesselExitCooldown(i) \/ VesselSync(i) \/ VesselIdle(i)
          PROVE  UNCHANGED <<victim, intent>>
      BY <2>2 DEF VesselRead, VesselExitCooldown, VesselSync, VesselIdle, signal
    <2>3. ASSUME NEW p \in Pos, DispatchToPool(p) \/ ManualExitPull(p) \/ Take(p) \/ Failure(p)
          PROVE  UNCHANGED <<victim, intent>>
      BY <2>3 DEF DispatchToPool, ManualExitPull, Take, Failure, WorkerRaises, FlipExitRaises,
                  ReportFails, CleanupFails, ReleaseFails, ReserveReplyLost, signal
    <2>4. ASSUME NEW p \in Pos, FlipClose(p), ~FlipRead(p)
          PROVE  UNCHANGED <<victim, intent>>
      BY <2>4 DEF FlipClose, FlipLoad, FlipExit, FlipReport, FlipCleanup, DeleteHash,
         RemoveFromOpen, AddToClosed, ClearCurrent,
                  FlipRelease, signal
    <2>5. ASSUME NEW p \in Pos, EnterStep(p) \/ WatchStep(p) \/ CloseStep(p)
          PROVE  UNCHANGED <<victim, intent>>
      BY <2>5 DEF EnterStep, WatchStep, CloseStep, Gate, Reserve, ReserveRefused, EntryFill,
                  EntryAbandon, AbortRelease, Record, Refresh, EvalHold, EvalExit, Exit,
                  Report, Cleanup, DeleteHash, RemoveFromOpen, AddToClosed, ClearCurrent,
                  Release, Settle, signal
    <2> QED
      BY <2>1, <2>2, <2>3, <2>4, <2>5 DEF Next, Vessel, Dispatch, Worker
  <1>5. Kept => NoFlipClose
    BY DEF NoFlipClose
  <1> HIDE DEF Kept
  <1> QED
    BY <1>1, <1>2, <1>3, <1>4, <1>5

\* Calm is never regained, and a flip that is calm has nothing to close.
LEMMA CalmBefore ==
  ASSUME IInv, [Next]_vars, Calm'
  PROVE  /\ Calm
         /\ ~EngineRestart
         /\ \A p \in Pos : ~Failure(p)
         /\ \A p \in Pos : FlipClose(p) => FlipRead(p) /\ cur[idx[p]] = NoPos
  <1> USE DEF Calm
  <1>a. TypeOK /\ VictimInv
    BY DEF IInv
  <1>b. faults \in Nat
    BY <1>a, OrderExecAssumption DEF TypeOK
  <1>c. ~Fault
    BY <1>b DEF Fault
  <1>1. ~EngineRestart /\ \A p \in Pos : ~Failure(p)
    BY <1>c DEF EngineRestart, Failure, WorkerRaises, FlipExitRaises, ReportFails,
                CleanupFails, ReleaseFails, ReserveReplyLost
  <1>2. ASSUME NEW p \in Pos, FlipClose(p) PROVE FlipRead(p) /\ cur[idx[p]] = NoPos
    <2>1. CASE FlipRead(p)
      <3>1. intent'[p] = "REVERSAL_FLIP" /\ victim'[p] = cur[idx[p]]
        BY <2>1, <1>a DEF FlipRead, VictimInv, FlipStage, TypeOK, signal
      <3> QED
        BY <2>1, <3>1 DEF NoFlipClose
    <2>2. CASE ~FlipRead(p)
      <3>1. stage[p] \in FlipStage \ {"flip_read"} /\ UNCHANGED <<intent, victim>>
        BY <1>2, <2>2 DEF FlipClose, FlipLoad, FlipExit, FlipReport, FlipCleanup, DeleteHash,
           RemoveFromOpen, AddToClosed, ClearCurrent, FlipRelease, FlipStage, signal
      <3>2. victim[p] \in Pos /\ intent[p] = "REVERSAL_FLIP"
        BY <3>1, <1>a DEF VictimInv
      <3> QED
        BY <3>1, <3>2 DEF NoFlipClose, Pos, NoPos
    <2> QED
      BY <2>1, <2>2
  <1>3. NoFlipClose
    BY NoFlipCloseBefore
  <1>4. UNCHANGED faults
    <2>1. CASE UNCHANGED vars \/ Deliver \/ \E i \in Index : Vessel(i)
      BY <2>1 DEF vars, Deliver, Vessel, VesselRead, VesselExitCooldown, VesselSync, VesselIdle,
                  VesselEmit
    <2>2. ASSUME NEW p \in Pos, Dispatch(p) \/ Take(p) \/ FlipRead(p) \/ WatchStep(p)
          PROVE  UNCHANGED faults
      BY <2>2 DEF Dispatch, DispatchToPool, ManualExitRead, ManualExitPull, Take, FlipRead,
                  WatchStep, Refresh, EvalHold, EvalExit
    <2>3. ASSUME NEW p \in Pos, EnterStep(p) \/ CloseStep(p)
          PROVE  UNCHANGED faults
      BY <2>3 DEF EnterStep, CloseStep, Gate, Reserve, ReserveRefused, EntryFill, EntryAbandon,
                  AbortRelease, Record, Exit, Report, Cleanup, DeleteHash, RemoveFromOpen,
                  AddToClosed, ClearCurrent, Release, Settle
    <2> QED
      BY <1>1, <1>2, <2>1, <2>2, <2>3 DEF Next, Worker
  <1> QED
    BY <1>1, <1>2, <1>3, <1>4

\* A step that leaves the open set and current_position_id alone, moves no
\* signal into or out of the stages in which its position is listed or named,
\* and deletes no hash that must be loadable, keeps the books consistent.
LEMMA BookQuiet ==
  ASSUME TypeOK, Calm, BookInv, UNCHANGED <<open, cur>>,
         \A q \in Pos : stage'[q] \in Live =>
                          stage[q] \in Live /\ (hash[q] = "full" => hash'[q] = "full"),
         \A q \in Pos : stage[q] \in Named => idx'[q] = idx[q],
         \A q \in Pos : stage'[q] \in Listed <=> stage[q] \in Listed,
         \A q \in Pos : stage'[q] \in Named <=> stage[q] \in Named
  PROVE  BookInv'
  <1>1. BookInv!2
    BY DEF BookInv
  <1>2. \A i \in Index : cur[i] # NoPos => cur[i] \in Pos
    BY DEF TypeOK
  <1> QED
    BY <1>1, <1>2 DEF BookInv

\* Publishing p: no other position of the index is published, since p holds the
\* only reservation of its index.
LEMMA BookRecord ==
  ASSUME IInv, Calm, BookInv, NEW p \in Pos, Record(p)
  PROVE  BookInv'
  <1>1. BookInv!2
    BY DEF BookInv
  <1>2. TypeOK /\ HoldInv /\ LedgerCountsHeld!2
    BY DEF IInv, LedgerCountsHeld, Calm
  <1>3. idx[p] \in Index /\ stage[p] = "record" /\ p \in held
    BY <1>2 DEF Record, TypeOK, HoldInv, Owing
  <1>4. \A q \in Pos : stage[q] \in Named => idx[q] # idx[p]
    BY <1>2, <1>3 DEF HoldInv, Owing, Live, Listed, Named
  <1>5. /\ stage' = [stage EXCEPT ![p] = "refresh"] /\ hash' = [hash EXCEPT ![p] = "full"]
        /\ open' = open \cup {p} /\ cur' = [cur EXCEPT ![idx[p]] = p] /\ idx' = idx
    BY DEF Record, GoTo, signal
  <1>6. /\ stage \in [Pos -> Stage] /\ hash \in [Pos -> {"none", "full", "partial"}]
        /\ cur \in [Index -> Pos \cup {NoPos}]
    BY <1>2 DEF TypeOK
  <1>7. \A q \in Pos : stage[q] \in Named => idx[q] \in Index
    BY <1>2 DEF TypeOK, Live, Listed, Named
  <1>8. BookInv!2!1' /\ BookInv!2!2'
    BY <1>1, <1>3, <1>5, <1>6 DEF Live, Listed
  <1>9. BookInv!2!3'
    BY <1>1, <1>3, <1>4, <1>5, <1>6, <1>7
  <1>10. BookInv!2!4'
    BY <1>1, <1>3, <1>5, <1>6 DEF Live, Listed, Named
  <1> QED
    BY <1>8, <1>9, <1>10 DEF BookInv

\* cleanup() takes p out of the open set.
LEMMA BookUnlist ==
  ASSUME IInv, Calm, BookInv, NEW p \in Pos, RemoveFromOpen(p, p, "unlist", "closed")
  PROVE  BookInv'
  <1>1. BookInv!2
    BY DEF BookInv
  <1>2. /\ stage' = [stage EXCEPT ![p] = "closed"] /\ hash' = hash
        /\ open' = open \ {p} /\ cur' = cur /\ idx' = idx /\ stage[p] = "unlist"
    BY DEF RemoveFromOpen, GoTo, signal
  <1>3. stage \in [Pos -> Stage] /\ cur \in [Index -> Pos \cup {NoPos}]
    BY DEF IInv, TypeOK
  <1>4. BookInv!2!1' /\ BookInv!2!2'
    BY <1>1, <1>2, <1>3 DEF Live, Listed
  <1>5. BookInv!2!3'
    BY <1>1, <1>2, <1>3 DEF Live, Listed, Named
  <1>6. BookInv!2!4'
    BY <1>1, <1>2, <1>3 DEF Live, Listed, Named
  <1> QED
    BY <1>4, <1>5, <1>6 DEF BookInv

\* cleanup() blanks current_position_id, which can only name p.
LEMMA BookClearCurrent ==
  ASSUME IInv, Calm, BookInv, NEW p \in Pos, ClearCurrent(p, "current", "release")
  PROVE  BookInv'
  <1>1. BookInv!2
    BY DEF BookInv
  <1>2. TypeOK /\ HoldInv /\ LedgerCountsHeld!2
    BY DEF IInv, LedgerCountsHeld, Calm
  <1>3. idx[p] \in Index /\ stage[p] = "current" /\ p \in held
    BY <1>2 DEF ClearCurrent, TypeOK, HoldInv, Owing
  <1>4. \A q \in Pos : stage[q] \in Named /\ q # p => idx[q] # idx[p]
    BY <1>2, <1>3 DEF HoldInv, Owing, Live, Listed, Named
  <1>5. /\ stage' = [stage EXCEPT ![p] = "release"] /\ hash' = hash
        /\ open' = open /\ cur' = [cur EXCEPT ![idx[p]] = NoPos] /\ idx' = idx
    BY DEF ClearCurrent, GoTo, signal, book
  <1>6. /\ stage \in [Pos -> Stage] /\ cur \in [Index -> Pos \cup {NoPos}]
    BY <1>2 DEF TypeOK
  <1>7. \A q \in Pos : stage[q] \in Named => idx[q] \in Index
    BY <1>2 DEF TypeOK, Live, Listed, Named
  <1>8. BookInv!2!1' /\ BookInv!2!2'
    BY <1>1, <1>3, <1>5, <1>6 DEF Live, Listed
  <1>9. BookInv!2!3'
    BY <1>1, <1>3, <1>4, <1>5, <1>6, <1>7 DEF Live, Listed, Named
  <1>10. BookInv!2!4'
    BY <1>1, <1>3, <1>5, <1>6 DEF Live, Listed, Named
  <1> QED
    BY <1>8, <1>9, <1>10 DEF BookInv

\* Every command of cleanup() keeps the books consistent.
LEMMA BookCleanup ==
  ASSUME IInv, Calm, BookInv, NEW p \in Pos, Cleanup(p)
  PROVE  BookInv'
  <1>a. TypeOK /\ stage \in [Pos -> Stage]
    BY DEF IInv, TypeOK
  <1>1. CASE DeleteHash(p, p, "cleanup", "unlist")
    <2>1. /\ stage' = [stage EXCEPT ![p] = "unlist"] /\ hash' = [hash EXCEPT ![p] = "none"]
          /\ UNCHANGED <<open, cur, idx>> /\ stage[p] = "cleanup"
      BY <1>1 DEF DeleteHash, GoTo, signal
    <2>2. hash \in [Pos -> {"none", "full", "partial"}]
      BY <1>a DEF TypeOK
    <2> QED
      BY <1>a, <2>1, <2>2, BookQuiet DEF Live, Listed, Named
  <1>2. CASE AddToClosed(p, p, "closed", "current")
    <2>1. /\ stage' = [stage EXCEPT ![p] = "current"]
          /\ UNCHANGED <<open, cur, idx, hash>> /\ stage[p] = "closed"
      BY <1>2 DEF AddToClosed, GoTo, signal
    <2> QED
      BY <1>a, <2>1, BookQuiet DEF Live, Listed, Named
  <1> QED
    BY <1>1, <1>2, BookUnlist, BookClearCurrent DEF Cleanup

\* The books stay consistent.
LEMMA NextBook == IInv /\ BookInv /\ [Next]_vars => BookInv'
  <1> SUFFICES ASSUME IInv, BookInv, [Next]_vars, Calm' PROVE BookInv'
    BY DEF BookInv
  <1>a. /\ Calm /\ ~EngineRestart /\ \A p \in Pos : ~Failure(p)
        /\ \A p \in Pos : FlipClose(p) => FlipRead(p) /\ cur[idx[p]] = NoPos
    BY CalmBefore
  <1>b. TypeOK /\ stage \in [Pos -> Stage] /\ idx \in [Pos -> Index \cup {None}]
    BY DEF IInv, TypeOK
  <1>1. CASE UNCHANGED vars \/ \E i \in Index : Vessel(i)
    <2>1. /\ UNCHANGED <<open, cur, hash>>
          /\ \A q \in Pos : stage[q] \in Named => idx'[q] = idx[q]
          /\ \A q \in Pos : stage'[q] = stage[q] \/ (stage[q] = "unsent" /\ stage'[q] = "stream")
      BY <1>1, <1>b DEF vars, Vessel, VesselRead, VesselExitCooldown, VesselSync, VesselIdle,
         VesselEmit, First, GoTo, signal, book, Live, Listed, Named
    <2> QED
      BY <2>1, <1>a, <1>b, BookQuiet DEF Live, Listed, Named
  <1>2. CASE Deliver
    <2>1. /\ UNCHANGED <<open, cur, hash, idx>>
          /\ \A q \in Pos : stage'[q] = stage[q] \/ (stage[q] = "stream" /\ stage'[q] = "delivered")
      BY <1>2, <1>b DEF Deliver, signal, book
    <2> QED
      BY <2>1, <1>a, <1>b, BookQuiet DEF Live, Listed, Named
  <1>3. ASSUME NEW p \in Pos, Dispatch(p) \/ Take(p) \/ FlipRead(p)
        PROVE  BookInv'
    <2>1. UNCHANGED <<open, cur, hash, idx>>
      BY <1>3 DEF Dispatch, DispatchToPool, ManualExitRead, ManualExitPull, Take, FlipRead,
                  signal, book
    <2>2. PICK s \in {"queued", "pulling", "done", "flip_read", "gate", "flip_load"} :
               stage' = [stage EXCEPT ![p] = s]
      BY <1>3, Zenon DEF Dispatch, DispatchToPool, ManualExitRead, ManualExitPull, Take,
         FlipRead, GoTo
    <2>3. stage[p] \in {"delivered", "pulling", "queued", "flip_read"}
      BY <1>3 DEF Dispatch, DispatchToPool, ManualExitRead, ManualExitPull, Take, FlipRead,
                  DispatchNext, First
    <2> QED
      BY <2>1, <2>2, <2>3, <1>a, <1>b, BookQuiet DEF Live, Listed, Named
  <1>4. ASSUME NEW p \in Pos, EnterStep(p), ~Record(p)
        PROVE  BookInv'
    <2>1. UNCHANGED <<open, cur, hash, idx>>
      BY <1>4 DEF EnterStep, Gate, Reserve, ReserveRefused, EntryFill, EntryAbandon,
                  AbortRelease, signal, book
    <2>2. PICK s \in {"reserve", "done", "entry", "record", "abort"} :
               stage' = [stage EXCEPT ![p] = s]
      BY <1>4 DEF EnterStep, Gate, Reserve, ReserveRefused, EntryFill, EntryAbandon,
                  AbortRelease, GoTo
    <2>3. stage[p] \in {"gate", "reserve", "entry", "abort"}
      BY <1>4 DEF EnterStep, Gate, Reserve, ReserveRefused, EntryFill, EntryAbandon,
                  AbortRelease
    <2> QED
      BY <2>1, <2>2, <2>3, <1>a, <1>b, BookQuiet DEF Live, Listed, Named
  <1>5. ASSUME NEW p \in Pos, WatchStep(p) \/ Exit(p) \/ Report(p)
        PROVE  BookInv'
    <2>1. UNCHANGED <<open, cur, idx>>
      BY <1>5 DEF WatchStep, Refresh, EvalHold, EvalExit, Exit, Report, signal, book
    <2>2. PICK s \in Live : stage' = [stage EXCEPT ![p] = s]
      BY <1>5 DEF WatchStep, Refresh, EvalHold, EvalExit, Exit, Report, GoTo, Live
    <2>3. stage[p] \in Live
      BY <1>5 DEF WatchStep, Refresh, EvalHold, EvalExit, Exit, Report, Live
    <2>4. \A q \in Pos : hash[q] = "full" => hash'[q] = "full"
      BY <1>5, <1>b DEF WatchStep, Refresh, EvalHold, EvalExit, Exit, Report, book, TypeOK
    <2> QED
      BY <2>1, <2>2, <2>3, <2>4, <1>a, <1>b, BookQuiet DEF Listed, Named
  <1>6. ASSUME NEW p \in Pos, Release(p) \/ Settle(p)
        PROVE  BookInv'
    BY <1>6, <1>a, <1>b, BookQuiet DEF Release, Settle, GoTo, signal, book, Live, Listed, Named
  <1>7. ASSUME NEW p \in Pos, Record(p) \/ Cleanup(p)
        PROVE  BookInv'
    BY <1>7, <1>a, BookRecord, BookCleanup
  <1> QED
    BY <1>a, <1>1, <1>2, <1>3, <1>4, <1>5, <1>6, <1>7 DEF Next, Worker, CloseStep

\* A step that gives nothing to anyone else keeps reservations with workers
\* that owe them, if it takes no owing worker away from its release.
LEMMA OwedQuiet ==
  ASSUME Calm, OwedInv, held' \subseteq held,
         \A q \in held' : stage[q] \in Owing => stage'[q] \in Owing
  PROVE  OwedInv'
  BY DEF OwedInv

\* A worker leaves the owing stages only by giving its reservation back.
LEMMA NextOwed == IInv /\ OwedInv /\ [Next]_vars => OwedInv'
  <1> SUFFICES ASSUME IInv, OwedInv, [Next]_vars, Calm' PROVE OwedInv'
    BY DEF OwedInv
  <1>a. /\ Calm /\ ~EngineRestart /\ \A p \in Pos : ~Failure(p)
        /\ \A p \in Pos : FlipClose(p) => FlipRead(p) /\ cur[idx[p]] = NoPos
    BY CalmBefore
  <1>b. stage \in [Pos -> Stage] /\ held \subseteq Pos
    BY DEF IInv, TypeOK
  <1>1. CASE UNCHANGED vars \/ (\E i \in Index : Vessel(i)) \/ Deliver
    <2>1. /\ held' = held
          /\ \A q \in Pos : stage'[q] = stage[q] \/ stage[q] \in {"unsent", "stream"}
      BY <1>1, <1>b DEF vars, Vessel, VesselRead, VesselExitCooldown, VesselSync, VesselIdle,
         VesselEmit, First, GoTo, Deliver
    <2> QED
      BY <2>1, <1>a, <1>b, OwedQuiet DEF Owing
  <1>2. ASSUME NEW p \in Pos, Dispatch(p) \/ Take(p) \/ FlipRead(p) \/ Gate(p)
                              \/ \E m \in Premium : ReserveRefused(p, m)
        PROVE  OwedInv'
    <2>1. /\ held' = held /\ stage[p] \notin Owing
          /\ \A q \in Pos : q # p => stage'[q] = stage[q]
      BY <1>2, <1>b DEF Dispatch, DispatchToPool, ManualExitRead, ManualExitPull, Take,
         FlipRead,
                  DispatchNext, First, Gate, ReserveRefused, Owing, GoTo
    <2> QED
      BY <2>1, <1>a, <1>b, OwedQuiet
  <1>3. ASSUME NEW p \in Pos, NEW m \in Premium, Reserve(p, m)
        PROVE  OwedInv'
    BY <1>3, <1>a, <1>b DEF Reserve, TakeReservation, GoTo, OwedInv, Owing
  <1>4. ASSUME NEW p \in Pos,
               \/ \E slip \in Slippage : EntryFill(p, slip)
               \/ EntryAbandon(p) \/ Record(p) \/ WatchStep(p) \/ Exit(p) \/ Report(p)
               \/ Cleanup(p)
        PROVE  OwedInv'
    <2>1. held' = held /\ \E s \in Owing : stage' = [stage EXCEPT ![p] = s]
      BY <1>4 DEF EntryFill, EntryAbandon, Record, WatchStep, Refresh, EvalHold, EvalExit,
                  Exit, Report, Cleanup, DeleteHash, RemoveFromOpen, AddToClosed, ClearCurrent,
                  GoTo, Owing
    <2> QED
      BY <2>1, <1>a, <1>b, OwedQuiet
  <1>5. ASSUME NEW p \in Pos, AbortRelease(p) \/ Release(p)
        PROVE  OwedInv'
    BY <1>5, <1>a, <1>b, OwedQuiet DEF AbortRelease, Release, GoTo
  <1>6. ASSUME NEW p \in Pos, Settle(p)
        PROVE  OwedInv'
    BY <1>6, <1>a, <1>b, OwedQuiet DEF Settle, GoTo, Owing
  <1> QED
    BY <1>a, <1>1, <1>2, <1>3, <1>4, <1>5, <1>6 DEF Next, Worker, EnterStep, CloseStep

\* A step that trades, reports and closes nothing keeps the tally of every
\* stage if it moves signals only between stages of the same tally.
LEMMA TallyQuiet ==
  ASSUME Calm, TallyInv, UNCHANGED <<sold, closed, reports>>,
         \A q \in Pos : /\ stage'[q] \in BeforeSale => stage[q] \in BeforeSale
                        /\ stage'[q] \in AfterSale \ {"report"} => stage'[q] = stage[q]
                        /\ stage'[q] = "report" => stage[q] = "report"
                        /\ stage'[q] = "done" =>
                             /\ cost'[q] = cost[q]
                             /\ \/ stage[q] = "done" /\ (q \in abandoned' <=> q \in abandoned)
                                \/ stage[q] = "settle" /\ q \notin abandoned'
                                \/ stage[q] = "abort" /\ q \in abandoned'
                                \/ cost[q] = 0
  PROVE  TallyInv'
  <1> USE DEF TallyInv
  <1>1. TallyInv!2
    OBVIOUS
  <1>2. TallyInv!2!1' /\ TallyInv!2!2' /\ TallyInv!2!3'
    BY <1>1 DEF AfterSale
  <1>3. TallyInv!2!4' /\ TallyInv!2!5'
    BY <1>1 DEF AfterSale, Teardown, Filed
  <1>4. TallyInv!2!6'
    BY <1>1 DEF Bought, Filed, AfterSale, BeforeSale
  <1> QED
    BY <1>2, <1>3, <1>4

\* Every step keeps the tally of sales and reports.
LEMMA NextTally == IInv /\ TallyInv /\ [Next]_vars => TallyInv'
  <1> SUFFICES ASSUME IInv, TallyInv, [Next]_vars, Calm' PROVE TallyInv'
    BY DEF TallyInv
  <1>a. /\ Calm /\ ~EngineRestart /\ \A p \in Pos : ~Failure(p)
        /\ \A p \in Pos : FlipClose(p) => FlipRead(p) /\ cur[idx[p]] = NoPos
    BY CalmBefore
  <1>b. /\ stage \in [Pos -> Stage] /\ sold \in [Pos -> Nat] /\ reports \in [Pos -> Nat]
        /\ closed \subseteq Pos /\ cost \in [Pos -> Nat]
    BY DEF IInv, TypeOK
  <1>c. /\ \A p \in Pos : stage[p] \in PreReserve \cup {"entry"} => cost[p] = 0
        /\ \A p \in Pos : stage[p] = "abort" => cost[p] = 0 \/ p \in abandoned
        /\ \A p \in abandoned : stage[p] \in AfterAbandon
    BY DEF IInv, HoldInv
  <1>d. TallyInv!2
    BY <1>a DEF TallyInv
  <1>1. CASE UNCHANGED vars \/ (\E i \in Index : Vessel(i)) \/ Deliver
    <2>1. /\ UNCHANGED <<sold, closed, reports, cost, abandoned>>
          /\ \A q \in Pos : \/ stage'[q] = stage[q]
                            \/ stage[q] = "unsent" /\ stage'[q] = "stream"
                            \/ stage[q] = "stream" /\ stage'[q] = "delivered"
      BY <1>1, <1>b DEF vars, Vessel, VesselRead, VesselExitCooldown, VesselSync, VesselIdle,
         VesselEmit, First, GoTo, Deliver, book, broker
    <2>2. {"unsent", "stream"} \subseteq BeforeSale
      BY DEF BeforeSale, PreReserve, Unprocessed
    <2>3. {"stream", "delivered", "done"} \cap AfterSale = {} /\ "done" \notin {"stream", "delivered"}
      BY DEF AfterSale
    <2> QED
      BY <2>1, <2>2, <2>3, <1>a, TallyQuiet DEF AfterSale
  <1>2. ASSUME NEW p \in Pos, Dispatch(p) \/ Take(p) \/ FlipRead(p) \/ Gate(p)
                              \/ \E m \in Premium : Reserve(p, m) \/ ReserveRefused(p, m)
        PROVE  TallyInv'
    <2>1. UNCHANGED <<sold, closed, reports, cost, abandoned>> /\ stage[p] \in PreReserve
      BY <1>2 DEF Dispatch, DispatchToPool, ManualExitRead, ManualExitPull, Take, FlipRead,
                  DispatchNext, First, Gate, Reserve, ReserveRefused, PreReserve, Unprocessed,
                  book, broker
    <2>2. PICK s \in Stage : stage' = [stage EXCEPT ![p] = s] /\ s \notin AfterSale
      BY <1>2 DEF Dispatch, DispatchToPool, ManualExitRead, ManualExitPull, Take, FlipRead,
                  DispatchNext, First, Gate, Reserve, ReserveRefused, GoTo, Stage, Active,
                  FlipStage, OwnStage, AfterSale
    <2>3. PreReserve \subseteq BeforeSale
      BY DEF BeforeSale
    <2>4. "report" \in AfterSale
      BY DEF AfterSale
    <2> QED
      BY <2>1, <2>2, <2>3, <2>4, <1>a, <1>b, <1>c, TallyQuiet
  <1>3. ASSUME NEW p \in Pos,
               \/ \E slip \in Slippage : EntryFill(p, slip)
               \/ EntryAbandon(p) \/ AbortRelease(p) \/ Record(p) \/ WatchStep(p)
        PROVE  TallyInv'
    <2>1. UNCHANGED <<sold, closed, reports>> /\ stage[p] \in BeforeSale
      BY <1>3 DEF EntryFill, EntryAbandon, AbortRelease, Record, WatchStep, Refresh, EvalHold,
                  EvalExit, book, broker, BeforeSale
    <2>a. \A q \in Pos : q # p => cost'[q] = cost[q] /\ (q \in abandoned' <=> q \in abandoned)
      BY <1>3, <1>b DEF EntryFill, EntryAbandon, AbortRelease, Record, WatchStep, Refresh,
                  EvalHold, EvalExit, broker
    <2>2. PICK s \in {"record", "abort", "done", "refresh", "eval", "exit"} :
            /\ stage' = [stage EXCEPT ![p] = s]
            /\ s = "done" => stage[p] = "abort" /\ cost' = cost /\ abandoned' = abandoned
      BY <1>3 DEF EntryFill, EntryAbandon, AbortRelease, Record, WatchStep, Refresh, EvalHold,
                  EvalExit, GoTo, broker
    <2>3. s \notin AfterSale /\ s # "report"
      BY DEF AfterSale
    <2> QED
      BY <2>1, <2>a, <2>2, <2>3, <1>a, <1>b, <1>c, TallyQuiet
  <1>4. ASSUME NEW p \in Pos, Exit(p)
        PROVE  TallyInv'
    <2>1. /\ stage[p] = "exit" /\ stage' = [stage EXCEPT ![p] = "report"]
          /\ sold' = [sold EXCEPT ![p] = @ + 1] /\ UNCHANGED <<cost, abandoned, closed, reports>>
      BY <1>4 DEF Exit, GoTo, book
    <2>2. sold[p] = 0 /\ reports[p] = 0
      BY <1>d, <2>1 DEF BeforeSale
    <2> QED
      BY <1>b, <1>d, <2>1, <2>2 DEF TallyInv, BeforeSale, AfterSale, Teardown, Filed, Bought,
         PreReserve, Unprocessed, FlipStage
  <1>5. ASSUME NEW p \in Pos, Report(p)
        PROVE  TallyInv'
    <2>1. /\ stage[p] = "report" /\ stage' = [stage EXCEPT ![p] = "cleanup"]
          /\ reports' = [reports EXCEPT ![p] = @ + 1] /\ UNCHANGED <<cost, abandoned, closed, sold>>
      BY <1>5 DEF Report, GoTo, broker
    <2>2. sold[p] = 1 /\ reports[p] = 0
      BY <1>d, <2>1 DEF AfterSale
    <2> QED
      BY <1>b, <1>d, <2>1, <2>2 DEF TallyInv, BeforeSale, AfterSale, Teardown, Filed, Bought,
         PreReserve, Unprocessed, FlipStage
  <1>6. ASSUME NEW p \in Pos, Cleanup(p) \/ Release(p)
        PROVE  TallyInv'
    <2>1. /\ stage[p] \in Teardown \cup {"current", "release"}
          /\ UNCHANGED <<cost, abandoned, reports, sold>>
          /\ closed \subseteq closed'
      BY <1>6 DEF Cleanup, DeleteHash, RemoveFromOpen, AddToClosed, ClearCurrent, Release,
                  broker, book, Teardown
    <2>2. PICK s \in {"unlist", "closed"} \cup Filed :
               /\ stage' = [stage EXCEPT ![p] = s]
               /\ s \in Filed => stage[p] \in Filed \/ p \in closed'
      BY <1>6 DEF Cleanup, DeleteHash, RemoveFromOpen, AddToClosed, ClearCurrent, Release,
                  GoTo, Filed
    <2>3. sold[p] = 1 /\ reports[p] = 1 /\ (s \in Filed => p \in closed')
      BY <1>d, <2>1, <2>2 DEF AfterSale, Teardown, Filed
    <2>4. /\ s \in AfterSale \ {"report"} /\ s \notin BeforeSale /\ s # "done"
          /\ {"unlist", "closed"} \cap Filed = {}
      BY DEF AfterSale, BeforeSale, Filed, PreReserve, Unprocessed, FlipStage
    <2> QED
      BY <1>b, <1>d, <2>1, <2>2, <2>3, <2>4 DEF TallyInv, Bought
  <1>7. ASSUME NEW p \in Pos, Settle(p)
        PROVE  TallyInv'
    <2>1. /\ stage[p] = "settle" /\ stage' = [stage EXCEPT ![p] = "done"]
          /\ UNCHANGED <<cost, abandoned, sold, reports, closed>>
      BY <1>7 DEF Settle, GoTo, broker, book
    <2>2. "done" \notin AfterSale \cup BeforeSale
      BY DEF AfterSale, BeforeSale, PreReserve, Unprocessed, FlipStage
    <2>3. "report" # "done" /\ p \notin abandoned
      BY <2>1, <1>c DEF AfterAbandon
    <2> QED
      BY <2>1, <2>2, <2>3, <1>a, <1>b, TallyQuiet
  <1> QED
    BY <1>a, <1>1, <1>2, <1>3, <1>4, <1>5, <1>6, <1>7 DEF Next, Worker, EnterStep, CloseStep

\* A step that puts no vessel into a position, and finishes no worker, leaves
\* every vessel in a position with a worker.
LEMMA PlacedQuiet ==
  ASSUME Calm, PlacedInv,
         \A i \in Index : vstate'[i] = vstate[i] \/ vstate'[i] \notin Side,
         \A q \in Pos : stage[q] \in Named \cup Filed =>
                          stage'[q] \in Named \cup Filed /\ idx'[q] = idx[q]
  PROVE  PlacedInv'
  BY DEF PlacedInv

\* Every step leaves a vessel in a position with a worker for it.
LEMMA NextPlaced == IInv /\ PlacedInv /\ [Next]_vars => PlacedInv'
  <1> SUFFICES ASSUME IInv, PlacedInv, [Next]_vars, Calm' PROVE PlacedInv'
    BY DEF PlacedInv
  <1>a. /\ Calm /\ ~EngineRestart /\ \A p \in Pos : ~Failure(p)
        /\ \A p \in Pos : FlipClose(p) => FlipRead(p) /\ cur[idx[p]] = NoPos
    BY CalmBefore
  <1>b. /\ stage \in [Pos -> Stage] /\ vstate \in [Index -> VState]
        /\ idx \in [Pos -> Index \cup {None}]
        /\ \A p \in Pos : stage[p] # "unsent" => idx[p] \in Index
    BY DEF IInv, TypeOK
  <1>c. "FLAT" \notin Side /\ "COOLDOWN" \notin Side
    BY OrderExecAssumption
  <1>1. CASE UNCHANGED vars \/ (\E i \in Index : Vessel(i)) \/ Deliver
    <2>1. /\ \A i \in Index : vstate'[i] = vstate[i] \/ vstate'[i] = "FLAT"
          /\ \A q \in Pos : stage[q] \notin {"unsent", "stream"} =>
                              stage'[q] = stage[q] /\ idx'[q] = idx[q]
      BY <1>1, <1>b DEF vars, Vessel, VesselRead, VesselExitCooldown, VesselSync, VesselIdle,
         VesselEmit, First, GoTo, Deliver, signal
    <2> QED
      BY <2>1, <1>a, <1>c, PlacedQuiet DEF Live, Listed, Named, Filed
  <1>2. ASSUME NEW p \in Pos, Dispatch(p) \/ Take(p) \/ FlipRead(p) \/ EnterStep(p), ~Record(p)
        PROVE  PlacedInv'
    <2>1. /\ UNCHANGED <<vstate, idx>> /\ stage[p] \notin Named \cup Filed
          /\ \A q \in Pos : q # p => stage'[q] = stage[q]
      BY <1>2, <1>b DEF Dispatch, DispatchToPool, ManualExitRead, ManualExitPull, Take,
         FlipRead,
                  DispatchNext, First, EnterStep, Gate, Reserve, ReserveRefused, EntryFill,
                  EntryAbandon, AbortRelease, GoTo, signal, Live, Listed, Named, Filed
    <2> QED
      BY <2>1, <1>a, PlacedQuiet
  <1>3. ASSUME NEW p \in Pos, Record(p)
        PROVE  PlacedInv'
    <2>1. /\ stage' = [stage EXCEPT ![p] = "refresh"] /\ idx' = idx /\ stage[p] = "record"
          /\ vstate' = [vstate EXCEPT ![idx[p]] = side[p]]
      BY <1>3 DEF Record, GoTo, signal
    <2>2. SUFFICES ASSUME NEW i \in Index, vstate'[i] \in Side
                   PROVE  \E q \in Pos : idx[q] = i /\ stage'[q] \in Named \cup Filed
      BY <2>1 DEF PlacedInv
    <2>3. CASE i = idx[p]
      BY <1>b, <2>1, <2>3 DEF Live, Listed, Named
    <2>4. CASE i # idx[p]
      <3>1. PICK q \in Pos : idx[q] = i /\ stage[q] \in Named \cup Filed
        BY <1>a, <1>b, <2>1, <2>2, <2>4 DEF PlacedInv
      <3> QED
        BY <1>b, <2>1, <2>4, <3>1
    <2> QED
      BY <2>3, <2>4
  <1>4. ASSUME NEW p \in Pos, WatchStep(p) \/ CloseStep(p), ~Settle(p)
        PROVE  PlacedInv'
    <2>1. UNCHANGED <<vstate, idx>>
      BY <1>4 DEF WatchStep, CloseStep, Refresh, EvalHold, EvalExit, Exit, Report, Cleanup,
                  DeleteHash, RemoveFromOpen, AddToClosed, ClearCurrent, Release, signal
    <2>2. \E s \in Named \cup Filed : stage' = [stage EXCEPT ![p] = s]
      BY <1>4 DEF WatchStep, CloseStep, Refresh, EvalHold, EvalExit, Exit, Report, Cleanup,
                  DeleteHash, RemoveFromOpen, AddToClosed, ClearCurrent, Release, GoTo, Live,
                  Listed, Named, Filed
    <2> QED
      BY <1>a, <1>b, <2>1, <2>2, PlacedQuiet
  <1>5. ASSUME NEW p \in Pos, Settle(p)
        PROVE  PlacedInv'
    <2>1. /\ stage' = [stage EXCEPT ![p] = "done"] /\ idx' = idx /\ stage[p] = "settle"
          /\ \E s \in {"FLAT", "COOLDOWN"} : vstate' = [vstate EXCEPT ![idx[p]] = s]
      BY <1>5 DEF Settle, GoTo, signal
    <2>2. SUFFICES ASSUME NEW i \in Index, vstate'[i] \in Side
                   PROVE  \E q \in Pos : idx[q] = i /\ stage'[q] \in Named \cup Filed
      BY <2>1 DEF PlacedInv
    <2>3. i # idx[p] /\ vstate'[i] = vstate[i]
      BY <1>b, <1>c, <2>1, <2>2
    <2>4. PICK q \in Pos : idx[q] = i /\ stage[q] \in Named \cup Filed
      BY <1>a, <2>2, <2>3 DEF PlacedInv
    <2> QED
      BY <1>b, <2>1, <2>3, <2>4
  <1> QED
    BY <1>a, <1>1, <1>2, <1>3, <1>4, <1>5 DEF Next, Worker, EnterStep
-----------------------------------------------------------------------------
(* The premium that is deployed.                                           *)

\* Reservations and releases keep the sum; a flip that releases what it did not
\* reserve is out of the statement's scope.
LEMMA NextDeployed == IInv /\ DeployedAddsUp /\ [Next]_vars => DeployedAddsUp'
  <1> SUFFICES ASSUME IInv, DeployedAddsUp, [Next]_vars, NoFlipClose'
               PROVE  AddsUp(held', prem', deployedTotal')
    BY DEF DeployedAddsUp
  <1>a. TypeOK /\ VictimInv /\ HoldInv
    BY DEF IInv
  <1>b. AddsUp(held, prem, deployedTotal)
    BY NoFlipCloseBefore DEF DeployedAddsUp
  <1>c. held \subseteq Pos /\ deployedTotal \in Int /\ prem \in [Pos -> Premium \cup {0}]
    BY <1>a DEF TypeOK
  <1>d. \A q \in held : prem[q] \in Int
    BY <1>a, AmountsPositive DEF HoldInv
  <1>1. ASSUME NEW p \in Pos, NEW m \in Premium, stage[p] = "reserve", TakeReservation(p, m)
        PROVE  AddsUp(held', prem', deployedTotal')
    <2>1. p \notin held /\ m \in Int
      BY <1>1, <1>a, AmountsPositive DEF HoldInv, PreReserve
    <2>2. /\ held' = held \cup {p} /\ deployedTotal' = deployedTotal + m
          /\ prem' = [prem EXCEPT ![p] = m]
      BY <1>1 DEF TakeReservation
    <2>3. prem'[p] = m /\ \A q \in held : prem'[q] = prem[q]
      BY <1>c, <2>1, <2>2
    <2> QED
      BY <1>b, <1>c, <2>1, <2>2, <2>3, AddOne
  <1>2. ASSUME NEW p \in Pos, AbortRelease(p) \/ Release(p)
        PROVE  AddsUp(held', prem', deployedTotal')
    <2>1. p \in held
      BY <1>2, <1>a DEF AbortRelease, Release, HoldInv, Owing
    <2>2. held' = held \ {p} /\ prem' = prem /\ deployedTotal' = deployedTotal - prem[p]
      BY <1>2 DEF AbortRelease, Release, AllocatorRelease
    <2> QED
      BY <1>b, <1>c, <1>d, <2>1, <2>2, RemoveOne
  <1>3. ASSUME NEW p \in Pos, FlipRelease(p)
        PROVE  FALSE
    <2>1. victim[p] \in Pos /\ intent[p] = "REVERSAL_FLIP"
      BY <1>3, <1>a DEF FlipRelease, VictimInv, FlipStage
    <2> QED
      BY <1>3, <2>1 DEF FlipRelease, NoFlipClose, Pos, NoPos, signal
  <1>4. CASE UNCHANGED <<held, prem, deployedTotal>>
    BY <1>4, <1>b
  <1>5. ASSUME NEW p \in Pos, NEW m \in Premium, Reserve(p, m) \/ ReserveReplyLost(p, m)
        PROVE  AddsUp(held', prem', deployedTotal')
    BY <1>5, <1>1 DEF Reserve, ReserveReplyLost
  <1>6. \/ UNCHANGED <<held, prem, deployedTotal>>
        \/ \E p \in Pos : AbortRelease(p) \/ Release(p) \/ FlipRelease(p)
        \/ \E p \in Pos, m \in Premium : Reserve(p, m) \/ ReserveReplyLost(p, m)
    <2>1. CASE UNCHANGED vars \/ Deliver \/ EngineRestart \/ \E i \in Index : Vessel(i)
      BY <2>1 DEF vars, ledger, Deliver, EngineRestart, Vessel, VesselRead, VesselExitCooldown,
                  VesselSync, VesselIdle, VesselEmit
    <2>2. ASSUME NEW p \in Pos, Dispatch(p) \/ Take(p) \/ WatchStep(p)
          PROVE  UNCHANGED <<held, prem, deployedTotal>>
      BY <2>2 DEF ledger, Dispatch, DispatchToPool, ManualExitRead, ManualExitPull, Take,
                  WatchStep, Refresh, EvalHold, EvalExit
    <2>3. ASSUME NEW p \in Pos, FlipClose(p), ~FlipRelease(p)
          PROVE  UNCHANGED <<held, prem, deployedTotal>>
      BY <2>3 DEF ledger, FlipClose, FlipRead, FlipLoad, FlipExit, FlipReport, FlipCleanup,
         DeleteHash, RemoveFromOpen, AddToClosed, ClearCurrent
    <2>4. ASSUME NEW p \in Pos, EnterStep(p), ~AbortRelease(p), \A m \in Premium : ~Reserve(p,
                 m)
          PROVE  UNCHANGED <<held, prem, deployedTotal>>
      BY <2>4 DEF ledger, EnterStep, Gate, ReserveRefused, EntryFill, EntryAbandon, Record
    <2>5. ASSUME NEW p \in Pos, CloseStep(p), ~Release(p)
          PROVE  UNCHANGED <<held, prem, deployedTotal>>
      BY <2>5 DEF ledger, CloseStep, Exit, Report, Cleanup, DeleteHash, RemoveFromOpen,
         AddToClosed, ClearCurrent, Settle
    <2>6. ASSUME NEW p \in Pos, Failure(p), \A m \in Premium : ~ReserveReplyLost(p, m)
          PROVE  UNCHANGED <<held, prem, deployedTotal>>
      BY <2>6 DEF ledger, Failure, WorkerRaises, FlipExitRaises, ReportFails, CleanupFails,
         ReleaseFails
    <2> QED
      BY <2>1, <2>2, <2>3, <2>4, <2>5, <2>6 DEF Next, Worker
  <1> QED
    BY <1>2, <1>3, <1>4, <1>5, <1>6
-----------------------------------------------------------------------------
\* At the start the books are empty.
LEMMA InitBInv == Init => BInv
  <1> SUFFICES ASSUME Init PROVE BInv
    OBVIOUS
  <1> USE OrderExecAssumption DEF Init
  <1>1. SaleInv
    BY DEF SaleInv, ClosedOnlyAfterSale, Bought, FlipSold, Teardown, FlipTeardown, OwnStage
  <1>2. BookInv /\ OwedInv
    BY DEF BookInv, OwedInv, Live, Listed, Named
  <1>3. TallyInv
    BY DEF TallyInv, Teardown, Filed, AfterSale, Bought
  <1>4. PlacedInv
    BY DEF PlacedInv
  <1>5. DeployedAddsUp
    BY EmptyAddsUp DEF DeployedAddsUp
  <1> QED
    BY <1>1, <1>2, <1>3, <1>4, <1>5 DEF BInv

\* The books' invariant holds throughout every behaviour.
THEOREM AlwaysBInv == Spec => [](IInv /\ BInv)
  <1>1. IInv /\ BInv /\ [Next]_vars => IInv' /\ BInv'
    BY NextIInv, NextSale, NextBook, NextOwed, NextTally, NextPlaced, NextDeployed DEF BInv
  <1> QED
    BY <1>1, InitIInv, InitBInv, PTL DEF Spec

\* A flip buys only after the position it replaces was sold, and a position is
\* filed as closed only after its sale and after its report was queued or the
\* attempt failed, whoever closes it and whatever else fails.
THEOREM AlwaysClosedOnlyAfterSale == Spec => []ClosedOnlyAfterSale
  <1>1. BInv => ClosedOnlyAfterSale
    BY DEF BInv, SaleInv
  <1> QED
    BY <1>1, AlwaysBInv, PTL

\* Until something fails or a flip takes over a position, an open position is
\* current on its index, and loadable until its worker deletes its hash, and
\* what is current is open or about to be blanked by its own worker.
THEOREM AlwaysBookConsistent == Spec => []BookConsistent
  <1>1. IInv /\ BInv => BookConsistent
    <2> SUFFICES ASSUME IInv, BInv, NoFlipClose, faults = 0 PROVE BookConsistent!2
      BY DEF BookConsistent
    <2>1. BookInv!2
      BY DEF BInv, BookInv, Calm
    <2>2. open \subseteq Pos /\ cur \in [Index -> Pos \cup {NoPos}]
      BY DEF IInv, TypeOK
    <2>3. \A p \in open : cur[idx[p]] = p /\ (hash[p] = "full" \/ stage[p] = "unlist")
      BY <2>1, <2>2 DEF Listed, Named
    <2>4. \A i \in Index : cur[i] # NoPos =>
            idx[cur[i]] = i /\ (cur[i] \in open \/ stage[cur[i]] \in {"closed", "current"})
      BY <2>1, <2>2 DEF Named
    <2> QED
      BY <2>3, <2>4
  <1> QED
    BY <1>1, AlwaysBInv, PTL

\* deployed["total"] is at every moment the sum of the premiums reserved by
\* the workers that have not given them back, failed and lost ones included,
\* until a flip takes over a position.
THEOREM AlwaysDeployedAddsUp == Spec => []DeployedAddsUp
  <1>1. BInv => DeployedAddsUp
    BY DEF BInv
  <1> QED
    BY <1>1, AlwaysBInv, PTL

\* When every signal has been dealt with, nothing failed and no flip took over
\* a position, nothing is left behind: no reservation, no open or current
\* position, no vessel in a position, every purchase that an entry reported was
\* sold and reported exactly once, and what an entry abandoned was not sold.
THEOREM AlwaysSettledMeansFlat == Spec => []SettledMeansFlat
  <1>1. IInv /\ BInv => SettledMeansFlat
    <2> SUFFICES ASSUME IInv, BInv, NoFlipClose, faults = 0,
                        \A p \in Pos : stage[p] \in {"unsent", "done"}
                 PROVE  SettledMeansFlat!2
      BY DEF SettledMeansFlat
    <2>a. Calm /\ TypeOK /\ LedgerCountsHeld!2 /\ HoldInv
      BY DEF Calm, IInv, LedgerCountsHeld
    <2>1. held = {}
      BY <2>a DEF BInv, OwedInv, Owing, TypeOK
    <2>2. symbols = {} /\ openTotal = 0
      BY <2>a, <2>1, FS_EmptySet
    <2>3. deployedTotal = 0
      BY <2>1, EmptyAddsUp DEF BInv, DeployedAddsUp
    <2>4. open = {} /\ \A i \in Index : cur[i] = NoPos
      BY <2>a DEF BInv, BookInv, Live, Listed, Named, TypeOK
    <2>5. \A i \in Index : vstate[i] \notin Side
      BY <2>a DEF BInv, PlacedInv, Live, Listed, Named, Filed
    <2>6. \A p \in Pos : Bought(p) =>
            IF p \in abandoned THEN sold[p] = 0
            ELSE p \in closed /\ sold[p] = 1 /\ reports[p] = 1
      <3>1. \A p \in Pos : stage[p] = "unsent" => ~Bought(p)
        BY <2>a DEF HoldInv, PreReserve, Unprocessed, Bought
      <3> QED
        BY <2>a, <3>1 DEF BInv, TallyInv
    <2> QED
      BY <2>1, <2>2, <2>3, <2>4, <2>5, <2>6
  <1> QED
    BY <1>1, AlwaysBInv, PTL

\* current_position_id never goes from one position to another without being
\* blanked in between.
THEOREM AlwaysCurrentNotOverwritten == Spec => CurrentNotOverwritten
  <1> DEFINE Kept == \A i \in Index :
               (NoFlipClose' /\ faults' = 0 /\ cur[i] # NoPos) => cur'[i] \in {cur[i], NoPos}
  <1>1. IInv /\ BInv /\ [Next]_vars => [Kept]_vars
    <2> SUFFICES ASSUME IInv, BInv, [Next]_vars, NEW i \in Index, Calm', cur[i] # NoPos
                 PROVE  cur'[i] \in {cur[i], NoPos}
      BY DEF Calm
    <2>a. /\ Calm /\ ~EngineRestart /\ \A p \in Pos : ~Failure(p)
          /\ \A p \in Pos : FlipClose(p) => FlipRead(p)
      BY CalmBefore
    <2>b. TypeOK /\ HoldInv /\ LedgerCountsHeld!2 /\ BookInv!2
      BY <2>a DEF IInv, BInv, LedgerCountsHeld, BookInv, Calm
    <2>c. cur \in [Index -> Pos \cup {NoPos}]
      BY <2>b DEF TypeOK
    <2>1. CASE UNCHANGED cur
      BY <2>1
    <2>2. ASSUME NEW p \in Pos, ClearCurrent(p, "current", "release")
          PROVE  cur'[i] \in {cur[i], NoPos}
      BY <2>2, <2>c DEF ClearCurrent
    <2>3. ASSUME NEW p \in Pos, Record(p) PROVE cur'[i] = cur[i]
      <3>1. stage[p] = "record" /\ cur' = [cur EXCEPT ![idx[p]] = p]
        BY <2>3 DEF Record
      <3>2. CASE idx[p] = i
        \* The current position and p would both hold a reservation of i.
        <4>1. cur[i] \in Pos /\ idx[cur[i]] = i /\ stage[cur[i]] \in Named
          BY <2>b, <2>c
        <4>2. p \in held /\ cur[i] \in held
          BY <2>b, <3>1, <4>1 DEF HoldInv, Owing, Live, Listed, Named
        <4>3. p = cur[i]
          BY <2>b, <3>2, <4>1, <4>2
        <4> QED
          BY <3>1, <4>1, <4>3 DEF Live, Listed, Named
      <3> QED
        BY <2>c, <3>1, <3>2
    <2>4. \/ UNCHANGED cur
          \/ \E p \in Pos : ClearCurrent(p, "current", "release") \/ Record(p)
      <3>1. CASE UNCHANGED vars \/ Deliver \/ \E j \in Index : Vessel(j)
        BY <3>1 DEF vars, Deliver, Vessel, VesselRead, VesselExitCooldown, VesselSync,
                    VesselIdle, VesselEmit
      <3>2. ASSUME NEW p \in Pos, Dispatch(p) \/ Take(p) \/ FlipRead(p) \/ WatchStep(p)
            PROVE  UNCHANGED cur
        BY <3>2 DEF Dispatch, DispatchToPool, ManualExitRead, ManualExitPull, Take, FlipRead,
                    WatchStep, Refresh, EvalHold, EvalExit
      <3>3. ASSUME NEW p \in Pos, EnterStep(p) \/ CloseStep(p), ~Record(p), ~ClearCurrent(p,
                   "current", "release")
            PROVE  UNCHANGED cur
        BY <3>3 DEF EnterStep, CloseStep, Gate, Reserve, ReserveRefused, EntryFill,
                    EntryAbandon, AbortRelease, Exit, Report, Cleanup, DeleteHash,
                    RemoveFromOpen,
                    AddToClosed, Release, Settle
      <3> QED
        BY <2>a, <3>1, <3>2, <3>3 DEF Next, Worker
    <2> QED
      BY <2>1, <2>2, <2>3, <2>4
  <1> QED
    BY <1>1, AlwaysBInv, PTL DEF Spec, CurrentNotOverwritten
=============================================================================
