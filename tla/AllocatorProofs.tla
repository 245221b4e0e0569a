-------------------------- MODULE AllocatorProofs --------------------------
(***************************************************************************)
(* Proofs that the optimistic transaction of allocator.py keeps its caps   *)
(* and its records consistent, and that it implements AllocatorSpec, for   *)
(* every pool of workers, every set of indexes and every capital.          *)
(***************************************************************************)
EXTENDS Allocator, SumProofs, FiniteSetTheorems

\* deployed["total"] is the sum of the amounts deployed on the indexes in
\* open_symbols, which DeployedMatchesHolders says whose they are.
TotalAddsUp == AddsUp(openSymbols, deployed, deployedTotal)

\* The inductive invariant.  WatchedReadsFresh is what lets a commit rely on
\* the reads before it; that a held index is never a leaked one (part of
\* LedgerMatchesHolders) keeps a release from taking a leaked one away.
IInv == /\ TypeOK
        /\ \A v, w \in Holder : want[v] = want[w] => v = w
        /\ openTotal <= MaxConcurrent
        /\ deployedTotal <= Capital
        /\ LedgerMatchesHolders
        /\ DeployedMatchesHolders
        /\ WatchedReadsFresh
        /\ TotalAddsUp

\* A premium the gate lets through is a positive number of rupees.
LEMMA PremiumPositive == \A m \in Premium : m \in Nat /\ m \in Int /\ m > 0
  BY AllocatorAssumption

\* The initial ledger is empty and nobody holds anything.
LEMMA InitIInv == Init => IInv
  <1> SUFFICES ASSUME Init PROVE IInv
    OBVIOUS
  <1> USE AllocatorAssumption DEF Init
  <1>1. TypeOK
    BY DEF TypeOK, Pc
  <1>2. Holder = {}
    BY DEF Holder
  <1>3. LedgerMatchesHolders
    BY <1>2, FS_EmptySet DEF LedgerMatchesHolders, Leaked
  <1>4. DeployedMatchesHolders
    BY <1>2 DEF DeployedMatchesHolders
  <1>5. WatchedReadsFresh
    BY DEF WatchedReadsFresh
  <1>6. TotalAddsUp
    BY EmptyAddsUp DEF TotalAddsUp
  <1> QED
    BY <1>1, <1>2, <1>3, <1>4, <1>5, <1>6 DEF IInv

\* A step that writes nothing to the ledger and leaves the holders and what
\* they hold alone keeps everything the invariant says about the ledger.
LEMMA QuietStep ==
  ASSUME IInv, TypeOK', UNCHANGED <<store, leaked>>, Holder' = Holder,
         \A w \in Holder : want'[w] = want[w] /\ prem'[w] = prem[w],
         WatchedReadsFresh'
  PROVE  IInv'
  <1> USE DEF store
  <1>1. {want[w] : w \in Holder}' = {want[w] : w \in Holder}
    OBVIOUS
  <1>2. LedgerMatchesHolders'
    BY <1>1 DEF IInv, LedgerMatchesHolders, Leaked
  <1>3. DeployedMatchesHolders'
    BY <1>1 DEF IInv, DeployedMatchesHolders
  <1>4. TotalAddsUp'
    BY DEF IInv, TotalAddsUp
  <1> QED
    BY <1>2, <1>3, <1>4 DEF IInv

\* What committing w's reservation does to the records.
Added(w) ==
  /\ want[w] \in Index /\ want[w] \notin openSymbols
  /\ prem[w] \in Premium /\ prem[w] \in Nat
  /\ deployed' \in [Index -> Int] /\ deployedTotal' \in Int
  /\ openCount' \in [Index -> Int] /\ openTotal' \in Int
  /\ openSymbols' = openSymbols \cup {want[w]}
  /\ openTotal' = Cardinality(openSymbols')
  /\ openTotal' <= MaxConcurrent
  /\ deployedTotal' <= Capital
  /\ \A i \in Index : openCount'[i] = IF i \in openSymbols' THEN 1 ELSE 0
  /\ deployed'[want[w]] = prem[w]
  /\ \A i \in Index \ {want[w]} : deployed'[i] = deployed[i]
  /\ TotalAddsUp'

\* Adding a reservation for an index that is not in open_symbols, by a worker
\* whose reads are fresh, keeps the records in step.
LEMMA AddStep ==
  ASSUME IInv, NEW w \in Worker, pc[w] = "exec", clean[w],
         AddReservation(want[w], prem[w])
  PROVE  Added(w)
  <1> USE AllocatorAssumption
  <1>1. want[w] \in Index /\ prem[w] \in Premium /\ prem[w] \in Nat
    BY DEF IInv, TypeOK
  <1>2. /\ want[w] \notin openSymbols
        /\ openTotal + 1 <= MaxConcurrent
        /\ deployedTotal + prem[w] <= Capital
    BY DEF IInv, WatchedReadsFresh
  <1>3. IsFiniteSet(openSymbols)
    BY FS_Subset DEF IInv, TypeOK
  <1>4. Cardinality(openSymbols \cup {want[w]}) = Cardinality(openSymbols) + 1
    BY <1>2, <1>3, FS_AddElement
  <1>5. deployed[want[w]] = 0 /\ openCount[want[w]] = 0
    BY <1>1, <1>2 DEF IInv, DeployedMatchesHolders, LedgerMatchesHolders, Leaked
  <1>6. /\ deployed \in [Index -> Int] /\ deployedTotal \in Int
        /\ openCount \in [Index -> Int] /\ openTotal \in Int
        /\ openTotal = Cardinality(openSymbols)
        /\ \A i \in Index : openCount[i] = IF i \in openSymbols THEN 1 ELSE 0
    BY DEF IInv, TypeOK, LedgerMatchesHolders
  <1>7. TotalAddsUp'
    <2>1. /\ deployed'[want[w]] = prem[w]
          /\ \A y \in openSymbols : deployed'[y] = deployed[y]
      <3>1. openSymbols \subseteq Index
        BY DEF IInv, TypeOK
      <3> QED
        BY <1>1, <1>2, <1>5, <1>6, <3>1 DEF AddReservation
    <2>2. /\ AddsUp(openSymbols, deployed, deployedTotal)
          /\ prem[w] \in Int /\ deployedTotal \in Int /\ want[w] \notin openSymbols
      BY <1>1, <1>2, <1>6 DEF IInv, TotalAddsUp
    <2>3. AddsUp(openSymbols \cup {want[w]}, deployed', deployedTotal + prem[w])
      BY ONLY <2>1, <2>2, AddOne
    <2> QED
      BY <2>3 DEF AddReservation, TotalAddsUp
  <1> QED
    BY <1>1, <1>2, <1>4, <1>5, <1>6, <1>7 DEF AddReservation, Added

\* Every step of every worker preserves the invariant.
LEMMA NextIInv == IInv /\ [Next]_vars => IInv'
  <1> SUFFICES ASSUME IInv, [Next]_vars PROVE IInv'
    OBVIOUS
  <1> USE AllocatorAssumption
  <1>1. TypeOK /\ WatchedReadsFresh
    BY DEF IInv
  <1>2. CASE UNCHANGED vars
    <2>1. TypeOK' /\ Holder' = Holder /\ WatchedReadsFresh'
      BY <1>1, <1>2 DEF vars, store, seen, TypeOK, Holder, WatchedReadsFresh
    <2> QED
      BY <1>2, <2>1, QuietStep DEF vars
  <1>3. ASSUME NEW w \in Worker, NEW i \in Index, NEW m \in Premium, Call(w, i, m)
        PROVE  IInv'
    <2> USE <1>3 DEF Call, GoTo, store, seen
    <2>1. TypeOK'
      BY <1>1 DEF TypeOK, Pc
    <2>2. Holder' = Holder /\ \A v \in Holder : want'[v] = want[v] /\ prem'[v] = prem[v]
      BY <1>1 DEF TypeOK, Holder
    <2>3. WatchedReadsFresh'
      BY <1>1 DEF TypeOK, WatchedReadsFresh
    <2> QED
      BY <2>1, <2>2, <2>3, QuietStep
  <1>4. ASSUME NEW w \in Worker, Watch(w) PROVE IInv'
    <2> USE <1>4 DEF Watch, GoTo, store, seen
    <2>1. TypeOK'
      BY <1>1 DEF TypeOK, Pc
    <2>2. Holder' = Holder
      BY <1>1 DEF TypeOK, Holder
    <2>3. WatchedReadsFresh'
      BY <1>1 DEF TypeOK, WatchedReadsFresh
    <2> QED
      BY <2>1, <2>2, <2>3, QuietStep
  <1>5. ASSUME NEW w \in Worker, CheckIndex(w) PROVE IInv'
    <2> USE <1>5 DEF CheckIndex, GoTo, store, seen
    <2>1. TypeOK'
      BY <1>1 DEF TypeOK, Pc
    <2>2. Holder' = Holder
      BY <1>1 DEF TypeOK, Holder
    <2>3. WatchedReadsFresh'
      BY <1>1 DEF TypeOK, WatchedReadsFresh
    <2> QED
      BY <2>1, <2>2, <2>3, QuietStep
  <1>6. ASSUME NEW w \in Worker, ReadOpenTotal(w) PROVE IInv'
    <2> USE <1>6 DEF ReadOpenTotal, GoTo, store
    <2>1. TypeOK'
      BY <1>1 DEF TypeOK, Pc
    <2>2. Holder' = Holder
      BY <1>1 DEF TypeOK, Holder
    <2>3. WatchedReadsFresh'
      BY <1>1 DEF TypeOK, WatchedReadsFresh
    <2> QED
      BY <2>1, <2>2, <2>3, QuietStep
  <1>7. ASSUME NEW w \in Worker, ReadDeployedTotal(w) PROVE IInv'
    <2> USE <1>7 DEF ReadDeployedTotal, GoTo, store
    <2>1. TypeOK'
      BY <1>1 DEF TypeOK, Pc
    <2>2. Holder' = Holder
      BY <1>1 DEF TypeOK, Holder
    <2>3. WatchedReadsFresh'
      <3> SUFFICES ASSUME NEW v \in Worker, clean'[v]
                   PROVE  WatchedReadsFresh!(v)!2'
        BY DEF WatchedReadsFresh
      <3>1. CASE v = w
        <4>1. prem[w] \in Int /\ seenOpen[w] \in Int /\ deployedTotal \in Int
          BY <1>1, PremiumPositive DEF TypeOK
        <4>2. seenOpen[w] + 1 <= MaxConcurrent /\ deployedTotal + prem[w] <= Capital
          BY <4>1 DEF MaxConcurrentReached, InsufficientCapital
        <4> QED
          BY <1>1, <3>1, <4>2 DEF TypeOK, WatchedReadsFresh
      <3>2. CASE v # w
        BY <1>1, <3>2 DEF TypeOK, WatchedReadsFresh
      <3> QED
        BY <3>1, <3>2
    <2> QED
      BY <2>1, <2>2, <2>3, QuietStep
  <1>8. ASSUME NEW w \in Worker, Refuse(w), pc[w] # "holding" PROVE IInv'
    <2> USE <1>8 DEF Refuse, BecomeIdle, ForgetReads, GoTo, store
    <2>1. TypeOK'
      BY <1>1 DEF TypeOK, Pc
    <2>2. Holder' = Holder /\ \A v \in Holder : want'[v] = want[v] /\ prem'[v] = prem[v]
      BY <1>1 DEF TypeOK, Holder
    <2>3. WatchedReadsFresh'
      BY <1>1 DEF TypeOK, WatchedReadsFresh
    <2> QED
      BY <2>1, <2>2, <2>3, QuietStep
  <1>9. ASSUME NEW w \in Worker, Retry(w) PROVE IInv'
    <2> USE <1>9 DEF Retry, ForgetReads, GoTo, store
    <2>1. TypeOK'
      BY <1>1 DEF TypeOK, Pc
    <2>2. Holder' = Holder
      BY <1>1 DEF TypeOK, Holder
    <2>3. WatchedReadsFresh'
      BY <1>1 DEF TypeOK, WatchedReadsFresh
    <2> QED
      BY <2>1, <2>2, <2>3, QuietStep
  <1>10. ASSUME NEW w \in Worker, Commit(w) PROVE IInv'
    <2> USE <1>10 DEF Commit, GoTo, ForgetReads, SpoilWatches, Added
    <2>1. Added(w)
      BY AddStep
    <2>2. TypeOK'
      BY <1>1, <2>1 DEF TypeOK, Pc
    <2>3. Holder' = Holder \cup {w} /\ w \notin Holder
      BY <1>1 DEF TypeOK, Holder
    <2>4. {want[v] : v \in Holder}' = {want[v] : v \in Holder} \cup {want[w]}
      BY <2>3
    <2>5. LedgerMatchesHolders'
      BY <2>1, <2>3, <2>4 DEF IInv, LedgerMatchesHolders, Leaked
    <2>6. \A v \in Holder : want[v] \in openSymbols /\ want[v] \in Index
      BY <1>1 DEF IInv, LedgerMatchesHolders, TypeOK, Holder
    <2>7. DeployedMatchesHolders'
      BY <1>1, <2>1, <2>3, <2>4, <2>6 DEF IInv, DeployedMatchesHolders, TypeOK
    <2>8. WatchedReadsFresh'
      BY DEF WatchedReadsFresh
    <2>9. \A u, v \in Holder' : want'[u] = want'[v] => u = v
      BY <2>1, <2>3, <2>6 DEF IInv
    <2> QED
      BY <2>1, <2>2, <2>5, <2>7, <2>8, <2>9 DEF IInv
  <1>11. ASSUME NEW w \in Worker, LoseReply(w) PROVE IInv'
    <2> USE <1>11 DEF LoseReply, BecomeIdle, GoTo, ForgetReads, SpoilWatches, Added, Leak
    <2>1. Added(w)
      BY AddStep
    <2>2. TypeOK'
      <3>1. CASE BecomeIdle(w)
        BY <1>1, <2>1, <3>1 DEF TypeOK, Pc
      <3>2. CASE UNCHANGED <<want, prem>> /\ pc' = [pc EXCEPT ![w] = "watch"]
        BY <1>1, <2>1, <3>2 DEF TypeOK, Pc
      <3> QED
        BY <3>1, <3>2
    <2>3. Holder' = Holder /\ \A v \in Holder : want'[v] = want[v] /\ prem'[v] = prem[v]
      BY <1>1 DEF TypeOK, Holder
    <2>4. {want[v] : v \in Holder}' = {want[v] : v \in Holder}
      BY <2>3
    <2>5. Leaked' = Leaked \cup {want[w]} /\ leaked'[want[w]] = prem[w]
      BY <1>1, <2>1, PremiumPositive DEF Leaked, TypeOK
    <2>6. \A v \in Holder : want[v] \in openSymbols /\ want[v] \in Index
      BY <1>1 DEF IInv, LedgerMatchesHolders, TypeOK, Holder
    <2>7. LedgerMatchesHolders'
      BY <2>1, <2>3, <2>4, <2>5, <2>6 DEF IInv, LedgerMatchesHolders
    <2>8. DeployedMatchesHolders'
      BY <1>1, <2>1, <2>3, <2>4, <2>5, <2>6 DEF IInv, DeployedMatchesHolders, TypeOK
    <2>9. WatchedReadsFresh'
      BY DEF WatchedReadsFresh
    <2>10. \A u, v \in Holder' : want'[u] = want'[v] => u = v
      BY <2>3 DEF IInv
    <2> QED
      BY <2>1, <2>2, <2>7, <2>8, <2>9, <2>10 DEF IInv
  <1>12. ASSUME NEW w \in Worker, Release(w) PROVE IInv'
    <2> USE <1>12 DEF Release, BecomeIdle, GoTo, ForgetReads, SpoilWatches
    <2>1. /\ w \in Holder /\ want[w] \in Index /\ want[w] \in openSymbols
          /\ want[w] \notin Leaked /\ prem[w] \in Premium /\ prem[w] \in Nat
      BY <1>1 DEF IInv, LedgerMatchesHolders, TypeOK, Holder
    <2>2. TypeOK'
      BY <1>1, <2>1 DEF TypeOK, Pc
    <2>3. /\ Holder' = Holder \ {w}
          /\ \A v \in Holder' : want'[v] = want[v] /\ prem'[v] = prem[v]
      BY <1>1 DEF TypeOK, Holder
    <2>4. \A v \in Holder' : want[v] # want[w] /\ want[v] \in Index
      BY <1>1, <2>1, <2>3 DEF IInv, TypeOK, Holder
    <2>5. {want[v] : v \in Holder}' = {want[v] : v \in Holder} \ {want[w]}
      BY <2>1, <2>3, <2>4
    <2>6. /\ openSymbols' = {want[v] : v \in Holder}' \cup Leaked'
          /\ \A v \in Holder' : want'[v] \notin Leaked'
      BY <2>1, <2>3, <2>5 DEF IInv, LedgerMatchesHolders, Leaked
    <2>7. IsFiniteSet(openSymbols)
      BY <1>1, FS_Subset DEF TypeOK
    <2>8. Cardinality(openSymbols') = Cardinality(openSymbols) - 1
      BY <2>1, <2>7, FS_RemoveElement
    <2>9. openTotal' = Cardinality(openSymbols')
      BY <2>8 DEF IInv, LedgerMatchesHolders
    <2>10. \A i \in Index : openCount'[i] = IF i \in openSymbols' THEN 1 ELSE 0
      BY <1>1, <2>1 DEF IInv, LedgerMatchesHolders, TypeOK
    <2>11. LedgerMatchesHolders'
      BY <2>6, <2>9, <2>10 DEF LedgerMatchesHolders
    <2>12. deployed'[want[w]] = 0 /\ \A i \in Index \ {want[w]} : deployed'[i] = deployed[i]
      BY <1>1, <2>1 DEF IInv, DeployedMatchesHolders, TypeOK
    <2>13. DeployedMatchesHolders'
      BY <1>1, <2>1, <2>3, <2>4, <2>5, <2>12
         DEF IInv, DeployedMatchesHolders, TypeOK, Holder, Leaked
    <2>14. WatchedReadsFresh'
      BY DEF WatchedReadsFresh
    <2>15. openTotal' <= MaxConcurrent /\ deployedTotal' <= Capital
      BY <1>1, <2>1 DEF IInv, TypeOK
    <2>16. \A u, v \in Holder' : want'[u] = want'[v] => u = v
      BY <2>3 DEF IInv
    <2>17. TotalAddsUp'
      <3>1. /\ deployedTotal \in Int /\ \A y \in openSymbols : deployed[y] \in Int
            /\ AddsUp(openSymbols, deployed, deployedTotal)
        BY <1>1 DEF IInv, TotalAddsUp, TypeOK
      <3>2. AddsUp(openSymbols \ {want[w]}, deployed, deployedTotal - deployed[want[w]])
        BY <2>1, <3>1, RemoveOne
      <3>3. deployed[want[w]] = prem[w]
        BY <2>1 DEF IInv, DeployedMatchesHolders
      <3>4. \A y \in openSymbols \ {want[w]} : deployed'[y] = deployed[y]
        BY <1>1, <2>12 DEF TypeOK
      <3>5. AddsUp(openSymbols \ {want[w]}, deployed', deployedTotal - prem[w])
        BY <3>2, <3>3, <3>4, SameAmounts
      <3> QED
        BY <3>5 DEF TotalAddsUp
    <2> QED
      BY <2>2, <2>11, <2>13, <2>14, <2>15, <2>16, <2>17 DEF IInv
  <1>13. ASSUME NEW w \in Worker, AlreadyOpenOnIndex(w) \/ RefuseByCaps(w) \/ Fail(w)
         PROVE  IInv'
    BY <1>8, <1>13 DEF AlreadyOpenOnIndex, RefuseByCaps, Fail
  <1>14. ASSUME NEW w \in Worker, ReleaseFails(w) PROVE IInv'
    <2> USE <1>14 DEF ReleaseFails, BecomeIdle, GoTo, ForgetReads, Leak, store
    <2>1. /\ w \in Holder /\ want[w] \in Index /\ prem[w] \in Premium
          /\ deployed[want[w]] = prem[w]
      BY <1>1 DEF IInv, DeployedMatchesHolders, TypeOK, Holder
    <2>2. TypeOK'
      BY <1>1, <2>1 DEF TypeOK, Pc
    <2>3. /\ Holder' = Holder \ {w}
          /\ \A v \in Holder' : want'[v] = want[v] /\ prem'[v] = prem[v]
      BY <1>1 DEF TypeOK, Holder
    <2>4. \A v \in Holder' : want[v] # want[w] /\ want[v] \in Index
      BY <1>1, <2>1, <2>3 DEF IInv, TypeOK, Holder
    <2>5. {want[v] : v \in Holder}' = {want[v] : v \in Holder} \ {want[w]}
      BY <2>1, <2>3, <2>4
    <2>6. Leaked' = Leaked \cup {want[w]} /\ leaked'[want[w]] = prem[w]
      BY <1>1, <2>1, PremiumPositive DEF Leaked, TypeOK
    <2>7. LedgerMatchesHolders'
      BY <2>1, <2>3, <2>4, <2>5, <2>6 DEF IInv, LedgerMatchesHolders
    <2>8. DeployedMatchesHolders'
      BY <1>1, <2>1, <2>3, <2>4, <2>5, <2>6 DEF IInv, DeployedMatchesHolders, TypeOK
    <2>9. WatchedReadsFresh'
      BY <1>1 DEF WatchedReadsFresh, TypeOK
    <2>10. \A u, v \in Holder' : want'[u] = want'[v] => u = v
      BY <2>3 DEF IInv
    <2>11. TotalAddsUp'
      BY DEF IInv, TotalAddsUp
    <2> QED
      BY <2>2, <2>7, <2>8, <2>9, <2>10, <2>11 DEF IInv
  <1> QED
    BY <1>2, <1>3, <1>4, <1>5, <1>6, <1>7, <1>9, <1>10, <1>11, <1>12, <1>13, <1>14
       DEF Next, Step

\* The invariant implies the caps as the callers see them.
LEMMA IInvCaps == IInv => CapsRespected
  BY DEF IInv, CapsRespected, LedgerMatchesHolders

\* The inductive invariant holds throughout every behaviour.
THEOREM AlwaysIInv == Spec => []IInv
  BY InitIInv, NextIInv, PTL DEF Spec

\* Type correctness of the allocator model.
THEOREM TypeCorrect == Spec => []TypeOK
  <1>1. IInv => TypeOK
    BY DEF IInv
  <1> QED
    BY <1>1, AlwaysIInv, PTL

\* No interleaving of check_and_reserve and release, on connections that may
\* fail and lose replies, exceeds the per-index, the concurrency or the capital cap.
THEOREM CapsAlwaysRespected == Spec => []CapsRespected
  BY IInvCaps, AlwaysIInv, PTL

\* open_symbols and the open counters always tell the same story, and it is the
\* holders' (and the leaked reservations').
THEOREM LedgerAlwaysMatches == Spec => []LedgerMatchesHolders
  <1>1. IInv => LedgerMatchesHolders
    BY DEF IInv
  <1> QED
    BY <1>1, AlwaysIInv, PTL

\* What is deployed on each index is always exactly what its holder reserved or
\* what a lost reply or a failed release leaked there: no interleaved release
\* gives back another's premium.
THEOREM DeployedAlwaysMatches == Spec => []DeployedMatchesHolders
  <1>1. IInv => DeployedMatchesHolders
    BY DEF IInv
  <1> QED
    BY <1>1, AlwaysIInv, PTL

\* deployed["total"], which the capital cap is decided on, is always the sum of
\* the amounts deployed on the indexes in open_symbols.
THEOREM DeployedAlwaysAddsUp == Spec => []TotalAddsUp
  <1>1. IInv => TotalAddsUp
    BY DEF IInv
  <1> QED
    BY <1>1, AlwaysIInv, PTL

\* WATCH: what a transaction has read and will decide on is what Redis still
\* holds, as long as its EXEC would succeed.
THEOREM ReadsAlwaysFresh == Spec => []WatchedReadsFresh
  <1>1. IInv => WatchedReadsFresh
    BY DEF IInv
  <1> QED
    BY <1>1, AlwaysIInv, PTL

\* Seen through deployed and deployedTotal, every step of the transaction is a
\* step of the abstract allocator or leaves its ledger alone.
LEMMA StepRefines == IInv /\ [Next]_vars => [Abstract!Next]_(Abstract!ledger)
  <1> SUFFICES ASSUME IInv, [Next]_vars
               PROVE  Abstract!Next \/ UNCHANGED <<deployed, deployedTotal>>
    BY DEF Abstract!ledger
  <1> USE AllocatorAssumption
  <1>1. openSymbols = {j \in Index : deployed[j] > 0}
    <2>1. \A j \in Index : leaked[j] > 0 <=> leaked[j] # 0
      <3> SUFFICES ASSUME NEW j \in Index PROVE leaked[j] > 0 <=> leaked[j] # 0
        OBVIOUS
      <3>1. leaked[j] \in Premium \/ leaked[j] = 0
        BY DEF IInv, TypeOK
      <3>2. CASE leaked[j] \in Premium
        BY <3>2, PremiumPositive
      <3>3. CASE leaked[j] = 0
        BY <3>3
      <3> QED
        BY <3>1, <3>2, <3>3
    <2>2. \A w \in Holder : deployed[want[w]] > 0
      BY DEF IInv, DeployedMatchesHolders, TypeOK, Holder
    <2> QED
      BY <2>1, <2>2 DEF IInv, DeployedMatchesHolders, LedgerMatchesHolders, TypeOK, Leaked
  <1>2. ASSUME NEW w \in Worker, pc[w] = "exec", clean[w],
               AddReservation(want[w], prem[w])
        PROVE  Abstract!Next
    <2>1. /\ want[w] \in Index /\ prem[w] \in Premium
          /\ want[w] \notin openSymbols /\ deployed[want[w]] = 0
      BY <1>1, <1>2, AddStep DEF IInv, DeployedMatchesHolders, LedgerMatchesHolders, Leaked, Added
    <2>2. Cardinality({j \in Index : deployed[j] > 0}) = openTotal
      BY <1>1 DEF IInv, LedgerMatchesHolders
    <2>3. openTotal \in Int /\ openTotal + 1 <= MaxConcurrent
      BY <1>2 DEF IInv, TypeOK, WatchedReadsFresh
    <2>4. deployedTotal + prem[w] <= Capital
      BY <1>2 DEF IInv, WatchedReadsFresh
    <2>5. deployed[want[w]] + prem[w] = prem[w]
      <3>1. prem[w] \in Int
        BY <2>1, PremiumPositive
      <3> QED
        BY <2>1, <3>1
    <2>6. /\ deployed' = [deployed EXCEPT ![want[w]] = prem[w]]
          /\ deployedTotal' = deployedTotal + prem[w]
      BY <1>2, <2>5 DEF AddReservation
    <2>7. Cardinality({j \in Index : deployed[j] > 0}) < MaxConcurrent
      BY <2>2, <2>3
    <2>8. Abstract!Reserve(want[w], prem[w])
      <3>1. \A S : Abstract!Cardinality(S) = Cardinality(S)
        BY DEF Abstract!Cardinality, Cardinality
      <3> QED
        BY <2>1, <2>4, <2>6, <2>7, <3>1 DEF Abstract!Reserve
    <2> QED
      BY <2>1, <2>8 DEF Abstract!Next
  <1>3. ASSUME NEW w \in Worker, Release(w)
        PROVE  Abstract!Next
    <2>1. w \in Holder /\ want[w] \in Index /\ prem[w] \in Premium
      BY <1>3 DEF IInv, TypeOK, Release, Holder
    <2>2. deployed[want[w]] = prem[w] /\ prem[w] > 0 /\ prem[w] \in Int
      BY <2>1, PremiumPositive DEF IInv, DeployedMatchesHolders
    <2>3. deployed' = [deployed EXCEPT ![want[w]] = 0]
      <3>1. deployed[want[w]] - prem[w] = 0
        BY <2>2
      <3> QED
        BY <1>3, <3>1 DEF Release
    <2>4. deployedTotal' = deployedTotal - deployed[want[w]]
      BY <1>3, <2>2 DEF Release
    <2>5. Abstract!Release(want[w])
      BY <2>2, <2>3, <2>4 DEF Abstract!Release
    <2> QED
      BY <2>1, <2>5 DEF Abstract!Next
  <1>4. CASE UNCHANGED vars
    BY <1>4 DEF vars, store
  <1>5. ASSUME NEW w \in Worker, Commit(w) \/ LoseReply(w)
        PROVE  Abstract!Next
    BY <1>2, <1>5 DEF Commit, LoseReply
  <1>6. ASSUME NEW w \in Worker,
               \/ \E i \in Index, m \in Premium : Call(w, i, m)
               \/ Watch(w) \/ CheckIndex(w) \/ AlreadyOpenOnIndex(w)
               \/ ReadOpenTotal(w) \/ ReadDeployedTotal(w)
               \/ RefuseByCaps(w) \/ Retry(w) \/ Fail(w) \/ ReleaseFails(w)
        PROVE  UNCHANGED <<deployed, deployedTotal>>
    BY <1>6 DEF Call, Watch, CheckIndex, AlreadyOpenOnIndex, ReadOpenTotal,
                ReadDeployedTotal, RefuseByCaps, Retry, Fail, ReleaseFails, Refuse, store
  <1> QED
    BY <1>3, <1>4, <1>5, <1>6 DEF Next, Step

\* check_and_reserve and release, interleaved command by command, implement
\* the allocator in which reserving and releasing are indivisible.
THEOREM Refinement == Spec => ImplementsAllocatorSpec
  <1>1. Init => Abstract!Init
    BY DEF Init, Abstract!Init
  <1> QED
    BY <1>1, AlwaysIInv, StepRefines, PTL
       DEF Spec, ImplementsAllocatorSpec, Abstract!Spec
=============================================================================
