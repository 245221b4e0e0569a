---------------------------- MODULE VesselProofs ----------------------------
(***************************************************************************)
(* Proofs about one vessel for any strikes, books, prices, thresholds and  *)
(* bounds: types, that a signal's id enters the stream once although       *)
(* order_exec deletes the key that guards it, and how many signals a crash *)
(* can lose.                                                               *)
(***************************************************************************)
EXTENDS Vessel, TLAPS, SequenceTheorems, FiniteSetTheorems

\* s is a sequence, of whatever it holds.
IsSeq(s) == s \in Seq({s[k] : k \in 1..Len(s)})

\* The leg that a signal asks to buy.
Leg(s) == <<s[3], s[2]>>
Buys(s) == s[1] \in {"ENTER", "FLIP"}

\* What TypeOK leaves open: the shapes behind its fields, and that what is
\* bought, recorded or held is a leg the chain lists.
ShapeInv ==
  /\ stream \in Seq(Sigs) /\ now \in 1..MaxNow /\ kills \in Nat
  /\ mem \in [side : Side \cup {"none"}, tok : Listed \cup {NoTok}]
  /\ basket \in [atm : {basket.atm}, toks : SUBSET Listed, shift : 0..MaxNow]
  /\ buffers = [t \in Listed |-> buffers[t]] /\ \A t \in Listed : IsSeq(buffers[t])
  /\ rec \in [1..MaxPos -> [tok : Listed \cup {NoTok}, sig : Sigs \cup {NoSig}]]
  /\ \A i \in 1..Len(stream) : Buys(stream[i]) => Leg(stream[i]) \in Listed
  /\ Buys(sig) => Leg(sig) \in Listed
  /\ pc = "sync" => pid \in 1..MaxPos
  /\ pc = "emit" => /\ act.kind \in KIND_TO_INTENT /\ act.side \in Side /\ act.tok \in Token
                    /\ act.kind \in {"ENTER", "FLIP"} => <<act.tok[1], act.side>> \in Listed

\* A signal id in the stream keeps its key until the millisecond it was minted
\* in is over; the signal being published has its key and is not in the stream.
OnceInv ==
  /\ SignalsOnce
  /\ \A s \in sigKeys : s[4] <= now
  /\ \A i \in 1..Len(stream) : stream[i] \in sigKeys \/ stream[i][4] < now
  /\ pc = "pipe" => sig \in sigKeys /\ sig \notin Published
  /\ \A p \in 1..MaxPos : rec[p] # NoRec => rec[p].sig \in Published

LostInv == IsFiniteSet(sigKeys) /\ LostSignalsBounded

VInv == TypeOK /\ ShapeInv /\ OnceInv /\ LostInv
-----------------------------------------------------------------------------
(* What on_tick returns.                                                   *)

\* The strike with the best imbalance is one of the legs.
LEMMA DominantIsLeg ==
  ASSUME NEW legs PROVE pick_dominant_strike(legs) \subseteq DOMAIN legs
  BY DEF pick_dominant_strike

\* The legs of a side are legs, and of that side.
LEMMA OfSideFacts ==
  ASSUME NEW legs, NEW s, NEW t \in DOMAIN OfSide(legs, s)
  PROVE  t \in DOMAIN legs /\ t[2] = s
  BY DEF OfSide

\* The first gate names a side or none.
LEMMA DirectionFacts ==
  ASSUME NEW p PROVE gate1_direction(p) \in {"CE", "PE", "none"}
  BY DEF gate1_direction

\* Without a held leg on_tick does nothing or enters a leg of the snapshot.
LEMMA EntryFacts ==
  ASSUME NEW legs, NEW bufs, NEW w
  PROVE  \/ EntryDecision(legs, bufs, w) = NoOp
         \/ \E s \in {"CE", "PE"}, t \in DOMAIN legs : \E n :
              t[2] = s /\ EntryDecision(legs, bufs, w) = Act("ENTER", s, t, n)
  <1> DEFINE pressure == net_pressure(cumulative_imbalance(OfSide(legs, "CE")),
                                      cumulative_imbalance(OfSide(legs, "PE")))
             side == gate1_direction(pressure)
             dominant == pick_dominant_strike(OfSide(legs, side))
             tok == CHOOSE t \in dominant : TRUE
             score == compute_quality_score(side, legs[tok], bufs[tok])
             spread == gate3_spread(classify_spread(compute_spread(legs[tok])))
             factor == IF entry_size_factor(score) < spread
                         THEN entry_size_factor(score) ELSE spread
  <1>1. \/ EntryDecision(legs, bufs, w) = NoOp
        \/ /\ side # "none" /\ dominant # {}
           /\ EntryDecision(legs, bufs, w) = Act("ENTER", side, tok, lots(factor))
    BY Zenon DEF EntryDecision
  <1>2. side \in {"CE", "PE", "none"}
    BY DirectionFacts
  <1>3. ASSUME dominant # {} PROVE tok \in DOMAIN legs /\ tok[2] = side
    <2>1. tok \in dominant
      BY <1>3, Zenon
    <2>2. tok \in DOMAIN OfSide(legs, side)
      BY <2>1, DominantIsLeg
    <2> QED
      BY <2>2, OfSideFacts
  <1> HIDE DEF tok, side, dominant, factor
  <1> QED
    BY <1>1, <1>2, <1>3

\* With a held token on_tick misses it in the snapshot, holds it, leaves it, or
\* flips to a leg of the other side.
LEMMA HeldFacts ==
  ASSUME NEW legs, NEW s, NEW tok, NEW buf
  PROVE  \/ HeldDecision(legs, s, tok, buf) = Act("NO_OP", "held_not_in_basket", NoTok, 0)
         \/ HeldDecision(legs, s, tok, buf) = Act("HOLD", s, NoTok, 0)
         \/ HeldDecision(legs, s, tok, buf) = Act("EXIT", s, tok, Cfg.qty_lots)
         \/ \E t \in DOMAIN legs :
              /\ t[2] = Opposite(s)
              /\ HeldDecision(legs, s, tok, buf) = Act("FLIP", Opposite(s), t, Cfg.qty_lots)
  <1> DEFINE targets == pick_dominant_strike(OfSide(legs, Opposite(s)))
             aim == CHOOSE t \in targets : TRUE
  <1>1. \/ HeldDecision(legs, s, tok, buf) = Act("NO_OP", "held_not_in_basket", NoTok, 0)
        \/ HeldDecision(legs, s, tok, buf) = Act("HOLD", s, NoTok, 0)
        \/ HeldDecision(legs, s, tok, buf) = Act("EXIT", s, tok, Cfg.qty_lots)
        \/ /\ targets # {}
           /\ HeldDecision(legs, s, tok, buf) = Act("FLIP", Opposite(s), aim, Cfg.qty_lots)
    BY Zenon DEF HeldDecision
  <1>2. ASSUME targets # {} PROVE aim \in DOMAIN legs /\ aim[2] = Opposite(s)
    <2>1. aim \in targets
      BY <1>2, Zenon
    <2>2. aim \in DOMAIN OfSide(legs, Opposite(s))
      BY <2>1, DominantIsLeg
    <2> QED
      BY <2>2, OfSideFacts
  <1> HIDE DEF targets, aim
  <1> QED
    BY <1>1, <1>2

\* The action that the vessel takes: an action that becomes a signal names a
\* side and a leg, the leg of that side when it is to be bought.
LEMMA DecisionFacts ==
  ASSUME NEW b, b.toks \subseteq Listed,
         mem \in [side : Side \cup {"none"}, tok : Listed \cup {NoTok}]
  PROVE  Decision(b).action.kind \in KIND_TO_INTENT =>
           /\ Decision(b).action.side \in Side /\ Decision(b).action.tok \in Listed
           /\ Decision(b).action.kind \in {"ENTER", "FLIP"} =>
                <<Decision(b).action.tok[1], Decision(b).action.side>> \in Listed
  <1> DEFINE legs == build_snapshot(b)
             seen == Observe(legs, Kept(b), now)
             a == Decision(b).action
             Goal == a.kind \in KIND_TO_INTENT =>
                       /\ a.side \in Side /\ a.tok \in Listed
                       /\ a.kind \in {"ENTER", "FLIP"} => <<a.tok[1], a.side>> \in Listed
  <1> SUFFICES Goal
    OBVIOUS
  <1>1. a = on_tick(legs, seen, mem, Window)
    BY DEF Decision
  <1>3. \A t \in Listed : t = <<t[1], t[2]>> /\ t[1] \in Strike /\ t[2] \in Side
    BY VesselAssumption DEF Token
  <1>2. DOMAIN legs \subseteq Listed
    <2>1. ASSUME mem.side # "none", mem.tok # NoTok PROVE <<mem.tok[1], mem.side>> \in Listed
      BY <2>1, <1>3, VesselAssumption DEF Side
    <2>2. Pinned \subseteq Listed
      BY <2>1 DEF Pinned
    <2> QED
      BY <2>2 DEF build_snapshot
  <1>4. mem.side \in {"CE", "PE", "none"} /\ mem.tok \in Listed \cup {NoTok}
    BY DEF Side
  <1> HIDE DEF legs, seen, a
  <1>5. CASE mem.side # "none" /\ mem.tok # NoTok
    <2>1. a = HeldDecision(legs, mem.side, mem.tok, seen[mem.tok])
      BY <1>1, <1>5 DEF on_tick
    <2>3. Opposite(mem.side) \in {"CE", "PE"}
      BY DEF Opposite
    <2>4. \/ a = Act("NO_OP", "held_not_in_basket", NoTok, 0)
          \/ a = Act("HOLD", mem.side, NoTok, 0)
          \/ a = Act("EXIT", mem.side, mem.tok, Cfg.qty_lots)
          \/ \E t \in DOMAIN legs : /\ t[2] = Opposite(mem.side)
                                    /\ a = Act("FLIP", Opposite(mem.side), t, Cfg.qty_lots)
      BY <2>1, HeldFacts
    <2>5. CASE \/ a = Act("NO_OP", "held_not_in_basket", NoTok, 0)
               \/ a = Act("HOLD", mem.side, NoTok, 0)
      BY <2>5 DEF Act, KIND_TO_INTENT, a
    <2>6. CASE a = Act("EXIT", mem.side, mem.tok, Cfg.qty_lots)
      BY <2>6, <1>2, <1>4, <1>5 DEF Act, Side, a
    <2>7. ASSUME NEW t \in DOMAIN legs, t[2] = Opposite(mem.side),
                 a = Act("FLIP", Opposite(mem.side), t, Cfg.qty_lots)
          PROVE  Goal
      BY <2>7, <2>3, <1>2, <1>3 DEF Act, Side, a
    <2> QED
      BY <2>4, <2>5, <2>6, <2>7
  <1>6. CASE ~(mem.side # "none" /\ mem.tok # NoTok)
    <2>1. a = EntryDecision(legs, seen, Window)
      BY <1>1, <1>6, Zenon DEF on_tick
    <2>2. \/ a = NoOp
          \/ \E s \in {"CE", "PE"}, t \in DOMAIN legs : \E n :
               t[2] = s /\ a = Act("ENTER", s, t, n)
      BY <2>1, EntryFacts
    <2>3. CASE a = NoOp
      BY <2>3 DEF NoOp, Act, KIND_TO_INTENT, a
    <2>4. ASSUME NEW s \in {"CE", "PE"}, NEW t \in DOMAIN legs, NEW n,
                 t[2] = s, a = Act("ENTER", s, t, n)
          PROVE  Goal
      BY <2>4, <1>2, <1>3 DEF Act, Side, a
    <2> QED
      BY <2>2, <2>3, <2>4
  <1> QED
    BY <1>5, <1>6
-----------------------------------------------------------------------------
(* Types and shapes.                                                       *)

\* A sequence over some set is a sequence over its own elements.
LEMMA SeqIsSeq ==
  ASSUME NEW S, NEW s \in Seq(S) PROVE IsSeq(s) /\ Len(s) \in Nat
  <1>1. Len(s) \in Nat /\ s \in [1..Len(s) -> S]
    BY LenProperties
  <1>2. s \in [1..Len(s) -> {s[k] : k \in 1..Len(s)}]
    BY <1>1
  <1> QED
    BY <1>1, <1>2, SeqDef DEF IsSeq

\* The ring of a strike keeps its capacity.
LEMMA RingFacts ==
  ASSUME NEW buf, NEW obs, IsSeq(buf), Len(buf) <= Cfg.ring_size
  PROVE  IsSeq(push(buf, obs)) /\ Len(push(buf, obs)) <= Cfg.ring_size
  <1>1. CASE push(buf, obs) = buf
    BY <1>1
  <1>2. CASE push(buf, obs) = last_n(Append(buf, obs), Cfg.ring_size)
    <2> DEFINE S == {buf[k] : k \in 1..Len(buf)} \cup {obs}
               more == Append(buf, obs)
               n == Cfg.ring_size
               from == IF Len(more) > n THEN Len(more) - n + 1 ELSE 1
    <2>1. n \in Nat \ {0}
      BY CfgAssumption
    <2>2. buf \in Seq(S)
      BY SeqMonotonic DEF IsSeq
    <2>3. more \in Seq(S)
      BY <2>2, AppendProperties
    <2>4. Len(more) \in Nat /\ \A i \in 1..Len(more) : more[i] \in S
      BY <2>3, LenProperties, ElementOfSeq
    <2>5. push(buf, obs) = SubSeq(more, from, Len(more))
      BY <1>2 DEF last_n
    <2> HIDE DEF S, more, n
    <2>6. from \in Int /\ Len(more) \in Int /\ \A i \in from..Len(more) : more[i] \in S
      BY <2>1, <2>4
    <2> HIDE DEF from
    <2>7. /\ SubSeq(more, from, Len(more)) \in Seq(S)
          /\ Len(SubSeq(more, from, Len(more))) =
               IF from <= Len(more) THEN Len(more) - from + 1 ELSE 0
      BY <2>6, SubSeqProperties
    <2>8. Len(SubSeq(more, from, Len(more))) <= n
      BY <2>1, <2>4, <2>7 DEF from
    <2> QED
      BY <2>5, <2>7, <2>8, SeqIsSeq DEF n
  <1> QED
    BY <1>1, <1>2 DEF push

\* The basket stays within the listed tokens.
LEMMA BasketFacts ==
  ASSUME TypeOK, ShapeInv
  PROVE  LET b == maybe_shift_basket(basket)
         IN b \in [atm : {b.atm}, toks : SUBSET Listed, shift : 0..MaxNow]
  BY VesselAssumption DEF maybe_shift_basket, token_lookup, ShapeInv

\* Dropping a strike empties its buffer and leaves the others.
LEMMA KeptFacts ==
  ASSUME TypeOK, ShapeInv, NEW b
  PROVE  /\ Kept(b) = [t \in Listed |-> Kept(b)[t]]
         /\ \A t \in Listed : IsSeq(Kept(b)[t]) /\ Len(Kept(b)[t]) <= Cfg.ring_size
  <1>1. IsSeq(<<>>) /\ Len(<<>>) = 0
    BY EmptySeq, SeqIsSeq
  <1>2. Cfg.ring_size \in Nat
    BY CfgAssumption
  <1> QED
    BY <1>1, <1>2 DEF Kept, TypeOK, ShapeInv

\* So does observing a snapshot.
LEMMA ObserveFacts ==
  ASSUME TypeOK, ShapeInv, NEW b, NEW legs
  PROVE  LET s == Observe(legs, Kept(b), now)
         IN /\ s = [t \in Listed |-> s[t]]
            /\ \A t \in Listed : IsSeq(s[t]) /\ Len(s[t]) <= Cfg.ring_size
  <1> DEFINE K == Kept(b)
             s == Observe(legs, K, now)
  <1>1. K = [t \in Listed |-> K[t]]
    BY KeptFacts
  <1>2. \A t \in Listed : IsSeq(K[t]) /\ Len(K[t]) <= Cfg.ring_size
    BY KeptFacts
  <1> HIDE DEF K
  <1>3. DOMAIN K = Listed
    BY <1>1
  <1>4. \A t \in Listed : s[t] = K[t] \/ \E obs : s[t] = push(K[t], obs)
    BY <1>3 DEF Observe
  <1>5. s = [t \in Listed |-> s[t]]
    BY <1>3 DEF Observe
  <1> HIDE DEF s
  <1>6. ASSUME NEW t \in Listed PROVE IsSeq(s[t]) /\ Len(s[t]) <= Cfg.ring_size
    <2>1. CASE s[t] = K[t]
      BY <1>2, <2>1
    <2>2. ASSUME NEW obs, s[t] = push(K[t], obs)
          PROVE  IsSeq(s[t]) /\ Len(s[t]) <= Cfg.ring_size
      BY <1>2, <2>2, RingFacts
    <2> QED
      BY <1>4, <2>1, <2>2
  <1> QED
    BY <1>5, <1>6 DEF s, K

\* The signal ids that can be minted.
LEMMA MintFacts ==
  ASSUME TypeOK, ShapeInv, pc = "emit"
  PROVE  /\ mint_sig_id \in Sigs /\ mint_sig_id[4] = now
         /\ Buys(mint_sig_id) => Leg(mint_sig_id) \in Listed
  <1>1. act.tok[1] \in Strike
    BY DEF ShapeInv, Token
  <1> QED
    BY <1>1 DEF ShapeInv, Sigs, mint_sig_id, Buys, Leg

\* Appending to the stream.
LEMMA StreamFacts ==
  ASSUME stream \in Seq(Sigs), NEW s \in Sigs
  PROVE  /\ Append(stream, s) \in Seq(Sigs) /\ Len(Append(stream, s)) = Len(stream) + 1
         /\ Len(stream) \in Nat
         /\ \A i \in 1..Len(stream) : Append(stream, s)[i] = stream[i]
         /\ Append(stream, s)[Len(stream) + 1] = s
  BY AppendProperties

\* When the task is over its memory has the types of an empty one.
LEMMA GoneFacts ==
  ASSUME MemoryGone
  PROVE  /\ sig' = NoSig /\ ~Buys(sig') /\ rd' \in States
         /\ mem' \in [side : Side \cup {"none"}, tok : Listed \cup {NoTok}]
         /\ basket' \in [atm : {basket'.atm}, toks : SUBSET Listed, shift : 0..MaxNow]
         /\ buffers' = [t \in Listed |-> buffers'[t]]
         /\ \A t \in Listed : IsSeq(buffers'[t]) /\ Len(buffers'[t]) <= Cfg.ring_size
  <1>1. IsSeq(<<>>) /\ Len(<<>>) = 0
    BY EmptySeq, SeqIsSeq
  <1>2. buffers' = [t \in Listed |-> <<>>] /\ Cfg.ring_size \in Nat
    BY CfgAssumption DEF MemoryGone, NoBuffers
  <1>3. /\ buffers' = [t \in Listed |-> buffers'[t]]
        /\ \A t \in Listed : IsSeq(buffers'[t]) /\ Len(buffers'[t]) <= Cfg.ring_size
    BY <1>1, <1>2
  <1>4. /\ sig' = NoSig /\ ~Buys(sig') /\ rd' \in States
        /\ mem' \in [side : Side \cup {"none"}, tok : Listed \cup {NoTok}]
        /\ basket' \in [atm : {basket'.atm}, toks : SUBSET Listed, shift : 0..MaxNow]
    BY VesselAssumption DEF MemoryGone, NoSig, Buys, States, NotHeld, NoBasket
  <1> QED
    BY <1>3, <1>4

\* What TypeOK says beyond ShapeInv.
RestOK ==
  /\ pc \in {"boot_read", "boot_write", "wait", "build", "idle", "cool", "read", "current", "sync",
             "eval", "emit", "pipe"} \cup Down
  /\ rd \in States /\ state \in States
  /\ \A t \in Listed : Len(buffers[t]) <= Cfg.ring_size
  /\ sig \in Sigs \cup {NoSig} /\ sigKeys \subseteq Sigs
  /\ cur \in 0..npos /\ npos \in 0..MaxPos /\ taken \in 0..Len(stream)

\* TypeOK follows from the shapes and the rest.
LEMMA TypeFromShape == ShapeInv /\ RestOK => TypeOK
  <1> SUFFICES ASSUME ShapeInv, RestOK PROVE TypeOK
    OBVIOUS
  <1>1. \A i \in 1..Len(stream) : stream[i] \in Sigs
    BY ElementOfSeq DEF ShapeInv
  <1>2. Listed \subseteq Token
    BY VesselAssumption
  <1> QED
    BY <1>1, <1>2 DEF ShapeInv, RestOK, TypeOK

\* A step that leaves what ShapeInv speaks of, the clock aside, keeps it.
LEMMA ShapeFrame ==
  ASSUME ShapeInv, now' \in 1..MaxNow,
         UNCHANGED <<pc, pid, act, sig, mem, basket, buffers, rec, stream, kills>>
  PROVE  ShapeInv'
  <1>1. /\ stream' \in Seq(Sigs) /\ now' \in 1..MaxNow /\ kills' \in Nat
        /\ mem' \in [side : Side \cup {"none"}, tok : Listed \cup {NoTok}]
        /\ basket' \in [atm : {basket'.atm}, toks : SUBSET Listed, shift : 0..MaxNow]
        /\ rec' \in [1..MaxPos -> [tok : Listed \cup {NoTok}, sig : Sigs \cup {NoSig}]]
    BY DEF ShapeInv
  <1>2. buffers' = [t \in Listed |-> buffers'[t]] /\ \A t \in Listed : IsSeq(buffers'[t])
    BY DEF ShapeInv
  <1>3. /\ \A i \in 1..Len(stream') : Buys(stream'[i]) => Leg(stream'[i]) \in Listed
        /\ Buys(sig') => Leg(sig') \in Listed
    BY DEF ShapeInv
  <1>4. /\ pc' = "sync" => pid' \in 1..MaxPos
        /\ pc' = "emit" =>
             /\ act'.kind \in KIND_TO_INTENT /\ act'.side \in Side /\ act'.tok \in Token
             /\ act'.kind \in {"ENTER", "FLIP"} => <<act'.tok[1], act'.side>> \in Listed
    BY DEF ShapeInv
  <1> QED
    BY <1>1, <1>2, <1>3, <1>4 DEF ShapeInv

\* The live loop keeps types and shapes.
LEMMA LoopTypes == VInv /\ Loop => ShapeInv' /\ RestOK'
  <1> SUFFICES ASSUME VInv, Loop PROVE ShapeInv' /\ RestOK'
    OBVIOUS
  <1>a. TypeOK /\ ShapeInv /\ OnceInv
    BY DEF VInv
  <1> USE DEF memory, trade, market, oe, ops, clock
  <1>1. CASE BootRead \/ BootWrite \/ WaitEnabled \/ ExitCooldown
    BY <1>1, <1>a DEF BootRead, BootWrite, WaitEnabled, ExitCooldown, Goto, TypeOK, ShapeInv,
       RestOK, States
  <1>2. CASE InitialBasket
    <2> DEFINE b == maybe_shift_basket(basket)
    <2>1. b \in [atm : {b.atm}, toks : SUBSET Listed, shift : 0..MaxNow]
      BY <1>a, BasketFacts
    <2>2. basket' = b /\ buffers' = Kept(b)
      BY <1>2 DEF InitialBasket
    <2>3. /\ Kept(b) = [t \in Listed |-> Kept(b)[t]]
          /\ \A t \in Listed : IsSeq(Kept(b)[t]) /\ Len(Kept(b)[t]) <= Cfg.ring_size
      BY <1>a, KeptFacts
    <2> HIDE DEF b
    <2> QED
      BY <1>2, <1>a, <2>1, <2>2, <2>3 DEF InitialBasket, Goto, TypeOK, ShapeInv, RestOK
  <1>3. CASE SessionEnds
    BY <1>3, <1>a, GoneFacts DEF SessionEnds, Goto, TypeOK, ShapeInv, RestOK, Down
  <1>4. CASE Wake \/ ReadAfterCooldown
    <2>1. /\ UNCHANGED <<basket, buffers, act, sig, trade, sigKeys, stream, npos, taken, now, kills>>
          /\ pc' \in {"cool", "eval", "current"} /\ rd' \in States
          /\ mem' \in {mem, NotHeld}
      BY <1>4, <1>a DEF Wake, ReadAfterCooldown, ReadState, TypeOK
    <2>2. NotHeld \in [side : Side \cup {"none"}, tok : Listed \cup {NoTok}]
      BY DEF NotHeld
    <2> QED
      BY <1>a, <2>1, <2>2 DEF TypeOK, ShapeInv, RestOK
  <1>9. CASE ReadCurrent
    <2>1. /\ UNCHANGED <<rd, mem, basket, buffers, act, sig, trade, sigKeys, stream, npos,
                         taken, now, kills>>
          /\ pc' = IF cur = 0 THEN "eval" ELSE "sync"
          /\ pid' = cur
      BY <1>9 DEF ReadCurrent
    <2>2. pc' \in {"eval", "sync"} /\ (pc' = "sync" => cur # 0)
      BY <2>1
    <2>3. cur \in Nat /\ cur <= MaxPos /\ MaxPos \in Nat
      BY <1>a, VesselAssumption DEF TypeOK
    <2>4. pc' = "sync" => pid' \in 1..MaxPos
      BY <2>1, <2>2, <2>3
    <2> QED
      BY <1>a, <2>1, <2>2, <2>4 DEF TypeOK, ShapeInv, RestOK
  <1>5. CASE SyncMemory
    <2>1. rec[pid].tok \in Listed \cup {NoTok}
      BY <1>5, <1>a DEF SyncMemory, Goto, ShapeInv
    <2> QED
      BY <1>5, <1>a, <2>1 DEF SyncMemory, Goto, TypeOK, ShapeInv, RestOK, SideOf, Side
  <1>6. CASE Evaluate
    <2> DEFINE b == maybe_shift_basket(basket)
               d == Decision(b)
               emits == rd # "COOLDOWN" /\ d.action.kind \in KIND_TO_INTENT
    <2>1. b \in [atm : {b.atm}, toks : SUBSET Listed, shift : 0..MaxNow]
      BY <1>a, BasketFacts
    <2>2. d.seen = Observe(build_snapshot(b), Kept(b), now)
      BY DEF Decision
    <2>3. /\ d.seen = [t \in Listed |-> d.seen[t]]
          /\ \A t \in Listed : IsSeq(d.seen[t]) /\ Len(d.seen[t]) <= Cfg.ring_size
      BY <1>a, <2>2, ObserveFacts
    <2>4. mem \in [side : Side \cup {"none"}, tok : Listed \cup {NoTok}] /\ b.toks \subseteq Listed
      BY <1>a, <2>1 DEF ShapeInv
    <2>5. d.action.kind \in KIND_TO_INTENT =>
            /\ d.action.side \in Side /\ d.action.tok \in Listed
            /\ d.action.kind \in {"ENTER", "FLIP"} => <<d.action.tok[1], d.action.side>> \in Listed
      BY <2>4, DecisionFacts
    <2>6. /\ pc' = (IF emits THEN "emit" ELSE "idle") /\ basket' = b /\ buffers' = d.seen
          /\ act' = (IF emits THEN d.action ELSE NoOp) /\ rd' = "FLAT"
          /\ UNCHANGED <<pid, mem, sig, trade, sigKeys, stream, npos, taken, now, kills>>
      BY <1>6 DEF Evaluate
    <2> HIDE DEF b, d
    <2>7. Listed \subseteq Token
      BY VesselAssumption
    <2> QED
      BY <1>a, <2>1, <2>3, <2>5, <2>6, <2>7 DEF TypeOK, ShapeInv, RestOK, States
  <1>7. CASE EmitSignal
    <2>1. pc = "emit"
      BY <1>7 DEF EmitSignal
    <2>2. mint_sig_id \in Sigs /\ (Buys(mint_sig_id) => Leg(mint_sig_id) \in Listed)
      BY <1>a, <2>1, MintFacts
    <2>3. /\ UNCHANGED <<rd, pid, mem, basket, buffers, trade, stream, npos, taken, now, kills>>
          /\ \/ pc' = "idle" /\ UNCHANGED <<sigKeys, sig>>
             \/ pc' = "pipe" /\ sigKeys' = sigKeys \cup {mint_sig_id} /\ sig' = mint_sig_id
      BY <1>7 DEF EmitSignal
    <2> QED
      BY <1>a, <2>2, <2>3 DEF TypeOK, ShapeInv, RestOK
  <1>8. CASE Publish
    <2>1. pc = "pipe" /\ sig \in Sigs
      BY <1>8, <1>a DEF Publish, Goto, OnceInv, TypeOK
    <2>2. /\ stream' = Append(stream, sig) /\ sig' = NoSig /\ pc' = "idle"
          /\ UNCHANGED <<rd, memory, trade, sigKeys, npos, taken, now, kills>>
      BY <1>8 DEF Publish, Goto
    <2>3. /\ stream' \in Seq(Sigs) /\ Len(stream') = Len(stream) + 1 /\ Len(stream) \in Nat
          /\ \A i \in 1..Len(stream') : Buys(stream'[i]) => Leg(stream'[i]) \in Listed
      <3>1. stream \in Seq(Sigs)
        BY <1>a DEF ShapeInv
      <3> QED
        BY <1>a, <2>1, <2>2, <3>1, StreamFacts DEF ShapeInv
    <2>4. ~Buys(sig')
      BY <2>2 DEF Buys, NoSig
    <2> QED
      BY <1>a, <2>2, <2>3, <2>4 DEF TypeOK, ShapeInv, RestOK
  <1> QED
    BY <1>1, <1>2, <1>3, <1>4, <1>5, <1>6, <1>7, <1>8, <1>9 DEF Loop

\* Failures and kills keep types and shapes.
LEMMA FaultTypes == VInv /\ Faults => ShapeInv' /\ RestOK'
  <1> SUFFICES ASSUME VInv, Faults PROVE ShapeInv' /\ RestOK'
    OBVIOUS
  <1>a. TypeOK /\ ShapeInv /\ OnceInv
    BY DEF VInv
  <1> USE DEF memory, trade, market, oe, ops, clock
  <1>1. CASE PublishFails
    <2>1. pc = "pipe" /\ sig \in Sigs
      BY <1>1, <1>a DEF PublishFails, Goto, OnceInv, TypeOK
    <2>2. /\ stream' \in {stream, Append(stream, sig)} /\ pc' = "failed" /\ MemoryGone
          /\ UNCHANGED <<trade, sigKeys, npos, taken, now, kills>>
      BY <1>1 DEF PublishFails, Goto
    <2>3. /\ stream' \in Seq(Sigs) /\ Len(stream') >= Len(stream)
          /\ Len(stream) \in Nat /\ Len(stream') \in Nat
          /\ \A i \in 1..Len(stream') : Buys(stream'[i]) => Leg(stream'[i]) \in Listed
      <3>1. stream \in Seq(Sigs) /\ Len(stream) \in Nat
        BY <1>a, LenProperties DEF ShapeInv
      <3>2. CASE stream' = stream
        BY <1>a, <3>1, <3>2 DEF ShapeInv
      <3>3. CASE stream' = Append(stream, sig)
        BY <1>a, <2>1, <3>1, <3>3, StreamFacts DEF ShapeInv
      <3> QED
        BY <2>2, <3>2, <3>3
    <2> QED
      BY <1>a, <2>2, <2>3, GoneFacts DEF TypeOK, ShapeInv, RestOK, Down
  <1>2. CASE RedisFails
    BY <1>2, <1>a, GoneFacts DEF RedisFails, TypeOK, ShapeInv, RestOK, Down
  <1>3. CASE EngineKilled
    <2>1. /\ UNCHANGED <<trade, sigKeys, stream, npos, taken>> /\ pc' = "boot_read"
          /\ kills' = kills + 1 /\ now' = now + 1 /\ now < MaxNow /\ MemoryGone
      BY <1>3 DEF EngineKilled
    <2>a. now \in 1..MaxNow /\ kills \in Nat
      BY <1>a DEF ShapeInv
    <2>2. now' \in 1..MaxNow /\ kills' \in Nat
      BY <2>a, <2>1, VesselAssumption
    <2>3. ShapeInv'
      BY <1>a, <2>1, <2>2, GoneFacts DEF ShapeInv
    <2>4. RestOK'
      BY <1>a, <2>1, GoneFacts DEF TypeOK, RestOK
    <2> QED
      BY <2>3, <2>4
  <1> QED
    BY <1>1, <1>2, <1>3 DEF Faults

\* order_exec, the market, the clock and the operator keep types and shapes.
LEMMA OthersTypes == VInv /\ Others => ShapeInv' /\ RestOK'
  <1> SUFFICES ASSUME VInv, Others PROVE ShapeInv' /\ RestOK'
    OBVIOUS
  <1>a. TypeOK /\ ShapeInv /\ OnceInv
    BY DEF VInv
  <1>b. Len(stream) \in Nat /\ stream \in Seq(Sigs)
    BY <1>a, LenProperties DEF ShapeInv
  <1> USE DEF memory, trade, market, oe, ops, clock
  <1>1. CASE OEPass
    BY <1>1, <1>a, <1>b DEF OEPass, TypeOK, ShapeInv, RestOK
  <1>2. CASE OEFill
    <2>1. taken + 1 \in 1..Len(stream)
      BY <1>2, <1>a, <1>b DEF OEFill, TypeOK
    <2>2. Next1 \in Sigs /\ Buys(Next1)
      BY <1>2, <1>b, <2>1, ElementOfSeq DEF OEFill, Next1, Buys
    <2>3. Leg(Next1) \in Listed /\ Next1[2] \in Side
      BY <1>a, <2>1, <2>2 DEF ShapeInv, Next1, Sigs
    <2>4. npos' = npos + 1 /\ npos' \in 1..MaxPos
      BY <1>2, <1>a, VesselAssumption DEF OEFill, TypeOK
    <2>5. rec' \in [1..MaxPos -> [tok : Listed \cup {NoTok}, sig : Sigs \cup {NoSig}]]
      BY <1>2, <1>a, <2>2, <2>3, <2>4 DEF OEFill, ShapeInv, Leg
    <2>6. /\ UNCHANGED <<pc, rd, memory, sig, sigKeys, stream, now, kills>>
          /\ taken' = taken + 1 /\ cur' = npos' /\ state' = InState(Next1[2])
      BY <1>2 DEF OEFill
    <2>7. state' \in States
      BY <2>6 DEF InState, States
    <2>8. ShapeInv'
      BY <1>a, <2>5, <2>6 DEF ShapeInv
    <2>9. cur' \in 0..npos' /\ npos' \in 0..MaxPos /\ taken' \in 0..Len(stream')
      BY <1>b, <2>1, <2>4, <2>6, VesselAssumption
    <2> QED
      BY <1>a, <2>6, <2>7, <2>8, <2>9 DEF TypeOK, RestOK
  <1>3. CASE OECleanHash
    <2>1. /\ UNCHANGED <<pc, rd, memory, sig, state, cur, stream, npos, taken, now, kills>>
          /\ sigKeys' \subseteq sigKeys /\ \E p \in 1..MaxPos : rec' = [rec EXCEPT ![p] = NoRec]
      BY <1>3 DEF OECleanHash, Open
    <2>2. rec' \in [1..MaxPos -> [tok : Listed \cup {NoTok}, sig : Sigs \cup {NoSig}]]
      BY <1>a, <2>1 DEF ShapeInv, NoRec
    <2> QED
      BY <1>a, <2>1, <2>2 DEF TypeOK, ShapeInv, RestOK
  <1>4. CASE OECleanCur \/ OESettle
    <2>1. /\ UNCHANGED <<pc, rd, memory, sig, rec, sigKeys, stream, npos, taken, now, kills>>
          /\ cur' \in {cur, 0} /\ state' \in {state, "FLAT", "COOLDOWN"}
      BY <1>4 DEF OECleanCur, OESettle
    <2>2. cur' \in 0..npos
      BY <1>a, <2>1, VesselAssumption DEF TypeOK
    <2>3. state' \in States
      BY <1>a, <2>1 DEF TypeOK, States
    <2> QED
      BY <1>a, <2>1, <2>2, <2>3 DEF TypeOK, ShapeInv, RestOK
  <1>5. CASE Tick \/ SpotMoves \/ SessionCloses \/ Toggle
    <2>1. UNCHANGED <<pc, rd, memory, sig, trade, sigKeys, stream, oe, kills, now>>
      BY <1>5 DEF Tick, SpotMoves, SessionCloses, Toggle
    <2>2. now' \in 1..MaxNow
      BY <1>a, <2>1 DEF ShapeInv
    <2>3. ShapeInv'
      BY <1>a, <2>1, <2>2, ShapeFrame
    <2> QED
      BY <1>a, <2>1, <2>3 DEF TypeOK, RestOK
  <1>6. CASE Advance
    <2>1. UNCHANGED <<pc, rd, memory, sig, trade, sigKeys, stream, oe, kills>>
      BY <1>6 DEF Advance
    <2>a. now \in 1..MaxNow
      BY <1>a DEF ShapeInv
    <2>b. now < MaxNow /\ now' = now + 1
      BY <1>6 DEF Advance
    <2>2. now' \in 1..MaxNow
      BY <2>a, <2>b, VesselAssumption
    <2>3. ShapeInv'
      BY <1>a, <2>1, <2>2, ShapeFrame
    <2> QED
      BY <1>a, <2>1, <2>3 DEF TypeOK, RestOK
  <1> QED
    BY <1>1, <1>2, <1>3, <1>4, <1>5, <1>6 DEF Others, Executor, Environment
-----------------------------------------------------------------------------
(* A signal's id enters the stream once.                                   *)

\* The steps that write neither the stream nor the keys nor the records, and
\* do not begin to publish; time may pass.
LEMMA OnceQuiet ==
  ASSUME ShapeInv, sigKeys \subseteq Sigs, OnceInv, UNCHANGED <<sigKeys, stream, rec>>,
         now' \in Nat, now' >= now,
         pc' = "pipe" => pc = "pipe" /\ sig' = sig
  PROVE  OnceInv'
  <1>1. Published' = Published /\ (SignalsOnce => SignalsOnce')
    BY DEF Published, SignalsOnce
  <1>2. \A s \in Sigs : s[4] \in Nat
    BY VesselAssumption DEF Sigs
  <1>3. \A i \in 1..Len(stream) : stream[i] \in Sigs
    BY ElementOfSeq DEF ShapeInv
  <1>4. now \in Nat
    BY VesselAssumption DEF ShapeInv
  <1> QED
    BY <1>1, <1>2, <1>3, <1>4 DEF OnceInv

\* A new id: it is in the stream only if it is recorded, since it is of this
\* millisecond.
LEMMA OnceEmit ==
  ASSUME TypeOK, ShapeInv, OnceInv, EmitSignal
  PROVE  OnceInv'
  <1>1. pc = "emit" /\ UNCHANGED <<stream, rec, now>>
    BY DEF EmitSignal, trade, clock
  <1>2. mint_sig_id \in Sigs /\ mint_sig_id[4] = now /\ now \in Nat
    BY <1>1, MintFacts, VesselAssumption DEF ShapeInv
  <1>3. CASE pc' = "idle" /\ UNCHANGED <<sigKeys, sig>>
    BY <1>1, <1>2, <1>3, OnceQuiet DEF TypeOK
  <1>4. CASE /\ mint_sig_id \notin sigKeys /\ pc' = "pipe"
             /\ sigKeys' = sigKeys \cup {mint_sig_id} /\ sig' = mint_sig_id
    <2>1. mint_sig_id \notin Published
      BY <1>2, <1>4 DEF OnceInv, Published
    <2>2. Published' = Published /\ (SignalsOnce => SignalsOnce')
      BY <1>1 DEF Published, SignalsOnce
    <2> HIDE DEF mint_sig_id
    <2> QED
      BY <1>1, <1>2, <1>4, <2>1, <2>2 DEF OnceInv
  <1> QED
    BY <1>3, <1>4 DEF EmitSignal

\* The stream with one more entry.
LEMMA PublishedMore ==
  ASSUME stream \in Seq(Sigs), NEW s \in Sigs, stream' = Append(stream, s)
  PROVE  Published' = Published \cup {s}
  <1>1. /\ Len(stream') = Len(stream) + 1 /\ Len(stream) \in Nat
        /\ \A i \in 1..Len(stream) : stream'[i] = stream[i]
        /\ stream'[Len(stream) + 1] = s
    BY StreamFacts
  <1>2. 1..Len(stream') = 1..Len(stream) \cup {Len(stream) + 1}
    BY <1>1
  <1> QED
    BY <1>1, <1>2 DEF Published

\* Publishing, whether or not the vessel survives it.
LEMMA OncePublish ==
  ASSUME TypeOK, ShapeInv, OnceInv, pc = "pipe", pc' # "pipe",
         stream' = Append(stream, sig), UNCHANGED <<sigKeys, rec, now>>
  PROVE  OnceInv'
  <1>1. sig \in sigKeys /\ sig \notin Published /\ sig \in Sigs /\ stream \in Seq(Sigs)
    BY DEF OnceInv, TypeOK, ShapeInv
  <1>2. /\ Len(stream') = Len(stream) + 1 /\ Len(stream) \in Nat
        /\ \A i \in 1..Len(stream) : stream'[i] = stream[i]
        /\ stream'[Len(stream) + 1] = sig
    BY <1>1, StreamFacts
  <1>3. Published' = Published \cup {sig}
    BY <1>1, PublishedMore
  <1>4. \A i \in 1..Len(stream) : stream[i] # sig
    BY <1>1 DEF Published
  <1>5. SignalsOnce'
    <2> SUFFICES ASSUME NEW i \in 1..Len(stream'), NEW j \in 1..Len(stream'),
                        stream'[i] = stream'[j]
                 PROVE  i = j
      BY DEF SignalsOnce
    <2>1. CASE i \in 1..Len(stream) /\ j \in 1..Len(stream)
      BY <1>2, <2>1 DEF OnceInv, SignalsOnce
    <2>2. CASE i = Len(stream) + 1 \/ j = Len(stream) + 1
      BY <1>2, <1>4, <2>2
    <2> QED
      BY <1>2, <2>1, <2>2
  <1>6. \A i \in 1..Len(stream') : stream'[i] \in sigKeys \/ stream'[i][4] < now
    BY <1>1, <1>2 DEF OnceInv
  <1> QED
    BY <1>3, <1>5, <1>6 DEF OnceInv

\* The end of a trade deletes the key, but not in the millisecond of the id,
\* and never the key of a signal that is still to be published.
LEMMA OnceClean ==
  ASSUME TypeOK, ShapeInv, OnceInv, OECleanHash
  PROVE  OnceInv'
  <1>1. PICK p \in 1..MaxPos : /\ rec[p] # NoRec /\ now > rec[p].sig[4]
                               /\ rec' = [rec EXCEPT ![p] = NoRec]
                               /\ sigKeys' = sigKeys \ {rec[p].sig}
    BY DEF OECleanHash, Open
  <1>2. UNCHANGED <<pc, sig, stream, now>>
    BY DEF OECleanHash, clock
  <1>3. Published' = Published /\ (SignalsOnce => SignalsOnce')
    BY <1>2 DEF Published, SignalsOnce
  <1>4. rec[p].sig \in Published
    BY <1>1 DEF OnceInv
  <1>5. \A i \in 1..Len(stream) : stream[i] \in sigKeys' \/ stream[i][4] < now
    BY <1>1 DEF OnceInv
  <1>6. \A q \in 1..MaxPos : rec'[q] # NoRec => rec'[q].sig \in Published
    BY <1>1 DEF OnceInv, ShapeInv
  <1> QED
    BY <1>1, <1>2, <1>3, <1>4, <1>5, <1>6 DEF OnceInv

\* An entry is recorded with the signal it came from.
LEMMA OnceFill ==
  ASSUME TypeOK, ShapeInv, OnceInv, OEFill
  PROVE  OnceInv'
  <1>1. UNCHANGED <<pc, sig, stream, sigKeys, now>>
    BY DEF OEFill, clock
  <1>2. Published' = Published /\ (SignalsOnce => SignalsOnce')
    BY <1>1 DEF Published, SignalsOnce
  <1>3. taken + 1 \in 1..Len(stream)
    <2>1. Len(stream) \in Nat
      BY LenProperties DEF ShapeInv
    <2> QED
      BY <2>1 DEF OEFill, TypeOK
  <1>4. Next1 \in Published
    BY <1>3 DEF Next1, Published
  <1>5. rec' = [rec EXCEPT ![npos'] = [tok |-> <<Next1[3], Next1[2]>>, sig |-> Next1]]
    BY DEF OEFill
  <1>6. \A q \in 1..MaxPos : rec'[q] = rec[q] \/ rec'[q].sig = Next1
    BY <1>5 DEF ShapeInv
  <1>7. \A q \in 1..MaxPos : rec'[q] # NoRec => rec'[q].sig \in Published
    BY <1>4, <1>6 DEF OnceInv
  <1> QED
    BY <1>1, <1>2, <1>7 DEF OnceInv

\* Every step keeps ids unique in the stream.
LEMMA NextOnce == VInv /\ [Next]_vars => OnceInv'
  <1> SUFFICES ASSUME VInv, [Next]_vars PROVE OnceInv'
    OBVIOUS
  <1>t. TypeOK /\ ShapeInv /\ OnceInv
    BY DEF VInv
  <1>k. sigKeys \subseteq Sigs
    BY <1>t DEF TypeOK
  <1>n. now \in 1..MaxNow
    BY <1>t DEF ShapeInv
  <1>a. TypeOK /\ ShapeInv /\ OnceInv /\ sigKeys \subseteq Sigs /\ now \in Nat
    BY <1>t, <1>k, <1>n, VesselAssumption
  <1> USE DEF memory, trade, market, oe, ops, clock
  <1>1. CASE EmitSignal
    BY <1>1, <1>a, OnceEmit
  <1>2. CASE Publish
    BY <1>2, <1>a, OncePublish DEF Publish, Goto
  <1>3. CASE PublishFails
    <2>1. pc = "pipe" /\ pc' = "failed" /\ UNCHANGED <<sigKeys, rec, now>>
      BY <1>3 DEF PublishFails, Goto
    <2>2. CASE stream' = stream
      BY <1>a, <2>1, <2>2, OnceQuiet
    <2>3. CASE stream' = Append(stream, sig)
      BY <1>a, <2>1, <2>3, OncePublish
    <2> QED
      BY <1>3, <2>2, <2>3 DEF PublishFails
  <1>4. CASE OECleanHash
    BY <1>4, <1>a, OnceClean
  <1>5. CASE OEFill
    BY <1>5, <1>a, OnceFill
  <1>6. CASE Loop /\ ~EmitSignal /\ ~Publish
    <2>1. UNCHANGED <<sigKeys, stream, rec, now>> /\ pc' # "pipe"
      BY <1>6 DEF Loop, BootRead, BootWrite, WaitEnabled, InitialBasket, SessionEnds, Wake,
         ExitCooldown, ReadState, ReadAfterCooldown, ReadCurrent, SyncMemory, Evaluate, Goto
    <2> QED
      BY <1>a, <2>1, OnceQuiet
  <1>7. CASE RedisFails \/ EngineKilled
    <2>1. UNCHANGED <<sigKeys, stream, rec>> /\ pc' # "pipe" /\ now' \in {now, now + 1}
      BY <1>7 DEF RedisFails, EngineKilled
    <2> QED
      BY <1>a, <2>1, OnceQuiet
  <1>8. CASE OEPass \/ OECleanCur \/ OESettle \/ Environment \/ UNCHANGED vars
    <2>1. UNCHANGED <<sigKeys, stream, rec, pc, sig>> /\ now' \in {now, now + 1}
      BY <1>8 DEF OEPass, OECleanCur, OESettle, Environment, Tick, SpotMoves, Advance,
         SessionCloses, Toggle, vars
    <2> QED
      BY <1>a, <2>1, OnceQuiet
  <1> QED
    BY <1>1, <1>2, <1>3, <1>4, <1>5, <1>6, <1>7, <1>8 DEF Next, Loop, Faults, Others, Executor
-----------------------------------------------------------------------------
(* Lost signals.                                                           *)

\* What the bound allows beyond the kills.
LEMMA SlackFacts ==
  /\ pc \in {"pipe", "failed"} => Cardinality({"pipe", "failed"} \cap {pc}) = 1
  /\ pc \notin {"pipe", "failed"} => Cardinality({"pipe", "failed"} \cap {pc}) = 0
  <1>1. ASSUME pc \in {"pipe", "failed"} PROVE Cardinality({"pipe", "failed"} \cap {pc}) = 1
    <2>1. {"pipe", "failed"} \cap {pc} = {pc}
      BY <1>1
    <2> QED
      BY <2>1, FS_Singleton
  <1>2. ASSUME pc \notin {"pipe", "failed"} PROVE Cardinality({"pipe", "failed"} \cap {pc}) = 0
    <2>1. {"pipe", "failed"} \cap {pc} = {}
      BY <1>2
    <2> QED
      BY <2>1, FS_EmptySet
  <1> QED
    BY <1>1, <1>2

\* The bound with the slack spelled out.
LostBound == Cardinality(sigKeys \ Published)
               <= kills + (IF pc \in {"pipe", "failed"} THEN 1 ELSE 0)

\* The two forms agree.
LEMMA LostBoundIff ==
  ASSUME kills \in Nat PROVE LostSignalsBounded <=> LostBound
  BY SlackFacts DEF LostSignalsBounded, LostBound

\* Every step keeps the bound: a key is recorded when the publication begins,
\* and what ends the publication is the XADD, a kill or the failure.
LEMMA NextLost == VInv /\ [Next]_vars => IsFiniteSet(sigKeys)' /\ LostBound'
  <1> SUFFICES ASSUME VInv, [Next]_vars PROVE IsFiniteSet(sigKeys') /\ LostBound'
    OBVIOUS
  <1>a. TypeOK /\ ShapeInv /\ OnceInv /\ IsFiniteSet(sigKeys) /\ kills \in Nat
    BY DEF VInv, LostInv, ShapeInv
  <1>b. LostBound
    BY <1>a, LostBoundIff DEF VInv, LostInv
  <1> DEFINE lost == sigKeys \ Published
  <1>c. IsFiniteSet(lost) /\ Cardinality(lost) \in Nat
    BY <1>a, FS_Subset, FS_CardinalityType
  <1> USE DEF memory, trade, market, oe, ops, clock
  <1>1. CASE EmitSignal
    <2>1. pc = "emit" /\ UNCHANGED <<stream, kills>> /\ Published' = Published
      BY <1>1 DEF EmitSignal, Published
    <2>2. CASE pc' = "idle" /\ sigKeys' = sigKeys
      BY <1>a, <1>b, <2>1, <2>2 DEF LostBound
    <2>3. CASE pc' = "pipe" /\ sigKeys' = sigKeys \cup {mint_sig_id}
      <3>1. IsFiniteSet(sigKeys')
        BY <1>a, <2>3, FS_AddElement
      <3>2. sigKeys' \ Published' \subseteq lost \cup {mint_sig_id}
        BY <2>1, <2>3
      <3>3. /\ IsFiniteSet(lost \cup {mint_sig_id})
            /\ Cardinality(lost \cup {mint_sig_id}) \in Nat
            /\ Cardinality(lost \cup {mint_sig_id}) <= Cardinality(lost) + 1
        BY <1>c, FS_AddElement, FS_CardinalityType
      <3>4. /\ Cardinality(sigKeys' \ Published') \in Nat
            /\ Cardinality(sigKeys' \ Published') <= Cardinality(lost \cup {mint_sig_id})
        BY <3>2, <3>3, FS_Subset, FS_CardinalityType
      <3>5. Cardinality(lost) <= kills
        BY <1>b, <1>a, <2>1 DEF LostBound
      <3> HIDE DEF lost
      <3>6. Cardinality(sigKeys' \ Published') <= kills + 1
        BY <1>a, <1>c, <3>3, <3>4, <3>5
      <3> QED
        BY <2>1, <2>3, <3>1, <3>6 DEF LostBound
    <2> QED
      BY <1>1, <2>2, <2>3 DEF EmitSignal
  <1>2. ASSUME pc = "pipe", stream' = Append(stream, sig), UNCHANGED <<sigKeys, kills>>
        PROVE  IsFiniteSet(sigKeys') /\ LostBound'
    <2>1. sig \in lost /\ sig \in Sigs /\ stream \in Seq(Sigs)
      BY <1>a, <1>2 DEF OnceInv, TypeOK, ShapeInv
    <2>2. Published' = Published \cup {sig}
      BY <1>2, <2>1, PublishedMore
    <2>3. sigKeys' \ Published' = lost \ {sig}
      BY <1>2, <2>2
    <2>4. Cardinality(lost \ {sig}) = Cardinality(lost) - 1
      BY <1>c, <2>1, FS_RemoveElement
    <2>5. Cardinality(lost) <= kills + 1
      BY <1>b, <1>2 DEF LostBound
    <2> HIDE DEF lost
    <2>a. Cardinality(sigKeys' \ Published') = Cardinality(lost) - 1
      BY <2>3, <2>4
    <2>b. Cardinality(lost) - 1 <= kills
      BY <1>a, <1>c, <2>5
    <2>6. Cardinality(sigKeys' \ Published') <= kills
      BY <2>a, <2>b
    <2>7. Cardinality(sigKeys' \ Published') \in Int
      BY <1>c, <2>3, <2>4
    <2> QED
      BY <1>a, <1>2, <2>6, <2>7 DEF LostBound
  <1>3. CASE Publish
    BY <1>2, <1>3 DEF Publish, Goto
  <1>4. CASE PublishFails
    <2>1. pc = "pipe" /\ pc' = "failed" /\ UNCHANGED <<sigKeys, kills>>
      BY <1>4 DEF PublishFails, Goto
    <2>2. CASE stream' = stream
      <3>1. Published' = Published
        BY <2>2 DEF Published
      <3> QED
        BY <1>a, <1>b, <2>1, <3>1 DEF LostBound
    <2> QED
      BY <1>2, <1>4, <2>1, <2>2 DEF PublishFails
  <1>5. CASE OECleanHash
    <2>1. PICK p \in 1..MaxPos : rec[p] # NoRec /\ sigKeys' = sigKeys \ {rec[p].sig}
      BY <1>5 DEF OECleanHash, Open
    <2>2. UNCHANGED <<stream, kills, pc>> /\ Published' = Published
      BY <1>5 DEF OECleanHash, Published
    <2>3. rec[p].sig \in Published
      BY <1>a, <2>1 DEF OnceInv
    <2>4. sigKeys' \ Published' = lost
      BY <2>1, <2>2, <2>3
    <2>5. IsFiniteSet(sigKeys')
      BY <1>a, <2>1, FS_Subset
    <2> QED
      BY <1>b, <2>2, <2>4, <2>5 DEF LostBound
  <1>6. CASE /\ UNCHANGED <<sigKeys, stream>>
             /\ \/ kills' = kills /\ pc' \in {"pipe", "failed"}
                \/ kills' = kills /\ pc \notin {"pipe", "failed"}
                \/ kills' = kills + 1
    <2>1. Published' = Published
      BY <1>6 DEF Published
    <2>2. Cardinality(lost) <= kills' + (IF pc' \in {"pipe", "failed"} THEN 1 ELSE 0)
      <3> HIDE DEF lost
      <3>1. Cardinality(lost) <= kills + (IF pc \in {"pipe", "failed"} THEN 1 ELSE 0)
        BY <1>b DEF LostBound, lost
      <3> QED
        BY <1>a, <1>c, <1>6, <3>1
    <2> QED
      BY <1>a, <1>6, <2>1, <2>2 DEF LostBound
  <1>7. CASE Loop /\ ~EmitSignal /\ ~Publish
    <2>1. UNCHANGED <<sigKeys, stream, kills>> /\ pc \notin {"pipe", "failed"}
      BY <1>7 DEF Loop, BootRead, BootWrite, WaitEnabled, InitialBasket, SessionEnds, Wake,
         ExitCooldown, ReadState, ReadAfterCooldown, ReadCurrent, SyncMemory, Evaluate, Goto
    <2> QED
      BY <1>6, <2>1
  <1>8. CASE RedisFails \/ EngineKilled
    <2>1. /\ UNCHANGED <<sigKeys, stream>>
          /\ (kills' = kills /\ pc' = "failed") \/ kills' = kills + 1
      BY <1>8 DEF RedisFails, EngineKilled
    <2> QED
      BY <1>6, <2>1
  <1>9. CASE OEPass \/ OEFill \/ OECleanCur \/ OESettle \/ Environment \/ UNCHANGED vars
    <2>1. UNCHANGED <<sigKeys, stream, pc, kills>>
      BY <1>9 DEF OEPass, OEFill, OECleanCur, OESettle, Environment, Tick, SpotMoves, Advance,
         SessionCloses, Toggle, vars
    <2> QED
      BY <1>6, <2>1
  <1> QED
    BY <1>1, <1>3, <1>4, <1>5, <1>7, <1>8, <1>9 DEF Next, Loop, Faults, Others, Executor
-----------------------------------------------------------------------------
(* The theorems.                                                           *)

\* A session opens with everything flat and nothing published.
LEMMA InitVInv == Init => VInv
  <1> SUFFICES ASSUME Init PROVE VInv
    OBVIOUS
  <1>1. stream = <<>> /\ stream \in Seq(Sigs) /\ Len(stream) = 0
    BY DEF Init
  <1>2. IsSeq(<<>>) /\ Len(<<>>) = 0
    BY EmptySeq, SeqIsSeq
  <1>3. \A t \in Listed : buffers[t] = <<>>
    BY DEF Init, NoBuffers
  <1>4. ~Buys(NoSig)
    BY DEF NoSig, Buys
  <1>5. ShapeInv
    <2>1. now \in 1..MaxNow /\ kills \in Nat
      BY VesselAssumption DEF Init
    <2>2. mem \in [side : Side \cup {"none"}, tok : Listed \cup {NoTok}]
      BY DEF Init, NotHeld
    <2>3. basket \in [atm : {basket.atm}, toks : SUBSET Listed, shift : 0..MaxNow]
      BY VesselAssumption DEF Init, NoBasket
    <2>4. buffers = [t \in Listed |-> buffers[t]] /\ \A t \in Listed : IsSeq(buffers[t])
      BY <1>2, <1>3 DEF Init, NoBuffers
    <2>5. rec \in [1..MaxPos -> [tok : Listed \cup {NoTok}, sig : Sigs \cup {NoSig}]]
      BY DEF Init, NoRec
    <2>6. pc = "boot_read" /\ sig = NoSig
      BY DEF Init
    <2> QED
      BY <1>1, <1>4, <2>1, <2>2, <2>3, <2>4, <2>5, <2>6 DEF ShapeInv
  <1>6. RestOK
    <2>1. \A t \in Listed : Len(buffers[t]) <= Cfg.ring_size
      BY <1>2, <1>3, CfgAssumption
    <2> QED
      BY <1>1, <2>1, VesselAssumption DEF Init, RestOK, States
  <1>7. TypeOK
    BY <1>5, <1>6, TypeFromShape
  <1>8. OnceInv
    BY <1>1 DEF Init, OnceInv, SignalsOnce
  <1>9. LostInv
    <2>1. sigKeys = {} /\ sigKeys \ Published = {} /\ kills = 0 /\ pc = "boot_read"
      BY DEF Init
    <2>2. LostBound
      BY <2>1, FS_EmptySet DEF LostBound
    <2> QED
      BY <2>1, <2>2, FS_EmptySet, LostBoundIff DEF LostInv
  <1> QED
    BY <1>5, <1>7, <1>8, <1>9 DEF VInv

\* Every step of the vessel, of order_exec, of the market and of the operator
\* preserves the invariant.
LEMMA NextVInv == VInv /\ [Next]_vars => VInv'
  <1> SUFFICES ASSUME VInv, [Next]_vars PROVE VInv'
    OBVIOUS
  <1>1. ShapeInv' /\ TypeOK'
    <2>1. CASE Next
      <3>1. ShapeInv' /\ RestOK'
        BY <2>1, LoopTypes, FaultTypes, OthersTypes DEF Next
      <3>2. (ShapeInv /\ RestOK => TypeOK)'
        BY TypeFromShape, PTL
      <3> QED
        BY <3>1, <3>2
    <2>2. CASE UNCHANGED vars
      <3>1. ShapeInv /\ TypeOK
        BY DEF VInv
      <3>2. now' \in 1..MaxNow
        BY <2>2, <3>1 DEF vars, clock, ShapeInv
      <3>3. ShapeInv'
        BY <2>2, <3>1, <3>2, ShapeFrame DEF vars, memory, trade, ops
      <3>4. TypeOK'
        BY <2>2, <3>1 DEF vars, memory, trade, market, oe, TypeOK
      <3> QED
        BY <3>3, <3>4
    <2> QED
      BY <2>1, <2>2
  <1>2. OnceInv'
    BY NextOnce
  <1>3. IsFiniteSet(sigKeys)' /\ LostBound'
    BY NextLost
  <1>4. (kills \in Nat => (LostSignalsBounded <=> LostBound))'
    BY LostBoundIff, PTL
  <1>5. kills' \in Nat
    BY <1>1 DEF ShapeInv
  <1> QED
    BY <1>1, <1>2, <1>3, <1>4, <1>5 DEF VInv, LostInv

\* The invariant holds of every behaviour of the vessel.
THEOREM AlwaysVInv == Spec => []VInv
  BY InitVInv, NextVInv, PTL DEF Spec

\* Types: the coroutine's place, what it remembers and what Redis holds.
THEOREM AlwaysTypeOK == Spec => []TypeOK
  <1>1. VInv => TypeOK
    BY DEF VInv
  <1> QED
    BY <1>1, AlwaysVInv, PTL

\* A signal id enters the stream once (publisher.py), although order_exec
\* deletes the key SET NX tests and a kill restarts the vessel anywhere.
THEOREM AlwaysSignalsOnce == Spec => []SignalsOnce
  <1>1. VInv => SignalsOnce
    BY DEF VInv, OnceInv
  <1> QED
    BY <1>1, AlwaysVInv, PTL

\* Between SET NX and XADD a signal is lost only with a kill or with the
\* failure that ends the engine, one for each.
THEOREM AlwaysLostSignalsBounded == Spec => []LostSignalsBounded
  <1>1. VInv => LostSignalsBounded
    BY DEF VInv, LostInv
  <1> QED
    BY <1>1, AlwaysVInv, PTL
=============================================================================
