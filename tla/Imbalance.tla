----------------------------- MODULE Imbalance -----------------------------
(***************************************************************************)
(* What strategies/bid_ask_imbalance computes from one snapshot of the     *)
(* option books and the memory of the ticks before it: the metrics, the    *)
(* entry gates, continuation, reversal and timing rules, and on_tick,      *)
(* which orders them.  Every operator is a pure function, as in the code;  *)
(* the module Vessel gives them their state.                               *)
(*                                                                         *)
(* Prices are whole price ticks and quantities whole contracts.  A ratio   *)
(* of two quantities stays the pair <<numerator, denominator>> and is      *)
(* compared by cross-multiplication, so a threshold is an exact fraction   *)
(* of a hundred where the code has the nearest double.  The labels that    *)
(* are only written out as telemetry (imbalance_class, pressure label,     *)
(* score breakdown, reasons) are left out.                                 *)
(***************************************************************************)
EXTENDS Integers, Sequences, FiniteSets
LOCAL INSTANCE Functions

CONSTANT Cfg   \* the strategy and instrument configuration blobs

None == -1            \* a missing price or quantity
NoRatio == <<0, 0>>   \* a ratio that cannot be computed

ASSUME CfgAssumption ==
  /\ Cfg.strong_buy \in Nat /\ Cfg.continuation \in Nat
  /\ Cfg.net_pressure_entry \in Nat /\ Cfg.drop_pct \in Nat
  /\ Cfg.wall_multiple \in Nat /\ Cfg.tolerance \in Nat
  /\ Cfg.min_consecutive \in Nat /\ Cfg.window \in Nat
  /\ Cfg.spread_good \in Nat /\ Cfg.spread_moderate \in Nat
  /\ Cfg.lookback \in Nat \ {0} /\ Cfg.qty_lots \in Nat \ {0}
  /\ Cfg.ring_size \in Nat \ {0}
  /\ Cfg.min_score \in Seq(Nat \cup {None})
-----------------------------------------------------------------------------
(* Metrics of one leg (metrics/*.py).                                      *)

compute_imbalance(leg) ==
  IF leg.total_bid = None \/ leg.total_ask = None \/ leg.total_ask = 0
    THEN NoRatio ELSE <<leg.total_bid, leg.total_ask>>

\* r > pct/100 and r < pct/100 for a ratio that is known.
Above(r, pct) == r # NoRatio /\ 100 * r[1] > pct * r[2]
Below(r, pct) == r # NoRatio /\ 100 * r[1] < pct * r[2]
Larger(r, s) == r[1] * s[2] > s[1] * r[2]

\* None for a missing or crossed quote.
compute_spread(leg) ==
  IF leg.bid = None \/ leg.ask = None \/ leg.ask < leg.bid
    THEN None ELSE leg.ask - leg.bid

classify_spread(spread) ==
  CASE spread = None -> "UNKNOWN"
    [] spread # None /\ spread <= Cfg.spread_good -> "GOOD"
    [] spread > Cfg.spread_good /\ spread <= Cfg.spread_moderate -> "MODERATE"
    [] OTHER -> "AVOID"

Quoted(leg) == leg.ltp # None /\ leg.bid # None /\ leg.ask # None
NearAsk(leg) == leg.ltp >= leg.ask - Cfg.tolerance
NearBid(leg) == leg.ltp <= leg.bid + Cfg.tolerance

detect_aggressor(leg) ==
  CASE ~Quoted(leg) -> "UNKNOWN"
    [] Quoted(leg) /\ NearAsk(leg) -> "BUY"
    [] Quoted(leg) /\ ~NearAsk(leg) /\ NearBid(leg) -> "SELL"
    [] OTHER -> "MID"

is_wall_present(leg) ==
  CASE leg.ask_qty = None \/ leg.bid_qty = None -> "unknown"
    [] leg.bid_qty = 0 /\ leg.ask_qty > 0 -> "yes"
    [] leg.bid_qty > 0 /\ leg.ask_qty > Cfg.wall_multiple * leg.bid_qty -> "yes"
    [] OTHER -> "no"
-----------------------------------------------------------------------------
(* The rolling buffer of one strike (buffer.py).                           *)

last_n(buf, n) == SubSeq(buf, IF Len(buf) > n THEN Len(buf) - n + 1 ELSE 1, Len(buf))

\* The slip: the ring has no capacity.
PushUnbounded(buf, obs) ==
  IF buf # <<>> /\ buf[Len(buf)].ts = obs.ts THEN buf ELSE Append(buf, obs)
push(buf, obs) ==
  IF buf # <<>> /\ buf[Len(buf)].ts = obs.ts
    THEN buf ELSE last_n(Append(buf, obs), Cfg.ring_size)

HistoryWindow == 5

\* Wall sub-state from the leg and the ask quantities before it.
classify_wall_state(leg, buf) ==
  LET history == last_n(buf, HistoryWindow)
      asks == SelectSeq(history, LAMBDA o : o.ask_qty # None)
      Asks == {asks[k].ask_qty : k \in DOMAIN asks}
      peak == CHOOSE m \in Asks : \A a \in Asks : a <= m
      dipped == \E a \in Asks : 10 * a < 7 * peak
      restored == 100 * leg.ask_qty >= 85 * peak
      decreasing == \A k \in 1..(Len(asks) - 1) : asks[k].ask_qty >= asks[k + 1].ask_qty
      bidRising == history[1].bid_qty # None /\ leg.bid_qty > history[1].bid_qty
  IN CASE is_wall_present(leg) = "unknown" -> "UNKNOWN"
       [] is_wall_present(leg) = "no" -> "NONE"
       [] is_wall_present(leg) = "yes" /\ Len(asks) < 2 -> "HOLDING"
       [] OTHER ->
            IF dipped /\ restored THEN "REFRESHING"
            ELSE IF /\ decreasing /\ leg.ask # None /\ leg.ltp # None
                    /\ NearAsk(leg) /\ bidRising
                   THEN "ABSORBING" ELSE "HOLDING"

\* The observation of a leg; a leaf without a time takes the vessel's clock.
cache_observation_imbalance(leg, wall, now) ==
  [ts |-> IF leg.ts = 0 THEN now ELSE leg.ts, ltp |-> leg.ltp,
   bid_qty |-> leg.bid_qty, ask_qty |-> leg.ask_qty,
   imbalance |-> compute_imbalance(leg), spread |-> compute_spread(leg),
   wall |-> IF wall = "UNKNOWN" THEN "unknown"
            ELSE IF wall = "NONE" THEN "no" ELSE "yes"]

\* Length of the run of moves up (dir = 1) or down (dir = -1) that ends at the
\* newest observation, within the window of its time.
consecutive_ticks(buf, dir) ==
  LET n == Len(buf)
      Goes(j) == /\ buf[n - j].ltp # None
                 /\ buf[n - j].ts >= buf[n].ts - Cfg.window
                 /\ dir * buf[n - j].ltp < dir * buf[n - j + 1].ltp
  IN IF n = 0 THEN 0
     ELSE IF buf[n].ltp = None THEN 0
     ELSE CHOOSE k \in 1..n : /\ \A j \in 1..(k - 1) : Goes(j)
                              /\ k = n \/ ~Goes(k)
-----------------------------------------------------------------------------
(* Metrics over the legs of a side; legs is a function from tokens.        *)

\* Sum of a quantity over the legs that have it, None when none has.
sum_or_none(legs, qty) ==
  LET present == {t \in DOMAIN legs : legs[t][qty] # None}
  IN IF present = {} THEN None
     ELSE SumFunction([t \in present |-> legs[t][qty]])

cumulative_imbalance(legs) ==
  LET bid == sum_or_none(legs, "total_bid")
      ask == sum_or_none(legs, "total_ask")
  IN IF bid = None \/ ask = None \/ ask = 0 THEN NoRatio ELSE <<bid, ask>>

\* cum_ce - cum_pe; the denominator stays positive.
net_pressure(ce, pe) ==
  IF ce = NoRatio \/ pe = NoRatio THEN NoRatio
  ELSE <<ce[1] * pe[2] - pe[1] * ce[2], ce[2] * pe[2]>>

\* The first leg, by strike, whose imbalance no other leg exceeds; a token is
\* <<strike, side>>.
pick_dominant_strike(legs) ==
  LET imb(t) == compute_imbalance(legs[t])
      known == {t \in DOMAIN legs : imb(t) # NoRatio}
  IN {t \in known : \A u \in known \ {t} :
        Larger(imb(t), imb(u)) \/ (~Larger(imb(u), imb(t)) /\ t[1] < u[1])}
-----------------------------------------------------------------------------
(* Decisions (decisions/*.py).                                             *)

\* "CE", "PE" or "none".
gate1_direction(pressure) ==
  CASE Above(pressure, Cfg.net_pressure_entry) -> "CE"
    [] Below(pressure, -Cfg.net_pressure_entry) -> "PE"
    [] OTHER -> "none"

gate2_ask_wall(wall) == wall \in {"NONE", "ABSORBING"}

\* The size factor in halves; 0 fails the gate.
gate3_spread(status) ==
  CASE status = "GOOD" -> 2 [] status = "MODERATE" -> 1 [] OTHER -> 0

compute_quality_score(side, leg, buf) ==
  LET imb == compute_imbalance(leg)
      met == <<classify_spread(compute_spread(leg)) = "GOOD",
               \/ Above(imb, Cfg.strong_buy)
               \/ side = "PE" /\ imb # NoRatio /\ Cfg.strong_buy * imb[1] < 100 * imb[2],
               classify_wall_state(leg, buf) \in {"NONE", "ABSORBING"},
               consecutive_ticks(buf, IF side = "CE" THEN 1 ELSE -1) >= Cfg.min_consecutive,
               detect_aggressor(leg) = IF side = "CE" THEN "BUY" ELSE "SELL">>
  IN 2 * Cardinality({k \in DOMAIN met : met[k]})

entry_size_factor(score) == IF score >= 8 THEN 2 ELSE IF score >= 5 THEN 1 ELSE 0

\* window is the time window that holds now, 0 outside all of them.
entry_allowed(window, score) ==
  /\ window \in DOMAIN Cfg.min_score
  /\ Cfg.min_score[window] # None
  /\ score >= Cfg.min_score[window]

\* max(1, round(base * factor / 2)), where round takes a half to the even.
lots(factor) ==
  LET n == Cfg.qty_lots * factor
      q == n \div 2
  IN IF n % 2 = 0 \/ q % 2 = 0 THEN (IF q = 0 THEN 1 ELSE q) ELSE q + 1

evaluate_continuation(side, leg, buf) ==
  LET history == last_n(buf, HistoryWindow)
      bids == SelectSeq(history, LAMBDA o : o.bid_qty # None)
      falling == /\ Len(bids) >= 2
                 /\ bids[1].bid_qty > bids[Len(bids)].bid_qty
                 /\ \A k \in 1..(Len(bids) - 1) : bids[k].bid_qty >= bids[k + 1].bid_qty
      imb == compute_imbalance(leg)
  IN /\ imb # NoRatio /\ ~Below(imb, Cfg.continuation)
     /\ ~falling
     /\ classify_wall_state(leg, buf) \notin {"HOLDING", "REFRESHING"}
     /\ classify_spread(compute_spread(leg)) \in {"GOOD", "MODERATE"}
     /\ detect_aggressor(leg) \in {IF side = "CE" THEN "BUY" ELSE "SELL", "MID"}

\* The imbalance fell by more than drop_pct over the lookback.
imbalance_collapsed(buf) ==
  LET h == last_n(buf, Cfg.lookback + 1)
      was == h[1].imbalance
      is == h[Len(h)].imbalance
  IN /\ Len(h) = Cfg.lookback + 1
     /\ was # NoRatio /\ is # NoRatio /\ was[1] > 0
     /\ 100 * (was[1] * is[2] - is[1] * was[2]) > Cfg.drop_pct * was[1] * is[2]

evaluate_reversal(side, leg, buf) ==
  LET h == last_n(buf, Cfg.lookback + 1)
      before == SubSeq(h, 1, IF Len(h) < Cfg.lookback THEN Len(h) ELSE Cfg.lookback)
  IN /\ imbalance_collapsed(buf)
     /\ classify_wall_state(leg, buf) \in {"HOLDING", "REFRESHING"}
     /\ \E k \in DOMAIN before : before[k].wall # "yes"
     /\ classify_spread(compute_spread(leg)) = "AVOID"
     /\ \E k \in DOMAIN before : before[k].spread # None /\ before[k].spread <= Cfg.spread_moderate
     /\ Quoted(leg) /\ IF side = "CE" THEN NearBid(leg) ELSE NearAsk(leg)
-----------------------------------------------------------------------------
(* on_tick (strategy.py).                                                  *)

Opposite(side) == IF side = "CE" THEN "PE" ELSE "CE"
OfSide(legs, side) == [t \in {u \in DOMAIN legs : u[2] = side} |-> legs[t]]
Act(kind, side, tok, n) == [kind |-> kind, side |-> side, tok |-> tok, lots |-> n]
NoTok == <<0, "none">>
NoOp == Act("NO_OP", "none", NoTok, 0)

\* Phase 1: every leg of the snapshot is observed into its buffer.
Observe(legs, buffers, now) ==
  [t \in DOMAIN buffers |->
     IF t \in DOMAIN legs
       THEN push(buffers[t], cache_observation_imbalance(
              legs[t], classify_wall_state(legs[t], buffers[t]), now))
       ELSE buffers[t]]

\* Phase 3: the side and token memory holds; buf is the buffer after phase 1.
HeldDecision(legs, side, tok, buf) ==
  LET targets == pick_dominant_strike(OfSide(legs, Opposite(side)))
  IN IF tok \notin DOMAIN legs THEN Act("NO_OP", "held_not_in_basket", NoTok, 0)
     ELSE IF evaluate_reversal(side, legs[tok], buf)
       THEN IF targets = {} THEN Act("EXIT", side, tok, Cfg.qty_lots)
            ELSE Act("FLIP", Opposite(side), CHOOSE t \in targets : TRUE, Cfg.qty_lots)
     ELSE IF evaluate_continuation(side, legs[tok], buf)
       THEN Act("HOLD", side, NoTok, 0)
     ELSE Act("EXIT", side, tok, Cfg.qty_lots)

\* Phase 4: nothing held; buffers after phase 1.
EntryDecision(legs, buffers, window) ==
  LET side == gate1_direction(net_pressure(
                cumulative_imbalance(OfSide(legs, "CE")),
                cumulative_imbalance(OfSide(legs, "PE"))))
      dominant == pick_dominant_strike(OfSide(legs, side))
      tok == CHOOSE t \in dominant : TRUE
      score == compute_quality_score(side, legs[tok], buffers[tok])
      spread == gate3_spread(classify_spread(compute_spread(legs[tok])))
      factor == IF entry_size_factor(score) < spread THEN entry_size_factor(score) ELSE spread
  IN IF side = "none" \/ dominant = {} THEN NoOp
     ELSE IF /\ gate2_ask_wall(classify_wall_state(legs[tok], buffers[tok]))
             /\ spread > 0
             /\ entry_allowed(window, score)
             /\ factor > 0
       THEN Act("ENTER", side, tok, lots(factor)) ELSE NoOp

\* held.side and held.tok are memory.held_side and memory.held_token.
on_tick(legs, buffers, held, window) ==
  IF held.side # "none" /\ held.tok # NoTok
    THEN HeldDecision(legs, held.side, held.tok, buffers[held.tok])
    ELSE EntryDecision(legs, buffers, window)
=============================================================================
