------------------------------ MODULE MCVessel ------------------------------
EXTENDS Vessel

\* Thresholds in hundredths; a window of score 0 so that the quality score
\* only sizes the entry.
MCCfg == [strong_buy |-> 130, continuation |-> 120, net_pressure_entry |-> 50,
          drop_pct |-> 30, wall_multiple |-> 5, tolerance |-> 1,
          min_consecutive |-> 1, window |-> 10, spread_good |-> 1,
          spread_moderate |-> 2, lookback |-> 1, qty_lots |-> 1, ring_size |-> 2,
          min_score |-> <<6>>]

Leg(ltp, bid, ask, bq, aq, tb, ta) ==
  [ltp |-> ltp, bid |-> bid, ask |-> ask, bid_qty |-> bq, ask_qty |-> aq,
   total_bid |-> tb, total_ask |-> ta]

\* quiet: balanced; strong: buyers three to one; broken: sellers behind a new
\* ask wall, a wide spread and the last trade at the bid.
MCBook == [quiet |-> Leg(10, 10, 11, 1, 1, 1, 1), strong |-> Leg(12, 11, 12, 2, 1, 3, 1),
           broken |-> Leg(9, 9, 13, 1, 9, 1, 2)]
MCStrike == {1, 2}
MCListed == MCStrike \X {"CE", "PE"}
MCMoves == {<<<<1, "CE">>, "strong">>, <<<<1, "CE">>, "broken">>}
MCSpots == {2, 4}

\* No position: two ticks, which with the first leaf fill the ring.  One: one
\* tick on a quiet market, or on a market that opens strong with a shift, a halt
\* or a kill.  Two: with a tick, or with such an event between them.
Opening(b) == [t \in MCListed |-> IF t = <<1, "CE">> THEN b ELSE "quiet"]
MCBounds == {[open |-> Opening("quiet"), ticks |-> 2, events |-> 0, fills |-> 0],
             [open |-> Opening("quiet"), ticks |-> 1, events |-> 0, fills |-> 1],
             [open |-> Opening("strong"), ticks |-> 1, events |-> 1, fills |-> 1],
             [open |-> Opening("strong"), ticks |-> 1, events |-> 0, fills |-> 2],
             [open |-> Opening("strong"), ticks |-> 0, events |-> 1, fills |-> 2]}
=============================================================================
