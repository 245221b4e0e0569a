---------------------------- MODULE MCMarketFlow ----------------------------
EXTENDS MarketFlow

MCBasket == {{"a"}, {"b"}}

\* Many shifts without a frame, many frames without a shift, and some of each,
\* with and without a restart.
MCBounds ==
  {[frames |-> 0, toks |-> {}, shifts |-> 4, stops |-> 0],
   [frames |-> 3, toks |-> {"a", "unknown"}, shifts |-> 0, stops |-> 0],
   [frames |-> 1, toks |-> {"a"}, shifts |-> 2, stops |-> 0],
   [frames |-> 1, toks |-> {"a", "spot"}, shifts |-> 1, stops |-> 1]}
=============================================================================
