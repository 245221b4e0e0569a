----------------------------- MODULE MCSession -----------------------------
EXTENDS Session

C(e, s, t, k) == [expiry |-> e, strike |-> s, type |-> t, key |-> k]

\* The options expiring on day 1, still listed on day 2, and those expiring on
\* day 2; and a list that has not been renewed.
MCOld == {C(1, 2, "CE", "c1"), C(1, 2, "PE", "p1")}
MCNew == {C(2, 2, "CE", "c2"), C(2, 4, "CE", "d2"), C(2, 4, "PE", "p2")}
MCListing == {MCOld \cup MCNew, MCOld}
MCSpots == {3}
MCTriggers == <<"market_open", "market_close", "daily_reset">>

B(d, r, c, f, o) == [days |-> d, reports |-> r, cmds |-> c, faults |-> f, outages |-> o,
                     malformed |-> {}, refused |-> {}]
\* Three reports, the first malformed and the second refused.
MCPoisoned == [B(1, 3, 0, 0, 0) EXCEPT !.malformed = {1}, !.refused = {2}]
MCBounds == {B(2, 1, 0, 1, 0), B(1, 2, 0, 0, 1), B(1, 0, 2, 0, 0), MCPoisoned}
MCOneDay == {B(1, 0, 0, 0, 0)}
=============================================================================
