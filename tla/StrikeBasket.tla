---------------------------- MODULE StrikeBasket ----------------------------
(***************************************************************************)
(* What init builds for one index from the broker's answers                *)
(* (engines/init/strike_basket_builder.py): the strike nearest to the      *)
(* spot, the nearest expiry, the option chain of the subscription window,  *)
(* the trading basket and the tokens to subscribe.                         *)
(*                                                                         *)
(* A contract is a record [expiry, strike, type, key]; expiries are days.  *)
(* Its key is the token.  Lot sizes and the other metadata are left out.   *)
(***************************************************************************)
EXTENDS Integers, FiniteSets, FiniteSetsExt

CONSTANTS strike_step, window, basket_range   \* the index's configuration

ASSUME StrikeBasketAssumption ==
  strike_step \in Nat \ {0} /\ window \in Nat /\ basket_range \in Nat

NoExpiry == 0
NoSpot == 0
NoLeaf == "none"

\* round(spot / strike_step) * strike_step, a half to the even multiple.
compute_atm(spot) ==
  LET q == spot \div strike_step
      twice == 2 * (spot % strike_step)
      up == twice > strike_step \/ (twice = strike_step /\ q % 2 = 1)
  IN (IF up THEN q + 1 ELSE q) * strike_step

\* The slip: the first expiry listed, whatever the date.
FirstExpiry(contracts, today) ==
  IF contracts = {} THEN NoExpiry ELSE Min({c.expiry : c \in contracts})

discover_nearest_expiry(contracts, today) ==
  LET future == {c.expiry : c \in {x \in contracts : x.expiry >= today}}
  IN IF future = {} THEN NoExpiry ELSE Min(future)

strike_list(atm) == {atm + i * strike_step : i \in -window..window}

filter_atm_window_strikes(contracts, expiry, atm) ==
  {c \in contracts : c.expiry = expiry /\ c.strike \in strike_list(atm)}

\* Per strike and side the contract's token, or no leaf.
build_option_chain_template(inWindow, strikes) ==
  [s \in strikes |-> [side \in {"CE", "PE"} |->
     LET found == {c \in inWindow : c.strike = s /\ c.type = side}
     IN IF found = {} THEN NoLeaf ELSE (CHOOSE c \in found : TRUE).key]]

\* ATM and the strikes in the money: lower ones for calls, higher for puts.
build_trading_basket(chain, atm) ==
  LET toks(side, dir) ==
        {chain[s][side] : s \in DOMAIN chain
                            \cap {atm + dir * i * strike_step : i \in 0..basket_range}}
  IN (toks("CE", -1) \cup toks("PE", 1)) \ {NoLeaf}

NotBuilt == [expiry |-> NoExpiry, chain |-> {}, basket |-> {}]

\* build_for_index with what the broker has reported; NotBuilt without a price
\* or an expiry to trade.
build_for_index(spot, contracts, today) ==
  LET atm == compute_atm(spot)
      expiry == discover_nearest_expiry(contracts, today)
      listed == filter_atm_window_strikes(contracts, expiry, atm)
      chain == build_option_chain_template(listed, strike_list(atm))
  IN IF spot = NoSpot \/ expiry = NoExpiry THEN NotBuilt
     ELSE [expiry |-> expiry, chain |-> {c.key : c \in listed},
           basket |-> build_trading_basket(chain, atm)]
=============================================================================
