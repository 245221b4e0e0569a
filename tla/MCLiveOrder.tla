---------------------------- MODULE MCLiveOrder ----------------------------
(***************************************************************************)
(* A quantity of two, so that partial fills exist, up to three SELL orders *)
(* and two broker failures, and an event of another order on the stream.   *)
(***************************************************************************)
EXTENDS LiveOrder, TLC
=============================================================================
