---------------------------- MODULE MCAllocator ----------------------------
(***************************************************************************)
(* A pool of two threads on three underlyings (one reserved index more     *)
(* than the two traded, so that both caps can refuse), room for two        *)
(* reservations and a capital that two premiums of 3 exceed.               *)
(***************************************************************************)
EXTENDS Allocator, TLC
=============================================================================
