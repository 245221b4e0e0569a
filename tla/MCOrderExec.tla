---------------------------- MODULE MCOrderExec ----------------------------
(***************************************************************************)
(* Small instances of OrderExec for TLC: two indexes, threads and signals  *)
(* with a failure for the safety properties (a capital that two premiums   *)
(* of 2 exceed and 1 and 2 do not), one thread and three signals for the   *)
(* wait in the queue, and one index for the runs that refute a claim.      *)
(***************************************************************************)
EXTENDS OrderExec, TLC

\* Neither the indexes nor the two sides are told apart by any definition.
Symmetry == Permutations(Index) \cup Permutations(Side)
=============================================================================
