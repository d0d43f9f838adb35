------------------------------- MODULE MCPool -------------------------------
(***************************************************************************)
(* Pool.tla for TLC: three tasks are enough for two of them to race while  *)
(* a third waits; Max = 2 lets opens, idle and held connections coexist.   *)
(***************************************************************************)
EXTENDS Pool, TLC

Symmetry == Permutations(Tasks)

=============================================================================
