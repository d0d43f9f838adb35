------------------------------ MODULE MCHandle ------------------------------
(***************************************************************************)
(* Handle.tla for TLC.  Two tasks are enough to pass a connection from one *)
(* to the other through the pool, or to want the same slot; of three, two  *)
(* may keep the third waiting, by holding both slots or by being first.    *)
(***************************************************************************)
EXTENDS Handle, TLC

Symmetry == Permutations(Tasks) \cup Permutations(Conns)

=============================================================================
