------------------------------ MODULE MCBlocks ------------------------------
(***************************************************************************)
(* Blocks.tla for TLC: a nested, a low-cardinality and a plain column, and *)
(* rows that name them all, or only some of them.                          *)
(***************************************************************************)
EXTENDS Blocks

MCRows == {<<"n", "f">>, <<"f">>, <<"f", "d", "n">>}
MCEvenRows == {<<"d", "f">>}
=============================================================================
