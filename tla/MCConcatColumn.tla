--------------------------- MODULE MCConcatColumn ---------------------------
(***************************************************************************)
(* ConcatColumn.tla for TLC.                                               *)
(***************************************************************************)
EXTENDS ConcatColumn
=============================================================================
