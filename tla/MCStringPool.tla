---------------------------- MODULE MCStringPool ----------------------------
(***************************************************************************)
(* StringPool.tla for TLC: chunks of three bytes, and strings that leave   *)
(* room, fill a chunk, are longer than one, or are empty.                  *)
(***************************************************************************)
EXTENDS StringPool

=============================================================================
