---------------------------- MODULE MCTransport ----------------------------
(***************************************************************************)
(* Transport.tla for TLC.  Six requests let a call with its ping follow   *)
(* an abandoned one on the same connection; two packets before the last    *)
(* let a reply be abandoned before, inside and after its blocks.           *)
(***************************************************************************)
EXTENDS Transport

=============================================================================
