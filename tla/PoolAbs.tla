------------------------------ MODULE PoolAbs ------------------------------
(***************************************************************************)
(* What the connection pool promises to its callers, without saying how.   *)
(*                                                                         *)
(* A caller asks for a handle, waits, and is either granted one of the     *)
(* spare connections or refused.  Waiting callers are the ones who open    *)
(* connections: there is no background thread.  The promises:              *)
(*                                                                         *)
(*   - connections being opened, spare and held together never exceed Max; *)
(*   - a grant hands over a spare connection, and hands it to one caller;  *)
(*   - a caller is refused only after an attempt it drove itself failed,   *)
(*     and one failed attempt refuses at most one caller.                  *)
(*                                                                         *)
(* Pool.tla, the translation of src/pool/mod.rs, is shown to implement it. *)
(***************************************************************************)
EXTENDS Naturals, FiniteSets

CONSTANTS Tasks,   \* the callers
          Max      \* pool_max

VARIABLES phase,    \* phase[p]: "out", "waiting" or "holding"
          opening,  \* connections being opened
          spare,    \* connections open and held by nobody
          failed    \* waiting callers who saw an attempt fail

vars == <<phase, opening, spare, failed>>

Holding == {p \in Tasks : phase[p] = "holding"}

(* Every connection that counts against the limit. *)
Total == opening + spare + Cardinality(Holding)

Init ==
  /\ phase = [p \in Tasks |-> "out"]
  /\ opening = 0
  /\ spare = 0
  /\ failed = {}

Request(p) ==
  /\ phase[p] = "out"
  /\ phase' = [phase EXCEPT ![p] = "waiting"]
  /\ UNCHANGED <<opening, spare, failed>>

Cancel(p) ==
  /\ phase[p] = "waiting"
  /\ phase' = [phase EXCEPT ![p] = "out"]
  /\ UNCHANGED <<opening, spare, failed>>

Open(p) ==
  /\ phase[p] = "waiting"
  /\ Total < Max
  /\ opening' = opening + 1
  /\ UNCHANGED <<phase, spare, failed>>

Opened(p) ==
  /\ phase[p] = "waiting"
  /\ opening > 0
  /\ opening' = opening - 1
  /\ spare' = spare + 1
  /\ UNCHANGED <<phase, failed>>

OpenFailed(p) ==
  /\ phase[p] = "waiting"
  /\ opening > 0
  /\ opening' = opening - 1
  /\ failed' = failed \cup {p}
  /\ UNCHANGED <<phase, spare>>

Grant(p) ==
  /\ phase[p] = "waiting"
  /\ spare > 0
  /\ spare' = spare - 1
  /\ phase' = [phase EXCEPT ![p] = "holding"]
  /\ failed' = failed \ {p}
  /\ UNCHANGED opening

Refuse(p) ==
  /\ phase[p] = "waiting"
  /\ p \in failed
  /\ phase' = [phase EXCEPT ![p] = "out"]
  /\ failed' = failed \ {p}
  /\ UNCHANGED <<opening, spare>>

Keep(p) ==
  /\ phase[p] = "holding"
  /\ phase' = [phase EXCEPT ![p] = "out"]
  /\ spare' = spare + 1
  /\ UNCHANGED <<opening, failed>>

Discard(p) ==
  /\ phase[p] = "holding"
  /\ phase' = [phase EXCEPT ![p] = "out"]
  /\ UNCHANGED <<opening, spare, failed>>

Next == \E p \in Tasks :
          \/ Request(p) \/ Cancel(p)
          \/ Open(p) \/ Opened(p) \/ OpenFailed(p)
          \/ Grant(p) \/ Refuse(p)
          \/ Keep(p) \/ Discard(p)

Spec == Init /\ [][Next]_vars

=============================================================================
