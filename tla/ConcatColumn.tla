---------------------------- MODULE ConcatColumn ----------------------------
(***************************************************************************)
(* A column made of the columns of several blocks (types/column/concat.rs),*)
(* as fetch_all returns it.  `data` holds the chunks, of which only their  *)
(* numbers of rows matter here, and `index` the number of rows before each *)
(* chunk and, last, that of all rows.  at() finds the chunk of a row by    *)
(* binary search; chunks may be empty, as every select sends an empty      *)
(* header block first.  Positions count from 0, as in the code.            *)
(***************************************************************************)
EXTENDS Integers, SequencesExt

CONSTANTS
  MaxChunks,  \* bound: blocks of one reply
  MaxSize     \* bound: rows of a block

ASSUME BoundsAssumption == MaxChunks \in Nat \ {0} /\ MaxSize \in Nat

VARIABLES
  chunks,     \* data.len()
  size,       \* size[k] = data[k].len()
  index,      \* the field `index`, of chunks + 1 elements
  pc,         \* "build", "ready", "search", "done" or "panicked"
  row,        \* the argument of at()
  lo, hi,     \* locals of find_chunk
  chunk, offset  \* the row of `data` that at() returns

vars == <<chunks, size, index, pc, row, lo, hi, chunk, offset>>

Length == index[chunks]                   \* len()

Init ==
  /\ chunks = 0 /\ size = [k \in {} |-> 0] /\ index = [k \in 0..0 |-> 0]
  /\ pc = "build"
  /\ row = 0 /\ lo = 0 /\ hi = 0 /\ chunk = 0 /\ offset = 0

(* One turn of the loop of build_index.                                    *)
Accumulate_forgets(acc, n) == n
Accumulate(acc, n) == acc + n

AddChunk(n) ==
  /\ pc = "build" /\ chunks < MaxChunks
  /\ chunks' = chunks + 1
  /\ size' = [k \in 0..chunks |-> IF k = chunks THEN n ELSE size[k]]
  /\ index' = [k \in 0..chunks + 1 |->
                 IF k = chunks + 1 THEN Accumulate(index[chunks], n) ELSE index[k]]
  /\ UNCHANGED <<pc, row, lo, hi, chunk, offset>>

(* concat() panics without a chunk, so the column that exists has one.     *)
Concat ==
  /\ pc = "build" /\ chunks > 0
  /\ pc' = "ready"
  /\ UNCHANGED <<chunks, size, index, row, lo, hi, chunk, offset>>

(* at(): a caller may ask for the row after the last one, by mistake.      *)
At(ix) ==
  /\ pc \in {"ready", "done"}
  /\ pc' = "search"
  /\ row' = ix /\ lo' = 0 /\ hi' = chunks
  /\ UNCHANGED <<chunks, size, index, chunk, offset>>

-----------------------------------------------------------------------------
(* find_chunk, one turn of the loop at a time                              *)

Mid == lo + (hi - lo) \div 2

Looking == pc = "search" /\ lo < hi
EmptyAt(k) == index[k] = index[k + 1]
IsLeftOf_late(k) == row + 1 < index[k]
IsLeftOf(k) == row < index[k]
After_same(k) == k
After(k) == k + 1
IsRightOf_early(k) == row >= index[k]
IsRightOf(k) == row >= index[k + 1]

Narrow(newLo, newHi) ==
  /\ lo' = newLo /\ hi' = newHi
  /\ UNCHANGED <<chunks, size, index, pc, row, chunk, offset>>

(* data[found].at(row - index[found]): a chunk panics on a row it has not. *)
Read(found) ==
  /\ chunk' = found /\ offset' = row - index[found]
  /\ pc' = IF row - index[found] < size[found] THEN "done" ELSE "panicked"
  /\ UNCHANGED <<chunks, size, index, row, lo, hi>>

SkipEmpty == Looking /\ EmptyAt(lo) /\ Narrow(After(lo), hi)
GoLeft    == Looking /\ ~EmptyAt(lo) /\ IsLeftOf(Mid) /\ Narrow(lo, Mid)
GoRight   == Looking /\ ~EmptyAt(lo) /\ ~IsLeftOf(Mid) /\ IsRightOf(Mid) /\ Narrow(After(Mid), hi)
Found     == Looking /\ ~EmptyAt(lo) /\ ~IsLeftOf(Mid) /\ ~IsRightOf(Mid) /\ Read(Mid)
FallOff   == pc = "search" /\ lo >= hi /\ Read(0)

Next ==
  \/ \E n \in 0..MaxSize : AddChunk(n)
  \/ Concat
  \/ \E ix \in 0..Length : At(ix)
  \/ SkipEmpty \/ GoLeft \/ GoRight \/ Found \/ FallOff

Spec == Init /\ [][Next]_vars

(* A loop that can take its next turn takes it.                            *)
FairSpec == Spec /\ WF_vars(SkipEmpty \/ GoLeft \/ GoRight \/ Found \/ FallOff)

-----------------------------------------------------------------------------
(* Properties                                                              *)

(* The fields and locals keep their types.                                 *)
TypeOK ==
  /\ chunks \in 0..MaxChunks
  /\ size \in [0..chunks - 1 -> Nat]
  /\ index \in [0..chunks -> Nat]
  /\ pc \in {"build", "ready", "search", "done", "panicked"}
  /\ row \in Nat /\ lo \in 0..chunks /\ hi \in 0..chunks
  /\ chunk \in 0..chunks /\ offset \in Nat

(* at() answers exactly for the rows that exist, with a row of `data` that *)
(* has as many rows before it as its number says, also when empty chunks   *)
(* share a boundary; a row past the end panics and reads no other row.     *)
AtIsExact ==
  /\ index[0] = 0 /\ \A k \in 0..chunks - 1 : index[k + 1] = index[k] + size[k]
  /\ pc = "done" => /\ row < Length /\ chunk < chunks
                    /\ offset < size[chunk] /\ row = index[chunk] + offset
  /\ pc = "panicked" => row >= Length

(* The rows of all chunks laid end to end.                                 *)
RowsOf(k) == [i \in 1..size[k] |-> <<k, i - 1>>]
AllRows == FlattenSeq([k \in 1..chunks |-> RowsOf(k - 1)])

(* What at() returns is the row that has this number in the concatenation, *)
(* and len() is the length of the concatenation.                           *)
EndToEnd ==
  /\ pc # "build" => Length = Len(AllRows)
  /\ pc = "done" => <<chunk, offset>> = AllRows[row + 1]

(* find_chunk ends.                                                        *)
SearchEnds == pc = "search" ~> pc # "search"
=============================================================================
