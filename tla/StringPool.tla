----------------------------- MODULE StringPool -----------------------------
(***************************************************************************)
(* The strings of a column (types/column/string_pool.rs) lie one behind    *)
(* the other in chunks of bytes.  A pointer says where each one is, and    *)
(* get() reads there without a check, so allocate() alone is responsible   *)
(* that pointers stay inside their chunk and strings do not overlap.  The  *)
(* bytes themselves are left out: they are written through the slice that  *)
(* allocate() returns, and only there.                                     *)
(*                                                                         *)
(* Chunks and strings are numbered from 1, bytes from 0.                   *)
(***************************************************************************)
EXTENDS Integers, Sequences

CONSTANTS
  capacity,       \* argument of with_capacity
  AVG_STR_SIZE,   \* 80 in the code
  MaxStrings,     \* bound: strings allocated
  MaxLen          \* bound: length of a string

ASSUME SizesAssumption ==
  capacity \in Nat /\ AVG_STR_SIZE \in Nat /\ MaxStrings \in Nat /\ MaxLen \in Nat

VARIABLES
  chunks,    \* the lengths of the chunks
  pointers,  \* Vec<StringPtr>
  position,  \* first free byte of the last chunk
  size       \* argument of the running call of allocate(), None between calls

vars == <<chunks, pointers, position, size>>

None == -1
StringPtr == [chunk : Nat, shift : Nat, len : Nat]

Init == chunks = <<>> /\ pointers = <<>> /\ position = 0 /\ size = None

(* The length of the last chunk less the position, in unsigned numbers.    *)
free_space_whole == IF chunks = <<>> THEN 0 ELSE chunks[Len(chunks)]
free_space == IF chunks = <<>> THEN 0 ELSE chunks[Len(chunks)] - position

NoRoom_unchecked == chunks = <<>>
NoRoom == free_space < size \/ chunks = <<>>

(* max(self.capacity * AVG_STR_SIZE, size)                                 *)
ChunkLen_usual == capacity * AVG_STR_SIZE
ChunkLen == IF capacity * AVG_STR_SIZE >= size THEN capacity * AVG_STR_SIZE ELSE size

-----------------------------------------------------------------------------
(* A string arrives: by push, from a list, or from a packet.               *)
Allocate(n) ==
  /\ size = None /\ Len(pointers) < MaxStrings
  /\ size' = n
  /\ UNCHANGED <<chunks, pointers, position>>

(* allocate() adds a chunk and calls itself again.                         *)
Reserve ==
  /\ size # None /\ NoRoom
  /\ position' = 0
  /\ chunks' = Append(chunks, ChunkLen)
  /\ UNCHANGED <<pointers, size>>

Advance_restart == size
Advance == position + size

(* try_allocate() hands out the bytes behind the position.                 *)
TryAllocate ==
  /\ size # None /\ ~NoRoom
  /\ pointers' = Append(pointers, [chunk |-> Len(chunks), shift |-> position, len |-> size])
  /\ position' = Advance
  /\ size' = None
  /\ UNCHANGED chunks

Next == (\E n \in 0..MaxLen : Allocate(n)) \/ Reserve \/ TryAllocate

Spec == Init /\ [][Next]_vars

-----------------------------------------------------------------------------
(* Properties                                                              *)

(* The fields keep their types; position is never past the end of the last *)
(* chunk, so that the unsigned subtraction of free_space() is exact.       *)
TypeOK ==
  /\ chunks \in Seq(Nat)
  /\ pointers \in Seq(StringPtr)
  /\ size \in {None} \cup 0..MaxLen
  /\ position \in Nat
  /\ free_space >= 0

(* get() reads inside one chunk that exists, and no byte it reads is one   *)
(* of an earlier or later string.                                          *)
ReadsOwnBytes ==
  /\ \A i \in 1..Len(pointers) :
       LET p == pointers[i]
       IN  p.chunk \in 1..Len(chunks) /\ p.shift + p.len <= chunks[p.chunk]
  /\ \A i, j \in 1..Len(pointers) :
       i < j /\ pointers[i].chunk = pointers[j].chunk
         => pointers[i].shift + pointers[i].len <= pointers[j].shift

(* The chunk that a call of allocate() adds has room for the string, so    *)
(* its call of itself is the last.                                         *)
ReservesOnce == [][Reserve => ~NoRoom']_vars
=============================================================================
