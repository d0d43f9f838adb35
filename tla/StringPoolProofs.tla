-------------------------- MODULE StringPoolProofs --------------------------
(***************************************************************************)
(* The unchecked reads of StringPool.tla stay inside their own string, for *)
(* any capacity and any lengths.  What ReadsOwnBytes lacks to be inductive *)
(* is that nothing in the last chunk lies behind `position`.               *)
(***************************************************************************)
EXTENDS StringPool, TLAPS

BeforePosition ==
  \A i \in 1..Len(pointers) :
    pointers[i].chunk = Len(chunks) => pointers[i].shift + pointers[i].len <= position

IInv == TypeOK /\ ReadsOwnBytes /\ BeforePosition

-----------------------------------------------------------------------------
(* An empty pool has nothing to read.                                      *)
LEMMA InitIInv == Init => IInv
BY SizesAssumption
   DEF Init, IInv, TypeOK, ReadsOwnBytes, BeforePosition, free_space, None

(* A new chunk has no pointers into it yet.                                *)
LEMMA ReserveIInv ==
  ASSUME IInv, Reserve
  PROVE  IInv'
<1> USE DEF IInv
<1>1. /\ chunks \in Seq(Nat) /\ pointers \in Seq(StringPtr)
      /\ size \in Nat /\ size \in 0..MaxLen
      /\ position' = 0 /\ size' = size /\ pointers' = pointers
      /\ chunks' = Append(chunks, ChunkLen)
  BY SizesAssumption DEF Reserve, TypeOK, None
<1>2. ChunkLen \in Nat
  BY <1>1, SizesAssumption DEF ChunkLen
<1>3. /\ chunks' \in Seq(Nat) /\ Len(chunks') = Len(chunks) + 1 /\ chunks' # <<>>
      /\ \A c \in 1..Len(chunks) : chunks'[c] = chunks[c]
      /\ chunks'[Len(chunks) + 1] = ChunkLen
  BY <1>1, <1>2
<1>4. TypeOK'
  BY <1>1, <1>2, <1>3 DEF TypeOK, free_space
<1>5. ASSUME NEW i \in 1..Len(pointers)
      PROVE  pointers[i].chunk \in 1..Len(chunks)
  BY <1>5 DEF ReadsOwnBytes
<1>6. ReadsOwnBytes'
  BY <1>1, <1>3, <1>5 DEF ReadsOwnBytes
<1>7. BeforePosition'
  BY <1>1, <1>3, <1>5 DEF BeforePosition
<1> QED
  BY <1>4, <1>6, <1>7

(* A chunk just added is as long as the string that asked for it.          *)
LEMMA RoomAfterReserve ==
  ASSUME TypeOK, Reserve
  PROVE  ~NoRoom'
<1>1. /\ chunks \in Seq(Nat) /\ size \in Nat
      /\ position' = 0 /\ size' = size /\ chunks' = Append(chunks, ChunkLen)
  BY SizesAssumption DEF Reserve, TypeOK, None
<1>2. ChunkLen \in Nat /\ ChunkLen >= size
  BY <1>1, SizesAssumption DEF ChunkLen
<1>3. chunks' # <<>> /\ chunks'[Len(chunks')] = ChunkLen
  BY <1>1, <1>2
<1> QED
  BY <1>1, <1>2, <1>3 DEF NoRoom, free_space

(* The bytes handed out lie behind every string of the chunk.              *)
LEMMA TryAllocateIInv ==
  ASSUME IInv, TryAllocate
  PROVE  IInv'
<1> USE DEF IInv
<1> DEFINE n == Len(pointers)
           new == [chunk |-> Len(chunks), shift |-> position, len |-> size]
<1>1. /\ chunks \in Seq(Nat) /\ pointers \in Seq(StringPtr)
      /\ size \in Nat /\ position \in Nat
      /\ position' = position + size /\ size' = None /\ chunks' = chunks
      /\ pointers' = Append(pointers, new)
  BY SizesAssumption DEF TryAllocate, Advance, TypeOK, None
<1>2. chunks # <<>> /\ size <= chunks[Len(chunks)] - position
  BY <1>1 DEF TryAllocate, NoRoom, free_space, TypeOK
<1>3. /\ Len(chunks) \in Nat /\ Len(chunks) \in 1..Len(chunks)
      /\ chunks[Len(chunks)] \in Nat
  BY <1>1, <1>2
<1>4. new \in StringPtr
  BY <1>1, <1>3 DEF StringPtr
<1>5. /\ pointers' \in Seq(StringPtr) /\ Len(pointers') = n + 1 /\ n \in Nat
      /\ \A i \in 1..n : pointers'[i] = pointers[i] /\ pointers[i] \in StringPtr
      /\ pointers'[n + 1] = new
  BY <1>1, <1>4
<1>6. TypeOK'
  BY <1>1, <1>2, <1>3, <1>5 DEF TypeOK, free_space
<1>7. \A i \in 1..n + 1 : /\ pointers'[i].chunk \in 1..Len(chunks')
                          /\ pointers'[i].shift + pointers'[i].len <= chunks'[pointers'[i].chunk]
  <2>1. \A i \in 1..n : /\ pointers'[i].chunk \in 1..Len(chunks')
                        /\ pointers'[i].shift + pointers'[i].len <= chunks'[pointers'[i].chunk]
    BY <1>1, <1>5 DEF ReadsOwnBytes
  <2>2. new.chunk \in 1..Len(chunks) /\ new.shift + new.len <= chunks[new.chunk]
    BY <1>1, <1>2, <1>3
  <2> QED
    BY <1>1, <1>5, <2>1, <2>2
<1>8. ASSUME NEW i \in 1..n + 1, NEW j \in 1..n + 1, i < j,
             pointers'[i].chunk = pointers'[j].chunk
      PROVE  pointers'[i].shift + pointers'[i].len <= pointers'[j].shift
  <2>1. CASE j \in 1..n
    BY <1>5, <1>8, <2>1 DEF ReadsOwnBytes
  <2>2. CASE j = n + 1
    <3>1. i \in 1..n /\ pointers'[j] = new
      BY <1>5, <1>8, <2>2
    <3>2. pointers[i].chunk = Len(chunks)
      BY <1>5, <1>8, <3>1
    <3> QED
      BY <1>5, <3>1, <3>2 DEF BeforePosition
  <2> QED
    BY <1>5, <2>1, <2>2
<1>9. ReadsOwnBytes'
  BY <1>5, <1>7, <1>8 DEF ReadsOwnBytes
<1>10. BeforePosition'
  <2> SUFFICES ASSUME NEW i \in 1..n + 1, pointers'[i].chunk = Len(chunks)
               PROVE  pointers'[i].shift + pointers'[i].len <= position + size
    BY <1>1, <1>5 DEF BeforePosition
  <2>1. CASE i \in 1..n
    <3>1. pointers[i].shift + pointers[i].len <= position
      BY <1>5, <2>1 DEF BeforePosition
    <3>2. pointers[i].shift \in Nat /\ pointers[i].len \in Nat
      BY <1>5, <2>1 DEF StringPtr
    <3> QED
      BY <1>1, <1>5, <2>1, <3>1, <3>2
  <2>2. CASE i = n + 1
    BY <1>1, <1>5, <2>2
  <2> QED
    BY <1>5, <2>1, <2>2
<1> QED
  BY <1>6, <1>9, <1>10

(* Every step keeps the invariant.                                         *)
LEMMA NextIInv == IInv /\ [Next]_vars => IInv'
<1> SUFFICES ASSUME IInv, [Next]_vars
             PROVE  IInv'
  OBVIOUS
<1>1. ASSUME NEW n \in 0..MaxLen, Allocate(n)
      PROVE  IInv'
  BY <1>1 DEF Allocate, IInv, TypeOK, ReadsOwnBytes, BeforePosition, free_space
<1>2. CASE UNCHANGED vars
  BY <1>2 DEF vars, IInv, TypeOK, ReadsOwnBytes, BeforePosition, free_space
<1> QED
  BY <1>1, <1>2, ReserveIInv, TryAllocateIInv DEF Next

(* The pool keeps its types, and free_space() never wraps.                 *)
THEOREM PoolTypes == Spec => []TypeOK
<1>1. IInv => TypeOK
  BY DEF IInv
<1> QED
  BY InitIInv, NextIInv, <1>1, PTL DEF Spec

(* Whatever is allocated, get() and get_unchecked() read the bytes of the  *)
(* string they are asked for, inside one chunk.                            *)
THEOREM UncheckedReadsSafe == Spec => []ReadsOwnBytes
<1>1. IInv => ReadsOwnBytes
  BY DEF IInv
<1> QED
  BY InitIInv, NextIInv, <1>1, PTL DEF Spec

(* allocate() calls itself at most once: a chunk that it adds has room for *)
(* the string it was added for.                                            *)
THEOREM AllocateBounded == Spec => ReservesOnce
<1>1. IInv /\ [Next]_vars => [Reserve => ~NoRoom']_vars
  BY RoomAfterReserve DEF IInv
<1> QED
  BY InitIInv, NextIInv, <1>1, PTL DEF Spec, ReservesOnce
=============================================================================
