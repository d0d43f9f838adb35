------------------------- MODULE ConcatColumnProofs -------------------------
(***************************************************************************)
(* at() of a concatenated column is exact for any number of chunks of any  *)
(* sizes.  The invariant adds to AtIsExact what the loop of find_chunk     *)
(* keeps: the row lies between the boundaries `lo` and `hi`.  The last     *)
(* conjunct bounds a chunk by the whole column: a row found in a chunk     *)
(* exists, and one past the end is past the end of the first chunk, too,   *)
(* so that the `0` that ends find_chunk makes it panic there.              *)
(*                                                                         *)
(* That the offsets are those of the chunks laid end to end is shown by    *)
(* induction over the chunks: a smallest number of them for which it fails *)
(* would not be 0 and would follow one for which it holds.                 *)
(***************************************************************************)
EXTENDS ConcatColumn, WellFoundedInduction, TLAPS

Bracketed ==
  /\ pc # "build" => chunks > 0
  /\ pc = "search" => /\ lo <= hi /\ index[lo] <= row
                      /\ row < Length => row < index[hi]

Within == \A k \in 0..chunks : index[k] <= Length

IInv == TypeOK /\ AtIsExact /\ Bracketed /\ Within

-----------------------------------------------------------------------------
(* The column is built empty.                                              *)
LEMMA InitIInv == Init => IInv
BY BoundsAssumption
   DEF Init, IInv, TypeOK, AtIsExact, Bracketed, Within, Length

(* A chunk is added with the sum of the sizes before it.                   *)
LEMMA AddChunkIInv ==
  ASSUME IInv, NEW n \in 0..MaxSize, AddChunk(n)
  PROVE  IInv'
<1> USE DEF IInv
<1>1. /\ n \in Nat /\ chunks \in Nat /\ chunks' = chunks + 1
      /\ pc = "build" /\ pc' = "build"
      /\ \A k \in 0..chunks : index'[k] = index[k]
      /\ index'[chunks + 1] = index[chunks] + n
      /\ \A k \in 0..chunks - 1 : size'[k] = size[k]
      /\ size'[chunks] = n
  BY BoundsAssumption DEF AddChunk, Accumulate, TypeOK
<1>2. TypeOK'
  BY <1>1, BoundsAssumption DEF AddChunk, Accumulate, TypeOK
<1>3. AtIsExact'
  <2>1. index'[0] = 0
    BY <1>1 DEF AtIsExact
  <2>2. ASSUME NEW k \in 0..chunks' - 1
        PROVE  index'[k + 1] = index'[k] + size'[k]
    <3>1. CASE k = chunks
      BY <1>1, <3>1
    <3>2. CASE k \in 0..chunks - 1
      <4>1. k \in 0..chunks /\ k + 1 \in 0..chunks
        BY <1>1, <3>2
      <4> QED
        BY <1>1, <3>2, <4>1 DEF AtIsExact
    <3> QED
      BY <1>1, <3>1, <3>2
  <2> QED
    BY <1>1, <2>1, <2>2 DEF AtIsExact
<1>4. Bracketed'
  BY <1>1 DEF Bracketed
<1>5. Within'
  <2>1. index[chunks] \in Nat /\ \A k \in 0..chunks : index[k] \in Nat
    BY <1>1 DEF TypeOK
  <2>2. ASSUME NEW k \in 0..chunks + 1
        PROVE  index'[k] <= index'[chunks + 1]
    <3>1. CASE k = chunks + 1
      BY <1>1, <2>1, <3>1
    <3>2. CASE k \in 0..chunks
      BY <1>1, <2>1, <3>2 DEF Within, Length
    <3> QED
      BY <1>1, <3>1, <3>2
  <2> QED
    BY <1>1, <2>2 DEF Within, Length
<1> QED
  BY <1>2, <1>3, <1>4, <1>5

(* `mid` lies inside the interval.                                         *)
LEMMA MidInside ==
  ASSUME TypeOK, Looking
  PROVE  Mid \in 0..chunks - 1 /\ lo <= Mid /\ Mid < hi
BY BoundsAssumption DEF TypeOK, Looking, Mid

(* A turn of the loop keeps the row between the boundaries.                *)
LEMMA NarrowIInv ==
  ASSUME IInv, SkipEmpty \/ GoLeft \/ GoRight
  PROVE  IInv'
<1> USE DEF IInv
<1>1. Looking /\ UNCHANGED <<chunks, size, index, pc, row, chunk, offset>>
  BY DEF SkipEmpty, GoLeft, GoRight, Narrow
<1>2. lo \in Nat /\ hi \in Nat /\ chunks \in Nat /\ hi <= chunks /\ row \in Nat
  BY DEF TypeOK
<1>3. Mid \in 0..chunks - 1 /\ lo <= Mid /\ Mid < hi
  BY <1>1, MidInside
<1>4. index[lo] <= row /\ (row < Length => row < index[hi]) /\ lo < hi
  BY <1>1 DEF Bracketed, Looking
<1>5. /\ lo' \in 0..chunks /\ hi' \in 0..chunks /\ lo' <= hi'
      /\ index[lo'] <= row /\ (row < Length => row < index[hi'])
  <2>1. CASE SkipEmpty
    BY <1>2, <1>4, <2>1 DEF SkipEmpty, EmptyAt, After, Narrow
  <2>2. CASE GoLeft
    BY <1>2, <1>3, <1>4, <2>2 DEF GoLeft, IsLeftOf, Narrow
  <2>3. CASE GoRight
    BY <1>2, <1>3, <1>4, <2>3 DEF GoRight, IsRightOf, After, Narrow
  <2> QED
    BY <2>1, <2>2, <2>3
<1>6. TypeOK'
  BY <1>1, <1>5 DEF TypeOK
<1>7. AtIsExact' /\ Within'
  BY <1>1 DEF AtIsExact, Within, Length
<1>8. Bracketed'
  BY <1>1, <1>5 DEF Bracketed, Length
<1> QED
  BY <1>6, <1>7, <1>8

(* The search reads a chunk that has the row, or has none to read.         *)
LEMMA ReadIInv ==
  ASSUME IInv, Found \/ FallOff
  PROVE  IInv'
<1> USE DEF IInv
<1>1. pc = "search" /\ UNCHANGED <<chunks, size, index, row, lo, hi>>
  BY DEF Found, FallOff, Read, Looking
<1>2. /\ chunks \in Nat /\ chunks > 0 /\ row \in Nat
      /\ \A k \in 0..chunks : index[k] \in Nat
      /\ \A k \in 0..chunks - 1 : size[k] \in Nat
  BY <1>1 DEF TypeOK, Bracketed
<1>3. CASE Found
  <2>1. Mid \in 0..chunks - 1
    BY <1>3, MidInside DEF Found
  <2>2. index[Mid] <= row /\ row < index[Mid + 1]
    <3>1. Mid \in 0..chunks /\ Mid + 1 \in 0..chunks
      BY <1>2, <2>1
    <3> QED
      BY <1>2, <1>3, <3>1 DEF Found, IsLeftOf, IsRightOf
  <2>3. index[Mid + 1] = index[Mid] + size[Mid]
    BY <2>1 DEF AtIsExact
  <2>4. index[Mid] \in Nat /\ size[Mid] \in Nat
    BY <1>2, <2>1
  <2>5. pc' = "done" /\ chunk' = Mid /\ offset' = row - index[Mid]
    BY <1>2, <1>3, <2>2, <2>3, <2>4 DEF Found, Read
  <2>6. row < Length
    <3>1. Mid + 1 \in 0..chunks
      BY <1>2, <2>1
    <3> QED
      BY <1>2, <2>2, <3>1 DEF Within, Length
  <2>7. TypeOK'
    <3>1. row - index[Mid] \in Nat /\ Mid \in 0..chunks
      BY <1>2, <2>1, <2>2, <2>4
    <3> QED
      BY <1>1, <2>5, <3>1 DEF TypeOK
  <2>8. AtIsExact'
    BY <1>1, <1>2, <2>1, <2>2, <2>3, <2>4, <2>5, <2>6 DEF AtIsExact, Length
  <2> QED
    BY <1>1, <2>5, <2>7, <2>8 DEF Bracketed, Within, Length
<1>4. CASE FallOff
  <2>1. row >= Length
    <3>1. lo \in Nat /\ hi \in Nat /\ lo >= hi /\ lo <= hi
      BY <1>1, <1>2, <1>4 DEF FallOff, Bracketed, TypeOK
    <3>2. lo = hi /\ index[lo] <= row /\ (row < Length => row < index[hi])
      BY <3>1, <1>1 DEF Bracketed
    <3>3. index[lo] \in Nat /\ Length \in Nat
      BY <1>2 DEF TypeOK, Length
    <3> QED
      BY <1>2, <3>2, <3>3
  <2>2. index[0] = 0 /\ index[0 + 1] = index[0] + size[0] /\ index[0 + 1] <= Length
    BY <1>2 DEF AtIsExact, Within
  <2>3. size[0] \in Nat /\ size[0] <= Length /\ Length \in Nat
    BY <1>2, <2>2 DEF Length
  <2>4. pc' = "panicked" /\ chunk' = 0 /\ offset' = row
    BY <1>2, <1>4, <2>1, <2>2, <2>3 DEF FallOff, Read
  <2>5. TypeOK'
    BY <1>1, <1>2, <2>4 DEF TypeOK
  <2> QED
    BY <1>1, <2>1, <2>4, <2>5 DEF AtIsExact, Bracketed, Within, Length
<1> QED
  BY <1>3, <1>4

(* concat() and the start of at().                                         *)
LEMMA StartIInv ==
  ASSUME IInv, Concat \/ \E ix \in 0..Length : At(ix)
  PROVE  IInv'
<1> USE DEF IInv
<1>1. chunks \in Nat /\ Length \in Nat /\ 0 \in 0..chunks /\ chunks \in 0..chunks
  BY BoundsAssumption DEF TypeOK, Length
<1>2. CASE Concat
  BY <1>2 DEF Concat, TypeOK, AtIsExact, Bracketed, Within, Length
<1>3. ASSUME NEW ix \in 0..Length, At(ix)
      PROVE  IInv'
  <2>1. /\ UNCHANGED <<chunks, size, index, chunk, offset>>
        /\ pc' = "search" /\ row' = ix /\ lo' = 0 /\ hi' = chunks
        /\ pc # "build"
    BY <1>3 DEF At
  <2>2. TypeOK'
    BY <1>1, <2>1 DEF TypeOK
  <2> QED
    BY <1>1, <2>1, <2>2 DEF AtIsExact, Bracketed, Within, Length
<1> QED
  BY <1>2, <1>3

(* Every step keeps the invariant.                                         *)
LEMMA NextIInv == IInv /\ [Next]_vars => IInv'
<1> SUFFICES ASSUME IInv, [Next]_vars
             PROVE  IInv'
  OBVIOUS
<1>1. CASE Next
  BY <1>1, AddChunkIInv, StartIInv, NarrowIInv, ReadIInv DEF Next
<1>2. CASE UNCHANGED vars
  BY <1>2 DEF vars, IInv, TypeOK, AtIsExact, Bracketed, Within, Length
<1> QED
  BY <1>1, <1>2

(* The fields and locals keep their types.                                 *)
THEOREM ColumnTypes == Spec => []TypeOK
<1>1. IInv => TypeOK
  BY DEF IInv
<1> QED
  BY InitIInv, NextIInv, <1>1, PTL DEF Spec

(* For any number of chunks and any sizes, at() returns the row that has   *)
(* the asked number in the concatenation, and panics beyond the last one.  *)
THEOREM ConcatExact == Spec => []AtIsExact
<1>1. IInv => AtIsExact
  BY DEF IInv
<1> QED
  BY InitIInv, NextIInv, <1>1, PTL DEF Spec

(* A turn of find_chunk ends the search or leaves fewer chunks to look at. *)
Narrows ==
  pc = "search" =>
    \/ pc' \in {"done", "panicked"}
    \/ pc' = "search" /\ hi' - lo' \in Nat /\ hi' - lo' < hi - lo

(* No step of a search is for nothing: the loop of find_chunk takes at     *)
(* most as many turns as there are chunks, also through empty ones.        *)
THEOREM SearchNarrows == Spec => [][Narrows]_vars
<1>1. ASSUME IInv, [Next]_vars
      PROVE  [Narrows]_vars
  <2>1. /\ lo \in Nat /\ hi \in Nat
        /\ Looking => Mid \in Nat /\ lo <= Mid /\ Mid < hi
    BY <1>1, MidInside, BoundsAssumption DEF IInv, TypeOK
  <2>2. CASE SkipEmpty
    BY <2>1, <2>2 DEF SkipEmpty, Looking, Narrow, After, Narrows
  <2>3. CASE GoLeft
    BY <2>1, <2>3 DEF GoLeft, Looking, Narrow, Narrows
  <2>4. CASE GoRight
    BY <2>1, <2>4 DEF GoRight, Looking, Narrow, After, Narrows
  <2>5. CASE Found \/ FallOff
    BY <2>5 DEF Found, FallOff, Read, Narrows
  <2>6. CASE Concat \/ (\E n \in 0..MaxSize : AddChunk(n)) \/ \E ix \in 0..Length : At(ix)
    BY <2>6 DEF Concat, AddChunk, At, Narrows
  <2> QED
    BY <1>1, <2>2, <2>3, <2>4, <2>5, <2>6 DEF Next
<1> QED
  BY InitIInv, NextIInv, <1>1, PTL DEF Spec

-----------------------------------------------------------------------------
(* Induction over the natural numbers, from a smallest counterexample.     *)
LEMMA Smallest ==
  ASSUME NEW T \in SUBSET Nat, T # {}
  PROVE  \E n \in T : \A m \in T : n <= m
<1>1. IsWellFoundedOn(OpToRel(<, Nat), Nat)
  BY NatLessThanWellFounded
<1>2. PICK n \in T : \A m \in T : <<m, n>> \notin OpToRel(<, Nat)
  BY <1>1, WFMin
<1>3. \A m \in T : ~(m < n)
  BY <1>2 DEF OpToRel
<1> QED
  BY <1>3

(* A set of numbers that has 0 and every successor has all of them.        *)
LEMMA Induction ==
  ASSUME NEW T, 0 \in T, \A n \in Nat : n \in T => n + 1 \in T
  PROVE  Nat \subseteq T
<1> SUFFICES ASSUME Nat \ T # {} PROVE FALSE
  OBVIOUS
<1>1. PICK n \in Nat \ T : \A m \in Nat \ T : n <= m
  BY Smallest
<1>2. n # 0 /\ n - 1 \in Nat /\ n - 1 \in T
  BY <1>1
<1> QED
  BY <1>1, <1>2

(* The equation of FlattenSeq's recursive function at i.                   *)
Joined(s, f, i) == IF i = 1 THEN s[i] ELSE f[i - 1] \o s[i]

(* Every prefix of a sequence of sequences has such a function.            *)
LEMMA Flattenings ==
  ASSUME NEW T, NEW s \in Seq(Seq(T)), NEW m \in 0..Len(s)
  PROVE  \E f \in [1..m -> Seq(T)] : \A i \in 1..m : f[i] = Joined(s, f, i)
<1> DEFINE Flattens(n, f) == \A i \in 1..n : f[i] = Joined(s, f, i)
           Exists(n) == \E f \in [1..n -> Seq(T)] : Flattens(n, f)
           Good == {n \in Nat : n <= Len(s) => Exists(n)}
<1>1. 0 \in Good
  <2>1. [i \in 1..0 |-> <<>>] \in [1..0 -> Seq(T)] /\ Flattens(0, [i \in 1..0 |-> <<>>])
    OBVIOUS
  <2> QED
    BY <2>1
<1>2. ASSUME NEW n \in Nat, n \in Good PROVE n + 1 \in Good
  <2>1. ASSUME n + 1 <= Len(s) PROVE Exists(n + 1)
    <3>1. PICK f \in [1..n -> Seq(T)] : Flattens(n, f)
      <4>1. n <= Len(s)
        BY <2>1
      <4> QED
        BY <1>2, <4>1
    <3> DEFINE last == Joined(s, f, n + 1)
               g    == [i \in 1..n + 1 |-> IF i = n + 1 THEN last ELSE f[i]]
    <3>2. last \in Seq(T)
      <4>1. s[n + 1] \in Seq(T) /\ (n + 1 # 1 => f[n + 1 - 1] \in Seq(T))
        BY <2>1
      <4> QED
        BY <4>1 DEF Joined
    <3> HIDE DEF last
    <3>3. g \in [1..n + 1 -> Seq(T)]
      BY <3>2
    <3>4. ASSUME NEW i \in 1..n + 1
          PROVE  g[i] = Joined(s, g, i)
      <4>1. i # 1 => i - 1 \in 1..n /\ g[i - 1] = f[i - 1]
        OBVIOUS
      <4>2. Joined(s, g, i) = Joined(s, f, i)
        BY <4>1 DEF Joined
      <4>3. CASE i = n + 1
        BY <4>2, <4>3 DEF last
      <4>4. CASE i # n + 1
        <5>1. i \in 1..n /\ g[i] = f[i]
          BY <4>4
        <5> QED
          BY <3>1, <4>2, <5>1
      <4> QED
        BY <4>3, <4>4
    <3> QED
      BY <3>3, <3>4
  <2> QED
    <3> HIDE DEF Exists
    <3> QED
      BY <2>1
<1>3. Nat \subseteq Good
  <2> HIDE DEF Good
  <2> QED
    BY <1>1, <1>2, Induction
<1>4. m \in Good /\ m <= Len(s)
  BY <1>3
<1> QED
  BY <1>4

(* A flattened sequence is the last of the flattened prefixes.             *)
LEMMA Flattened ==
  ASSUME NEW T, NEW s \in Seq(Seq(T)), s # <<>>
  PROVE  \E f : /\ FlattenSeq(s) = f[Len(s)]
                /\ \A i \in 1..Len(s) : f[i] = Joined(s, f, i)
<1> DEFINE n == Len(s)
           Extends(f) == f = [i \in 1..n |-> IF i = 1 THEN s[i] ELSE f[i - 1] \o s[i]]
           g == CHOOSE f : Extends(f)
<1>1. n \in 0..Len(s) /\ n # 0
  OBVIOUS
<1>2. PICK f \in [1..n -> Seq(T)] : \A i \in 1..n : f[i] = Joined(s, f, i)
  BY <1>1, Flattenings
<1>3. Extends(f)
  BY <1>2 DEF Joined
<1>4. Extends(g)
  <2> HIDE DEF Extends
  <2> QED
    BY <1>3
<1>5. FlattenSeq(s) = g[n]
  BY <1>1 DEF FlattenSeq
<1> HIDE DEF g
<1>6. \A i \in 1..n : g[i] = Joined(s, g, i)
  BY <1>4 DEF Joined
<1> QED
  BY <1>5, <1>6
-----------------------------------------------------------------------------
(* The first i chunks, flattened to `rows`: as many rows as index[i] says, *)
(* and those of chunk k from index[k] on.                                  *)
LaidOut(rows, i) ==
  /\ rows \in Seq(Nat \X Nat) /\ Len(rows) = index[i]
  /\ \A k \in 0..i - 1 :
       /\ index[k] + size[k] <= index[i]
       /\ \A o \in 0..size[k] - 1 : rows[index[k] + o + 1] = <<k, o>>

(* Where the elements of a concatenation come from.                        *)
LEMMA Appended ==
  ASSUME NEW T, NEW a \in Seq(T), NEW b \in Seq(T)
  PROVE  /\ a \o b \in Seq(T) /\ Len(a \o b) = Len(a) + Len(b)
         /\ \A j \in 1..Len(a) : (a \o b)[j] = a[j]
         /\ \A j \in 1..Len(b) : (a \o b)[Len(a) + j] = b[j]
OBVIOUS

(* A chunk's rows are laid after those of the chunks before it.            *)
LEMMA LayNext ==
  ASSUME TypeOK, AtIsExact, NEW i \in 1..chunks - 1, NEW rows, LaidOut(rows, i)
  PROVE  LaidOut(rows \o RowsOf(i), i + 1)
<1> DEFINE all == rows \o RowsOf(i)
<1>1. /\ i \in Nat /\ chunks \in Nat
      /\ index[i] \in Nat /\ size[i] \in Nat /\ index[i + 1] = index[i] + size[i]
  BY BoundsAssumption DEF TypeOK, AtIsExact
<1>2. /\ RowsOf(i) \in Seq(Nat \X Nat) /\ Len(RowsOf(i)) = size[i]
      /\ \A o \in 0..size[i] - 1 : RowsOf(i)[o + 1] = <<i, o>>
  BY <1>1 DEF RowsOf
<1>3. rows \in Seq(Nat \X Nat) /\ Len(rows) = index[i]
  BY DEF LaidOut
<1>4. /\ all \in Seq(Nat \X Nat) /\ Len(all) = index[i + 1]
      /\ \A j \in 1..index[i] : all[j] = rows[j]
      /\ \A j \in 1..size[i] : all[index[i] + j] = RowsOf(i)[j]
  <2>1. /\ all \in Seq(Nat \X Nat) /\ Len(all) = Len(rows) + Len(RowsOf(i))
        /\ \A j \in 1..Len(rows) : all[j] = rows[j]
        /\ \A j \in 1..Len(RowsOf(i)) : all[Len(rows) + j] = RowsOf(i)[j]
    <3> DEFINE T == Nat \X Nat
    <3>1. rows \in Seq(T) /\ RowsOf(i) \in Seq(T)
      BY <1>2, <1>3
    <3> HIDE DEF T
    <3>2. /\ rows \o RowsOf(i) \in Seq(T)
          /\ Len(rows \o RowsOf(i)) = Len(rows) + Len(RowsOf(i))
          /\ \A j \in 1..Len(rows) : (rows \o RowsOf(i))[j] = rows[j]
          /\ \A j \in 1..Len(RowsOf(i)) : (rows \o RowsOf(i))[Len(rows) + j] = RowsOf(i)[j]
      BY <3>1, Appended
    <3> QED
      BY <3>2 DEF T
  <2> HIDE DEF all
  <2> QED
    BY <1>1, <1>2, <1>3, <2>1
<1> HIDE DEF all
<1>5. ASSUME NEW k \in 0..i
      PROVE  /\ index[k] + size[k] <= index[i + 1]
             /\ \A o \in 0..size[k] - 1 : all[index[k] + o + 1] = <<k, o>>
  <2>1. index[k] \in Nat /\ size[k] \in Nat
    BY <1>1 DEF TypeOK
  <2>2. CASE k = i
    <3>1. ASSUME NEW o \in 0..size[i] - 1 PROVE all[index[i] + o + 1] = <<i, o>>
      <4>1. o + 1 \in 1..size[i] /\ index[i] + o + 1 = index[i] + (o + 1)
        BY <1>1
      <4> QED
        BY <1>2, <1>4, <4>1
    <3>2. index[i] + size[i] <= index[i + 1]
      BY <1>1
    <3> QED
      BY <2>2, <3>1, <3>2
  <2>3. CASE k \in 0..i - 1
    <3>1. /\ index[k] + size[k] <= index[i]
          /\ \A o \in 0..size[k] - 1 : rows[index[k] + o + 1] = <<k, o>>
      BY <2>3 DEF LaidOut
    <3>2. \A o \in 0..size[k] - 1 : index[k] + o + 1 \in 1..index[i]
      BY <1>1, <2>1, <3>1
    <3>3. \A o \in 0..size[k] - 1 : all[index[k] + o + 1] = rows[index[k] + o + 1]
      BY <1>4, <3>2
    <3> QED
      BY <1>1, <2>1, <3>1, <3>3
  <2> QED
    BY <1>1, <2>2, <2>3
<1>6. LaidOut(all, i + 1)
  BY <1>1, <1>4, <1>5 DEF LaidOut
<1> QED
  BY <1>6 DEF all

(* `index` gives the place of every row of the concatenation.              *)
LEMMA AllLaidOut ==
  ASSUME TypeOK, AtIsExact, chunks > 0
  PROVE  LaidOut(AllRows, chunks)
<1> DEFINE s == [k \in 1..chunks |-> RowsOf(k - 1)]
<1>1. chunks \in Nat /\ chunks # 0 /\ \A k \in 0..chunks - 1 : size[k] \in Nat
  BY BoundsAssumption DEF TypeOK
<1>2. \A k \in 0..chunks - 1 : RowsOf(k) \in Seq(Nat \X Nat)
  BY <1>1 DEF RowsOf
<1>3. s \in Seq(Seq(Nat \X Nat)) /\ Len(s) = chunks /\ s # <<>>
  BY <1>1, <1>2
<1>4. \A i \in 1..chunks : s[i] = RowsOf(i - 1)
  OBVIOUS
<1> HIDE DEF s
<1>5. PICK f : FlattenSeq(s) = f[Len(s)] /\ \A i \in 1..Len(s) : f[i] = Joined(s, f, i)
  BY <1>3, Flattened
<1> DEFINE Good == {n \in Nat : n + 1 <= chunks => LaidOut(f[n + 1], n + 1)}
<1>6. 0 \in Good
  <2>1. f[1] = RowsOf(0)
    BY <1>1, <1>3, <1>4, <1>5 DEF Joined
  <2>2. index[0] = 0 /\ index[0 + 1] = index[0] + size[0] /\ size[0] \in Nat
    BY <1>1 DEF AtIsExact
  <2>3. LaidOut(RowsOf(0), 1)
    BY <1>1, <2>2 DEF LaidOut, RowsOf
  <2> QED
    BY <2>1, <2>3
<1>7. ASSUME NEW n \in Nat, n \in Good PROVE n + 1 \in Good
  <2> SUFFICES ASSUME n + 1 + 1 <= chunks PROVE LaidOut(f[n + 1 + 1], n + 1 + 1)
    OBVIOUS
  <2>1. n + 1 \in 1..chunks - 1 /\ LaidOut(f[n + 1], n + 1)
    BY <1>1, <1>7
  <2>2. f[n + 1 + 1] = f[n + 1] \o RowsOf(n + 1)
    <3> DEFINE i == n + 1 + 1
    <3>1. i \in 1..chunks /\ i # 1 /\ i - 1 = n + 1
      BY <1>1
    <3> HIDE DEF i, Good
    <3>2. f[i] = Joined(s, f, i) /\ s[i] = RowsOf(i - 1)
      BY <1>3, <1>4, <1>5, <3>1
    <3>3. f[i] = f[i - 1] \o RowsOf(i - 1)
      BY <3>1, <3>2 DEF Joined
    <3> QED
      BY <3>1, <3>3 DEF i
  <2> QED
    BY <2>1, <2>2, LayNext
<1>8. chunks - 1 \in Good
  <2>1. Nat \subseteq Good
    <3> HIDE DEF Good
    <3> QED
      BY <1>6, <1>7, Induction
  <2> QED
    BY <1>1, <2>1
<1>9. AllRows = f[chunks]
  BY <1>3, <1>5 DEF AllRows, s
<1> QED
  BY <1>1, <1>8, <1>9

(* at() of the concatenation is at() of the chunks laid end to end, and    *)
(* its length theirs.                                                      *)
THEOREM ConcatEndToEnd == Spec => []EndToEnd
<1>1. IInv => EndToEnd
  <2> SUFFICES ASSUME IInv, pc # "build" PROVE EndToEnd
    BY DEF EndToEnd
  <2>1. TypeOK /\ AtIsExact /\ chunks > 0
    BY DEF IInv, Bracketed
  <2>2. LaidOut(AllRows, chunks)
    BY <2>1, AllLaidOut
  <2>3. Length = Len(AllRows)
    BY <2>2 DEF LaidOut, Length
  <2>4. ASSUME pc = "done" PROVE <<chunk, offset>> = AllRows[row + 1]
    <3>1. /\ chunk < chunks /\ offset < size[chunk] /\ row = index[chunk] + offset
      BY <2>1, <2>4 DEF AtIsExact
    <3>2. chunk \in 0..chunks - 1 /\ chunks \in Nat
      BY <2>1, <3>1, BoundsAssumption DEF TypeOK
    <3>3. offset \in 0..size[chunk] - 1 /\ index[chunk] \in Nat
      BY <2>1, <3>1, <3>2 DEF TypeOK
    <3> QED
      BY <2>2, <3>1, <3>2, <3>3 DEF LaidOut
  <2> QED
    BY <2>3, <2>4 DEF EndToEnd
<1> QED
  BY InitIInv, NextIInv, <1>1, PTL DEF Spec
=============================================================================
