---------------------------- MODULE BlocksProofs ----------------------------
(***************************************************************************)
(* Blocks.tla, for all columns, rows and sizes.                            *)
(*                                                                         *)
(* Two arguments are kept apart.  The first is about pointers: a column    *)
(* that a push changes in place is the only one that refers to its data,   *)
(* and no other data in use refers to the elements that go with it; so     *)
(* what each block holds is what was put into it (`seen`).  The second is  *)
(* about names and `seen` only: while a row is put, the columns it has     *)
(* still to reach are one row short.                                       *)
(***************************************************************************)
EXTENDS Blocks, FiniteSetTheorems, SequenceTheorems, TLAPS

Column == [name : Names, data : Nat]
Datum  == [rows : Nat, inner : Nat]

Typed ==
  /\ Live \in SUBSET Handles /\ Live # {}
  /\ columns \in [Live -> Seq(Column)] /\ seen \in [Live -> Seq(Nat)]
  /\ data \in Seq(Datum) /\ cells \in Seq(Names)
  /\ target \in Live \cup {None} /\ result \in {"ok", "err"} \cup Panics
  /\ even \subseteq Live

(* A column points to data `d` that has elements if its type has them, as  *)
(* many as rows if it is nested; and what it points to are not elements.   *)
Sound(column, d) ==
  /\ column.data \in 1..Len(d)
  /\ column.name \in Flat <=> d[column.data].inner = NoData
  /\ \A q \in 1..Len(d) : d[q].inner # column.data
  /\ column.name \in Nested => d[d[column.data].inner].rows = d[column.data].rows

Elements(d) == \A q \in 1..Len(d) : d[q].inner \in 0..Len(d)

Pointers ==
  Elements(data) /\ \A h \in Live : \A i \in 1..Len(columns[h]) : Sound(columns[h][i], data)

Held == \A h \in Live :
  /\ Len(seen[h]) = Len(columns[h])
  /\ \A i \in 1..Len(columns[h]) : data[columns[h][i].data].rows = seen[h][i]

(* Names do not repeat, neither in a block nor in the row that is put.     *)
Distinct ==
  /\ \A h \in Live : \A i, j \in 1..Len(columns[h]) :
       columns[h][i].name = columns[h][j].name => i = j
  /\ \A i, j \in 1..Len(cells) : cells[i] = cells[j] => i = j

(* The columns of a block have n rows, and one more where the row being    *)
(* put has been; and the row names no new column unless it is the first.   *)
LevelAt(h) == \E n \in Nat :
  /\ \A i \in 1..Len(columns[h]) :
       seen[h][i] = IF h = target /\ columns[h][i].name \notin Range(cells) THEN n + 1 ELSE n
  /\ h = target /\ n # 0 => \A k \in 1..Len(cells) : Position(h, cells[k]) # {}

Level == result \in Panics \/ \A h \in even : LevelAt(h)

(* A panic ends it all.                                                    *)
Panicked == result \in Panics => target = None

IInv == Typed /\ Pointers /\ Held /\ Distinct /\ Level /\ Panicked

-----------------------------------------------------------------------------
(* What it means that data is not shared.                                  *)

(* Two finite sets with at most one element between them.                  *)
LEMMA AtMostOne ==
  ASSUME NEW S, IsFiniteSet(S), NEW T, IsFiniteSet(T), ~(Cardinality(S) + Cardinality(T) > 1)
  PROVE  /\ \A x, y \in S : x = y
         /\ \A x, y \in T : x = y
         /\ \A x \in S, y \in T : FALSE
<1>1. ASSUME NEW A, IsFiniteSet(A)
      PROVE  /\ Cardinality(A) \in Nat
             /\ \A x \in A : Cardinality(A) >= 1
             /\ \A x, y \in A : x # y => Cardinality(A) >= 2
  <2>1. Cardinality(A) \in Nat
    BY <1>1, FS_CardinalityType
  <2>2. ASSUME NEW x \in A
        PROVE  Cardinality(A) >= 1
    <3>1. Cardinality(A) # 0
      BY <1>1, <2>2, FS_EmptySet
    <3> QED
      BY <2>1, <3>1
  <2>3. ASSUME NEW x \in A, NEW y \in A, x # y
        PROVE  Cardinality(A) >= 2
    <3>1. Cardinality(A) # 1
      BY <1>1, <2>3, FS_Singleton
    <3> QED
      BY <2>1, <2>2, <3>1
  <2> QED
    BY <2>1, <2>2, <2>3
<1>2. Cardinality(S) \in Nat /\ Cardinality(T) \in Nat
  BY <1>1
<1>3. ~(Cardinality(S) >= 2) /\ ~(Cardinality(T) >= 2)
      /\ ~(Cardinality(S) >= 1 /\ Cardinality(T) >= 1)
  BY <1>2
<1> QED
  BY <1>1, <1>3

(* There are finitely many columns.                                        *)
LEMMA FinitelyMany ==
  ASSUME Typed
  PROVE  IsFiniteSet(Columns) /\ IsFiniteSet(1..Len(data))
<1>1. \A h \in Live : Len(columns[h]) \in Nat
  BY DEF Typed
<1>2. PICK m \in Nat : \A h \in Live : Len(columns[h]) <= m
  <2>1. DEFINE b == IF "block" \in Live THEN Len(columns["block"]) ELSE 0
  <2>2. DEFINE c == IF "clone" \in Live THEN Len(columns["clone"]) ELSE 0
  <2>3. b \in Nat /\ c \in Nat
    BY <1>1
  <2>4. \A h \in Live : Len(columns[h]) = b \/ Len(columns[h]) = c
    BY DEF Typed, Handles
  <2> HIDE DEF b, c
  <2>5. \A h \in Live : Len(columns[h]) <= b + c
    BY <2>3, <2>4
  <2> QED
    BY <2>3, <2>5
<1>3. Columns \subseteq Handles \X (1..m)
  BY <1>1, <1>2 DEF Columns, Typed
<1>4. IsFiniteSet({"block", "clone"})
  <2>1. IsFiniteSet({"block"})
    BY FS_Singleton
  <2>2. IsFiniteSet({"block"} \cup {"clone"})
    BY <2>1, FS_AddElement
  <2>3. {"block"} \cup {"clone"} = {"block", "clone"}
    OBVIOUS
  <2> QED
    BY <2>2, <2>3
<1>5. IsFiniteSet(Handles \X (1..m))
  <2>1. IsFiniteSet(1..m)
    BY FS_Interval
  <2> QED
    BY <1>4, <2>1, FS_Product DEF Handles
<1>6. Len(data) \in Int
  BY DEF Typed
<1> QED
  BY <1>3, <1>5, <1>6, FS_Subset, FS_Interval

(* Of data that is not shared there is one column, or none and one piece   *)
(* of data in use that it is the elements of.                              *)
LEMMA Unshared ==
  ASSUME Typed, NEW p, ~Shared(p)
  PROVE  /\ \A h, g \in Live : \A i \in 1..Len(columns[h]), j \in 1..Len(columns[g]) :
              columns[h][i].data = p /\ columns[g][j].data = p => h = g /\ i = j
         /\ \A h, g \in Live : \A i \in 1..Len(columns[h]), j \in 1..Len(columns[g]) :
              /\ columns[h][i].data \in 1..Len(data) /\ columns[g][j].data \in 1..Len(data)
              /\ data[columns[h][i].data].inner = p /\ data[columns[g][j].data].inner = p
              => columns[h][i].data = columns[g][j].data
<1>1. /\ \A h \in Live : \A i \in 1..Len(columns[h]) : <<h, i>> \in Columns
      /\ IsFiniteSet(Owners(p)) /\ IsFiniteSet(Outer(p))
  <2>1. Owners(p) \in SUBSET Columns /\ Outer(p) \in SUBSET (1..Len(data))
    BY DEF Owners, Outer
  <2> QED
    BY <2>1, FinitelyMany, FS_Subset DEF Columns
<1>2. /\ \A x, y \in Owners(p) : x = y
      /\ \A x, y \in Outer(p) : x = y
  BY <1>1, AtMostOne DEF Shared
<1>3. ASSUME NEW h \in Live, NEW i \in 1..Len(columns[h])
      PROVE  /\ columns[h][i].data = p => <<h, i>> \in Owners(p)
             /\ columns[h][i].data \in 1..Len(data) /\ data[columns[h][i].data].inner = p
                => columns[h][i].data \in Outer(p)
  BY <1>1, <1>3 DEF Owners, Outer
<1> QED
  BY <1>2, <1>3

-----------------------------------------------------------------------------
(* Columns whose data changes elsewhere.                                   *)

(* Data is added.                                                          *)
LEMMA SoundExtended ==
  ASSUME NEW column, NEW d \in Seq(Datum), NEW e \in Seq(Datum), Len(d) <= Len(e),
         \A q \in 1..Len(d) : e[q] = d[q], Elements(d), Sound(column, d),
         \A q \in 1..Len(e) : q > Len(d) => e[q].inner # column.data
  PROVE  Sound(column, e) /\ e[column.data].rows = d[column.data].rows
<1>1. PICK m \in Nat, n \in Nat : m = Len(d) /\ n = Len(e)
  OBVIOUS
<1>2. column.data \in 1..m /\ e[column.data] = d[column.data]
  BY <1>1 DEF Sound
<1>3. ASSUME NEW q \in 1..n PROVE e[q].inner # column.data
  BY <1>1 DEF Sound
<1>4. column.name \in Nested => e[e[column.data].inner].rows = e[column.data].rows
  <2> SUFFICES ASSUME column.name \in Nested
               PROVE  e[e[column.data].inner].rows = e[column.data].rows
    OBVIOUS
  <2>1. d[column.data].inner # 0
    BY NamesAssumption DEF Sound, NoData
  <2>2. d[column.data].inner \in 1..m
    BY <1>1, <1>2, <2>1 DEF Elements
  <2> QED
    BY <1>1, <1>2, <2>2 DEF Sound
<1> QED
  BY <1>1, <1>2, <1>3, <1>4 DEF Sound

(* Rows of data that is not of this column are added in place.             *)
LEMMA SoundKept ==
  ASSUME NEW column, NEW d \in Seq(Datum), NEW e \in Seq(Datum), Len(e) = Len(d),
         \A q \in 1..Len(d) : e[q].inner = d[q].inner, Sound(column, d),
         e[column.data].rows = d[column.data].rows,
         column.name \in Nested => e[d[column.data].inner].rows = d[d[column.data].inner].rows
  PROVE  Sound(column, e)
BY DEF Sound


-----------------------------------------------------------------------------
(* A column is added.                                                      *)

(* What its data is.                                                       *)
LEMMA NewDataAdded ==
  ASSUME Typed, NEW name \in Names, NEW n \in Nat, NEW e, e = NewData(name, n), Elements(data)
  PROVE  /\ e \in Seq(Datum) /\ Len(data) < Len(e) /\ Elements(e)
         /\ \A q \in 1..Len(data) : e[q] = data[q]
         /\ \A q \in 1..Len(e) : q > Len(data) => e[q].inner = 0 \/ e[q].inner = Len(data) + 1
         /\ \A q \in 1..Len(e) : e[q].inner # Len(e)
         /\ e[Len(e)].rows = n /\ (name \in Flat <=> e[Len(e)].inner = NoData)
         /\ name \in Nested => e[e[Len(e)].inner].rows = n
<1>1. PICK m \in Nat : m = Len(data)
  BY DEF Typed
<1>2. data \in Seq(Datum) /\ \A q \in 1..m : data[q].inner \in 0..m
  BY <1>1 DEF Typed, Elements
<1>3. CASE name \in Nested \cup Dictionary
  <2> DEFINE x == [rows |-> n, inner |-> NoData]
             y == [rows |-> n, inner |-> m + 1]
  <2>1. x \in Datum /\ y \in Datum /\ e = data \o <<x, y>>
    BY <1>1, <1>3 DEF NewData, Datum, NoData
  <2>2. x.rows = n /\ x.inner = 0 /\ y.rows = n /\ y.inner = m + 1
    BY DEF NoData
  <2> HIDE DEF x, y
  <2>3. /\ e \in Seq(Datum) /\ Len(e) = m + 2 /\ e[m + 1] = x /\ e[m + 2] = y
        /\ \A q \in 1..m : e[q] = data[q]
    BY <1>1, <1>2, <2>1
  <2>4. \A q \in 1..m + 2 : q \in 1..m \/ q = m + 1 \/ q = m + 2
    OBVIOUS
  <2>5. \A q \in 1..m + 2 : /\ e[q].inner \in 0..m + 1
                            /\ q > m => e[q].inner = 0 \/ e[q].inner = m + 1
    BY <1>2, <2>2, <2>3, <2>4
  <2>6. name \notin Flat
    BY <1>3, NamesAssumption
  <2> QED
    BY <1>1, <2>2, <2>3, <2>5, <2>6 DEF Elements, NoData
<1>4. CASE name \notin Nested \cup Dictionary
  <2> DEFINE x == [rows |-> n, inner |-> NoData]
  <2>1. x \in Datum /\ e = Append(data, x)
    BY <1>1, <1>4 DEF NewData, Datum, NoData
  <2>2. x.rows = n /\ x.inner = 0
    BY DEF NoData
  <2> HIDE DEF x
  <2>3. /\ e \in Seq(Datum) /\ Len(e) = m + 1 /\ e[m + 1] = x
        /\ \A q \in 1..m : e[q] = data[q]
    BY <1>1, <1>2, <2>1, AppendProperties
  <2>4. \A q \in 1..m + 1 : q \in 1..m \/ q = m + 1
    OBVIOUS
  <2>5. \A q \in 1..m + 1 : /\ e[q].inner \in 0..m
                            /\ q > m => e[q].inner = 0
    BY <1>2, <2>2, <2>3, <2>4
  <2>6. name \in Flat /\ name \notin Nested
    BY <1>4 DEF Names
  <2> QED
    BY <1>1, <2>2, <2>3, <2>5, <2>6 DEF Elements, NoData
<1> QED
  BY <1>3, <1>4

(* The block has it as its last column.                                    *)
Added(h, name, n) ==
  /\ columns' \in [Live -> Seq(Column)] /\ seen' \in [Live -> Seq(Nat)] /\ data' \in Seq(Datum)
  /\ \A g \in Live \ {h} : columns'[g] = columns[g] /\ seen'[g] = seen[g]
  /\ Len(columns'[h]) = Len(columns[h]) + 1
  /\ \A i \in 1..Len(columns[h]) :
       columns'[h][i] = columns[h][i] /\ seen'[h][i] = seen[h][i]
  /\ columns'[h][Len(columns[h]) + 1].name = name /\ seen'[h][Len(columns[h]) + 1] = n

(* The other columns keep their data.                                      *)
LEMMA ColumnAdded ==
  ASSUME Typed, Pointers, Held, NEW h \in Live, NEW name \in Names, NEW n \in Nat,
         WithColumn(h, name, n)
  PROVE  Added(h, name, n) /\ Pointers' /\ Held'
<1>1. PICK e : e = NewData(name, n) /\ data' = e
  BY DEF WithColumn
<1>2. /\ e \in Seq(Datum) /\ Len(data) < Len(e) /\ Elements(e)
      /\ \A q \in 1..Len(data) : e[q] = data[q]
      /\ \A q \in 1..Len(e) : q > Len(data) => e[q].inner = 0 \/ e[q].inner = Len(data) + 1
      /\ \A q \in 1..Len(e) : e[q].inner # Len(e)
      /\ e[Len(e)].rows = n /\ (name \in Flat <=> e[Len(e)].inner = NoData)
      /\ name \in Nested => e[e[Len(e)].inner].rows = n
  BY <1>1, NewDataAdded DEF Pointers
<1>3. PICK m \in Nat, k \in Nat : m = Len(data) /\ k = Len(e)
  BY <1>2 DEF Typed
<1>4. PICK x : x = [name |-> name, data |-> k]
  OBVIOUS
<1>5. x \in Column /\ x.name = name /\ x.data = k
  BY <1>4 DEF Column
<1>6. /\ columns' = [columns EXCEPT ![h] = Append(columns[h], x)]
      /\ seen' = [seen EXCEPT ![h] = Append(seen[h], n)]
  BY <1>1, <1>3, <1>4 DEF WithColumn
<1>7. /\ columns[h] \in Seq(Column) /\ seen[h] \in Seq(Nat) /\ DOMAIN columns' = Live
      /\ columns'[h] = Append(columns[h], x) /\ seen'[h] = Append(seen[h], n)
      /\ \A g \in Live \ {h} : columns'[g] = columns[g] /\ seen'[g] = seen[g]
  BY <1>6 DEF Typed
<1>8. PICK l \in Nat : l = Len(columns[h]) /\ l = Len(seen[h])
  BY <1>7 DEF Held
<1>9. /\ columns'[h] \in Seq(Column) /\ Len(columns'[h]) = l + 1 /\ columns'[h][l + 1] = x
      /\ \A i \in 1..l : columns'[h][i] = columns[h][i]
  <2>1. PICK s \in Seq(Column) : s = columns[h]
    BY <1>7
  <2>2. /\ Append(s, x) \in Seq(Column) /\ Len(Append(s, x)) = Len(s) + 1
        /\ Append(s, x)[Len(s) + 1] = x /\ \A i \in 1..Len(s) : Append(s, x)[i] = s[i]
    BY <1>5, AppendProperties
  <2> QED
    BY <1>7, <1>8, <2>1, <2>2
<1>10. /\ seen'[h] \in Seq(Nat) /\ Len(seen'[h]) = l + 1 /\ seen'[h][l + 1] = n
       /\ \A i \in 1..l : seen'[h][i] = seen[h][i]
  BY <1>7, <1>8, AppendProperties
<1>11. columns' \in [Live -> Seq(Column)] /\ seen' \in [Live -> Seq(Nat)]
  BY <1>6, <1>7, <1>9, <1>10 DEF Typed
<1>12. Added(h, name, n)
  BY <1>1, <1>2, <1>5, <1>7, <1>8, <1>9, <1>10, <1>11 DEF Added
<1>13. Sound(x, e)
  BY <1>2, <1>3, <1>5 DEF Sound
<1>14. ASSUME NEW g \in Live, NEW i \in 1..Len(columns[g])
       PROVE  Sound(columns[g][i], e) /\ e[columns[g][i].data].rows = seen[g][i]
  <2>1. Sound(columns[g][i], data) /\ Elements(data) /\ data \in Seq(Datum)
    BY <1>14 DEF Pointers, Typed
  <2>2. ASSUME NEW q \in 1..Len(e), q > Len(data)
        PROVE  e[q].inner # columns[g][i].data
    <3>1. columns[g][i].data \in 1..m
      BY <1>3, <2>1 DEF Sound
    <3> QED
      BY <1>2, <1>3, <2>2, <3>1
  <2>3. Len(data) <= Len(e)
    BY <1>2, <1>3
  <2>4. Sound(columns[g][i], e) /\ e[columns[g][i].data].rows = data[columns[g][i].data].rows
    BY <1>2, <2>1, <2>2, <2>3, SoundExtended
  <2> QED
    BY <1>14, <2>4 DEF Held
<1>15. ASSUME NEW g \in Live, NEW i \in 1..Len(columns'[g])
       PROVE  Sound(columns'[g][i], e) /\ e[columns'[g][i].data].rows = seen'[g][i]
  <2>1. CASE g # h
    BY <1>7, <1>14, <1>15, <2>1
  <2>2. CASE g = h /\ i \in 1..l
    <3>1. Sound(columns[h][i], e) /\ e[columns[h][i].data].rows = seen[h][i]
      BY <1>8, <1>14, <2>2
    <3>2. columns'[h][i] = columns[h][i] /\ seen'[h][i] = seen[h][i]
      BY <1>9, <1>10, <2>2
    <3> QED
      BY <2>2, <3>1, <3>2
  <2>3. CASE g = h /\ i = l + 1
    BY <1>2, <1>3, <1>5, <1>9, <1>10, <1>13, <2>3
  <2> QED
    BY <1>9, <1>15, <2>1, <2>2, <2>3
<1>16. Live' = Live
  BY <1>7 DEF Live
<1>17. Pointers'
  BY <1>1, <1>2, <1>15, <1>16 DEF Pointers
<1>18. Held'
  <2>1. \A g \in Live : Len(seen'[g]) = Len(columns'[g])
    BY <1>7, <1>9, <1>10 DEF Held
  <2> QED
    BY <1>1, <1>15, <1>16, <2>1 DEF Held
<1> QED
  BY <1>12, <1>17, <1>18


-----------------------------------------------------------------------------
(* A cell is put.                                                          *)

(* Its column is the only one of its name.                                 *)
LEMMA Placed ==
  ASSUME Typed, Distinct, target \in Live, Position(target, Head(cells)) # {}
  PROVE  /\ Place \in 1..Len(columns[target]) /\ columns[target][Place].name = Head(cells)
         /\ \A j \in 1..Len(columns[target]) :
              columns[target][j].name = Head(cells) => j = Place
<1>1. PICK i : i \in Position(target, Head(cells))
  OBVIOUS
<1>2. \A j \in Position(target, Head(cells)) : j = i
  BY <1>1 DEF Position, Distinct
<1>3. i \in Nat
  BY <1>1 DEF Position
<1>4. Place \in Position(target, Head(cells))
  <2>1. \A j \in Position(target, Head(cells)) : i <= j
    BY <1>2, <1>3
  <2> QED
    BY <1>1, <2>1, Zenon DEF Place
<1> QED
  BY <1>2, <1>4 DEF Position

(* What the block holds afterwards: one row more in that column.           *)
Put ==
  /\ columns' \in [Live -> Seq(Column)] /\ seen' \in [Live -> Seq(Nat)] /\ data' \in Seq(Datum)
  /\ \A h \in Live : /\ Len(columns'[h]) = Len(columns[h]) /\ Len(seen'[h]) = Len(seen[h])
                     /\ \A j \in 1..Len(columns[h]) :
                          /\ columns'[h][j].name = columns[h][j].name
                          /\ seen'[h][j] = IF h = target /\ j = Place THEN seen[h][j] + 1
                                                                      ELSE seen[h][j]

(* Where that row is counted.                                              *)
LEMMA SeenPut ==
  ASSUME Typed, Held, NEW i, i = Place, target \in Live, i \in 1..Len(columns[target]),
         seen' = [seen EXCEPT ![target][Place] = @ + 1]
  PROVE  /\ seen' \in [Live -> Seq(Nat)]
         /\ \A h \in Live : /\ Len(seen'[h]) = Len(seen[h])
                            /\ \A j \in 1..Len(columns[h]) :
                                 seen'[h][j] = IF h = target /\ j = i THEN seen[h][j] + 1
                                                                      ELSE seen[h][j]
<1>1. PICK s \in Seq(Nat) : s = seen[target]
  BY DEF Typed
<1>2. PICK u : u = [s EXCEPT ![i] = s[i] + 1]
  OBVIOUS
<1>3. seen' = [seen EXCEPT ![target] = u]
  BY <1>1, <1>2
<1>4. i \in 1..Len(s)
  BY <1>1 DEF Held
<1>5. s[i] + 1 \in Nat
  BY <1>4
<1>6. /\ u \in Seq(Nat) /\ Len(u) = Len(s)
      /\ \A j \in 1..Len(s) : u[j] = IF j = i THEN s[i] + 1 ELSE s[j]
  BY <1>2, <1>4, <1>5, ExceptSeq
<1>7. seen'[target] = u /\ \A h \in Live \ {target} : seen'[h] = seen[h]
  BY <1>3 DEF Typed
<1>8. seen' \in [Live -> Seq(Nat)]
  BY <1>3, <1>6 DEF Typed
<1>9. Len(s) = Len(columns[target])
  BY <1>1 DEF Held
<1> QED
  BY <1>1, <1>6, <1>7, <1>8, <1>9

(* The data is changed in place: nobody else uses it.                      *)
LEMMA PutInPlace ==
  ASSUME Typed, Pointers, Held, Distinct, NEW touched \in BOOLEAN, PutCell(touched), ~CopyFirst
  PROVE  Put /\ Pointers' /\ Held'
<1>1. PICK i : i = Place
  OBVIOUS
<1>2. PICK p : p = Pointed /\ p = columns[target][i].data
  BY <1>1 DEF Pointed
<1>3. /\ target \in Live /\ i \in 1..Len(columns[target])
      /\ columns[target][i].name = Head(cells)
  BY <1>1, Placed DEF PutCell, Typed
<1>4. PICK x : x = columns[target][i]
  OBVIOUS
<1>5. Sound(x, data) /\ x.name = Head(cells) /\ p = x.data /\ p \in 1..Len(data)
  BY <1>2, <1>3, <1>4 DEF Pointers, Sound
<1>6. data \in Seq(Datum) /\ \A q \in 1..Len(data) : data[q] \in Datum
  BY DEF Typed
<1>7. ~Shared(p)
  BY <1>2 DEF CopyFirst
<1>8. PICK k : k = data[p].inner
  OBVIOUS
<1>9. /\ k \in 0..Len(data) /\ k # p
      /\ \A q \in 1..Len(data) : data[q].inner # p
  BY <1>5, <1>8 DEF Pointers, Elements, Sound
<1>10. PICK own : own = [data EXCEPT ![p] = [data[p] EXCEPT !.rows = data[p].rows + 1]]
  OBVIOUS
<1>11. PICK e : e = data'
  OBVIOUS
<1>12. e = IF touched /\ k # 0 THEN [own EXCEPT ![k] = [own[k] EXCEPT !.rows = own[k].rows + 1]]
           ELSE own
  BY <1>2, <1>8, <1>10, <1>11 DEF PutCell, Longer, NoData
<1>13. /\ own \in Seq(Datum) /\ Len(own) = Len(data)
       /\ \A q \in 1..Len(data) : /\ q # p => own[q] = data[q]
                                  /\ own[q].inner = data[q].inner
       /\ own[p].rows = data[p].rows + 1
  <2>1. PICK new : new = [data[p] EXCEPT !.rows = data[p].rows + 1]
    OBVIOUS
  <2>2. new \in Datum /\ new.rows = data[p].rows + 1 /\ new.inner = data[p].inner
    <3>1. PICK u \in Datum : u = data[p]
      BY <1>5, <1>6
    <3> QED
      BY <2>1, <3>1 DEF Datum
  <2> QED
    BY <1>5, <1>6, <1>10, <2>1, <2>2, ExceptSeq
<1>14. /\ e \in Seq(Datum) /\ Len(e) = Len(data)
       /\ \A q \in 1..Len(data) : /\ q # p /\ ~(q = k /\ touched) => e[q] = data[q]
                                  /\ e[q].inner = data[q].inner
       /\ e[p].rows = data[p].rows + 1
       /\ touched /\ k # 0 => e[k].rows = data[k].rows + 1
  <2>1. CASE touched /\ k # 0
    <3>1. k \in 1..Len(data)
      BY <1>9, <2>1
    <3>2. PICK new : new = [own[k] EXCEPT !.rows = own[k].rows + 1]
      OBVIOUS
    <3>3. own[k] \in Datum
      BY <1>13, <3>1
    <3>4. new \in Datum /\ new.rows = own[k].rows + 1 /\ new.inner = own[k].inner
      BY <3>2, <3>3 DEF Datum
    <3>5. e = [own EXCEPT ![k] = new]
      BY <1>12, <2>1, <3>2
    <3>6. /\ e \in Seq(Datum) /\ Len(e) = Len(own)
          /\ \A q \in 1..Len(own) : e[q] = IF q = k THEN new ELSE own[q]
      BY <1>13, <3>1, <3>4, <3>5, ExceptSeq
    <3> QED
      BY <1>5, <1>9, <1>13, <2>1, <3>1, <3>4, <3>6
  <2>2. CASE ~(touched /\ k # 0)
    BY <1>5, <1>12, <1>13, <2>2
  <2> QED
    BY <2>1, <2>2
<1>15. touched /\ k # 0 => ~Shared(k)
  BY <1>2, <1>8 DEF PutCell, ElementsShared, NoData
<1>16. x.name \in Nested => touched /\ k # 0 /\ data[k].rows = data[p].rows
  <2> SUFFICES ASSUME x.name \in Nested PROVE touched /\ k # 0 /\ data[k].rows = data[p].rows
    OBVIOUS
  <2>1. x.name \notin Flat /\ x.name \notin Dictionary
    BY NamesAssumption
  <2>2. touched
    BY <1>5, <2>1 DEF PutCell, TouchesElements
  <2> QED
    BY <1>5, <1>8, <2>1, <2>2 DEF Sound, NoData
<1>17. Sound(x, e)
  BY <1>5, <1>8, <1>9, <1>14, <1>16 DEF Sound
<1>18. UNCHANGED columns
  BY DEF PutCell
<1>19. /\ seen' \in [Live -> Seq(Nat)]
       /\ \A h \in Live : /\ Len(seen'[h]) = Len(seen[h])
                          /\ \A j \in 1..Len(columns[h]) :
                               seen'[h][j] = IF h = target /\ j = i THEN seen[h][j] + 1
                                                                    ELSE seen[h][j]
  BY <1>1, <1>3, SeenPut DEF PutCell
<1>20. Put
  BY <1>1, <1>11, <1>14, <1>18, <1>19 DEF Put, Typed
<1>21. ASSUME NEW h \in Live, NEW j \in 1..Len(columns[h]), ~(h = target /\ j = i)
       PROVE  Sound(columns[h][j], e) /\ e[columns[h][j].data].rows = data[columns[h][j].data].rows
  <2>1. PICK c : c = columns[h][j]
    OBVIOUS
  <2>2. Sound(c, data) /\ c.data \in 1..Len(data)
    BY <1>21, <2>1 DEF Pointers, Sound
  <2>3. c.data # p
    BY <1>2, <1>3, <1>7, <1>21, <2>1, Unshared
  <2>4. c.data # k
    BY <1>5, <1>8, <2>2 DEF Sound
  <2>5. e[c.data] = data[c.data]
    BY <1>14, <2>2, <2>3, <2>4
  <2>6. ASSUME c.name \in Nested
        PROVE  e[data[c.data].inner].rows = data[data[c.data].inner].rows
    <3>1. c.name \notin Flat
      BY <2>6, NamesAssumption
    <3>2. data[c.data].inner \in 1..Len(data)
      <4>1. data[c.data].inner \in 0..Len(data) /\ data[c.data].inner # 0
        BY <2>2, <3>1 DEF Pointers, Elements, Sound, NoData
      <4> QED
        BY <4>1
    <3>3. data[c.data].inner # p
      BY <1>9, <2>2
    <3>4. ~(data[c.data].inner = k /\ touched)
      <4> SUFFICES ASSUME data[c.data].inner = k, touched PROVE FALSE
        OBVIOUS
      <4>1. ~Shared(k)
        BY <1>15, <3>2
      <4>2. \A f, g \in Live : \A m \in 1..Len(columns[f]), n \in 1..Len(columns[g]) :
              /\ columns[f][m].data \in 1..Len(data) /\ columns[g][n].data \in 1..Len(data)
              /\ data[columns[f][m].data].inner = k /\ data[columns[g][n].data].inner = k
              => columns[f][m].data = columns[g][n].data
        BY <4>1, Unshared
      <4>3. /\ columns[h][j].data \in 1..Len(data) /\ columns[target][i].data \in 1..Len(data)
            /\ data[columns[h][j].data].inner = k /\ data[columns[target][i].data].inner = k
        BY <1>2, <1>5, <1>8, <2>1, <2>2
      <4>4. c.data = p
        BY <1>2, <1>3, <1>21, <2>1, <4>2, <4>3
      <4> QED
        BY <2>3, <4>4
    <3> QED
      BY <1>14, <3>2, <3>3, <3>4
  <2>7. Sound(c, e)
    BY <1>6, <1>14, <2>2, <2>5, <2>6, SoundKept
  <2> QED
    BY <2>1, <2>5, <2>7
<1>22. Live' = Live
  BY <1>18 DEF Live
<1>23. Pointers'
  <2>1. Elements(e)
    BY <1>14 DEF Pointers, Elements
  <2> QED
    BY <1>4, <1>11, <1>17, <1>18, <1>21, <1>22, <2>1 DEF Pointers
<1>24. Held'
  <2>1. ASSUME NEW h \in Live, NEW j \in 1..Len(columns[h])
        PROVE  e[columns[h][j].data].rows = seen'[h][j]
    <3>1. data[columns[h][j].data].rows = seen[h][j]
      BY <2>1 DEF Held
    <3>2. CASE h = target /\ j = i
      BY <1>2, <1>3, <1>14, <1>19, <3>1, <3>2
    <3>3. CASE ~(h = target /\ j = i)
      BY <1>19, <1>21, <3>1, <3>3
    <3> QED
      BY <3>2, <3>3
  <2> QED
    BY <1>11, <1>18, <1>19, <1>22, <2>1 DEF Held
<1> QED
  BY <1>20, <1>23, <1>24


(* The data is copied first: the others keep the original, and the copy    *)
(* refers to the same elements, which may have stayed as they are only     *)
(* because the column is not nested.                                       *)
LEMMA PutCopied ==
  ASSUME Typed, Pointers, Held, Distinct, NEW touched \in BOOLEAN, PutCell(touched), CopyFirst
  PROVE  Put /\ Pointers' /\ Held'
<1>1. PICK i : i = Place
  OBVIOUS
<1>2. PICK p : p = Pointed /\ p = columns[target][i].data
  BY <1>1 DEF Pointed
<1>3. /\ target \in Live /\ i \in 1..Len(columns[target])
      /\ columns[target][i].name = Head(cells)
  BY <1>1, Placed DEF PutCell, Typed
<1>4. PICK cols \in Seq(Column), x \in Column : cols = columns[target] /\ x = cols[i]
  BY <1>3 DEF Typed
<1>5. Sound(x, data) /\ x.name = Head(cells) /\ p = x.data /\ p \in 1..Len(data)
  BY <1>2, <1>3, <1>4 DEF Pointers, Sound
<1>6. PICK m \in Nat : m = Len(data)
  BY DEF Typed
<1>7. PICK u \in Datum : u = data[p]
  BY <1>5 DEF Typed
<1>8. Shared(p)
  BY <1>2 DEF CopyFirst
<1>9. ~(touched /\ u.inner # 0)
  BY <1>2, <1>7, <1>8 DEF PutCell, ElementsShared, NoData
<1>10. PICK new : new = [u EXCEPT !.rows = u.rows + 1]
  OBVIOUS
<1>11. new \in Datum /\ new.rows = u.rows + 1 /\ new.inner = u.inner
  BY <1>10 DEF Datum
<1>12. PICK e : e = data'
  OBVIOUS
<1>13. e = Append(data, new)
  BY <1>2, <1>7, <1>9, <1>10, <1>12 DEF PutCell, Longer, NoData
<1>14. /\ e \in Seq(Datum) /\ Len(e) = m + 1 /\ e[m + 1] = new
       /\ \A q \in 1..m : e[q] = data[q]
  <2>1. data \in Seq(Datum)
    BY DEF Typed
  <2> QED
    BY <1>6, <1>11, <1>13, <2>1, AppendProperties
<1>15. PICK y : y = [x EXCEPT !.data = m + 1]
  OBVIOUS
<1>16. y \in Column /\ y.name = x.name /\ y.data = m + 1
  BY <1>15 DEF Column
<1>17. PICK into : into = [cols EXCEPT ![i] = y]
  OBVIOUS
<1>18. columns' = [columns EXCEPT ![target] = into]
  BY <1>1, <1>4, <1>6, <1>15, <1>17 DEF PutCell
<1>19. /\ into \in Seq(Column) /\ Len(into) = Len(cols)
       /\ \A j \in 1..Len(cols) : into[j] = IF j = i THEN y ELSE cols[j]
  BY <1>3, <1>4, <1>16, <1>17, ExceptSeq
<1>20. /\ columns' \in [Live -> Seq(Column)] /\ DOMAIN columns' = Live
       /\ columns'[target] = into /\ \A h \in Live \ {target} : columns'[h] = columns[h]
  BY <1>3, <1>18, <1>19 DEF Typed
<1>21. /\ seen' \in [Live -> Seq(Nat)]
       /\ \A h \in Live : /\ Len(seen'[h]) = Len(seen[h])
                          /\ \A j \in 1..Len(columns[h]) :
                               seen'[h][j] = IF h = target /\ j = i THEN seen[h][j] + 1
                                                                    ELSE seen[h][j]
  BY <1>1, <1>3, SeenPut DEF PutCell
<1>22. ASSUME NEW h \in Live
       PROVE  /\ Len(columns'[h]) = Len(columns[h])
              /\ \A j \in 1..Len(columns[h]) :
                   columns'[h][j] = IF h = target /\ j = i THEN y ELSE columns[h][j]
  BY <1>4, <1>19, <1>20, <1>22
<1>23. Put
  <2>1. ASSUME NEW h \in Live, NEW j \in 1..Len(columns[h])
        PROVE  columns'[h][j].name = columns[h][j].name
    <3>1. CASE h = target /\ j = i
      BY <1>4, <1>16, <1>22, <2>1, <3>1
    <3>2. CASE ~(h = target /\ j = i)
      BY <1>22, <2>1, <3>2
    <3> QED
      BY <3>1, <3>2
  <2> QED
    BY <1>1, <1>12, <1>14, <1>20, <1>21, <1>22, <2>1 DEF Put
<1>24. x.name \notin Nested
  <2> SUFFICES ASSUME x.name \in Nested PROVE FALSE
    OBVIOUS
  <2>1. x.name \notin Flat /\ x.name \notin Dictionary
    BY NamesAssumption
  <2>2. touched
    BY <1>5, <2>1 DEF PutCell, TouchesElements
  <2> QED
    BY <1>5, <1>7, <1>9, <2>1, <2>2 DEF Sound, NoData
<1>25. u.inner \in 0..m /\ \A q \in 1..m : data[q].inner \in 0..m
  BY <1>5, <1>6, <1>7 DEF Pointers, Elements
<1>26. \A q \in 1..m + 1 : e[q].inner \in 0..m
  <2>1. \A q \in 1..m + 1 : q \in 1..m \/ q = m + 1
    OBVIOUS
  <2> QED
    BY <1>11, <1>14, <1>25, <2>1
<1>27. Sound(y, e)
  <2>1. \A q \in 1..m + 1 : e[q].inner # m + 1
    BY <1>26
  <2> QED
    BY <1>5, <1>7, <1>11, <1>14, <1>16, <1>24, <2>1 DEF Sound
<1>28. ASSUME NEW h \in Live, NEW j \in 1..Len(columns[h])
       PROVE  Sound(columns[h][j], e) /\ e[columns[h][j].data].rows = seen[h][j]
  <2>1. PICK c : c = columns[h][j]
    OBVIOUS
  <2>2. Sound(c, data) /\ Elements(data) /\ data \in Seq(Datum)
    BY <1>28, <2>1 DEF Pointers, Typed
  <2>3. ASSUME NEW q \in 1..Len(e), q > Len(data)
        PROVE  e[q].inner # c.data
    <3>1. q = m + 1
      BY <1>6, <1>14, <2>3
    <3>2. u.inner # c.data
      BY <1>5, <1>7, <2>2 DEF Sound
    <3> QED
      BY <1>11, <1>14, <3>1, <3>2
  <2>4. Len(data) <= Len(e) /\ \A q \in 1..Len(data) : e[q] = data[q]
    BY <1>6, <1>14
  <2>5. Sound(c, e) /\ e[c.data].rows = data[c.data].rows
    BY <1>14, <2>2, <2>3, <2>4, SoundExtended
  <2> QED
    BY <1>28, <2>1, <2>5 DEF Held
<1>29. ASSUME NEW h \in Live, NEW j \in 1..Len(columns[h])
       PROVE  Sound(columns'[h][j], e) /\ e[columns'[h][j].data].rows = seen'[h][j]
  <2>1. CASE h = target /\ j = i
    <3>1. columns'[h][j] = y /\ seen'[h][j] = seen[h][j] + 1
      BY <1>21, <1>22, <1>29, <2>1
    <3>2. e[y.data].rows = data[p].rows + 1
      BY <1>7, <1>11, <1>14, <1>16
    <3>3. data[p].rows = seen[h][j]
      BY <1>2, <1>3, <2>1 DEF Held
    <3> QED
      BY <1>27, <3>1, <3>2, <3>3
  <2>2. CASE ~(h = target /\ j = i)
    <3>1. columns'[h][j] = columns[h][j] /\ seen'[h][j] = seen[h][j]
      BY <1>21, <1>22, <1>29, <2>2
    <3> QED
      BY <1>28, <1>29, <3>1
  <2> QED
    BY <2>1, <2>2
<1>30. Live' = Live
  BY <1>20 DEF Live
<1>31. Pointers'
  BY <1>12, <1>14, <1>22, <1>26, <1>29, <1>30 DEF Pointers, Elements
<1>32. Held'
  BY <1>12, <1>21, <1>22, <1>29, <1>30 DEF Held
<1> QED
  BY <1>23, <1>31, <1>32

-----------------------------------------------------------------------------
(* Names and sizes.                                                        *)

(* What is needed of an action that leaves all blocks and the row alone.   *)
LEMMA Untouched ==
  ASSUME Typed, Pointers, Held, Distinct, UNCHANGED <<columns, data, seen, even>>,
         target' \in Live \cup {None}, result' \in {"ok", "err"} \cup Panics,
         cells' = cells \/ cells' = <<>>
  PROVE  Typed' /\ Pointers' /\ Held' /\ Distinct'
<1>1. Live' = Live
  BY DEF Live
<1>2. cells' \in Seq(Names) /\ \A i, j \in 1..Len(cells') : cells'[i] = cells'[j] => i = j
  <2>1. CASE cells' = cells
    BY <2>1 DEF Typed, Distinct
  <2>2. CASE cells' = <<>>
    BY <2>2
  <2> QED
    BY <2>1, <2>2
<1>3. Typed'
  BY <1>1, <1>2 DEF Typed
<1>4. Distinct'
  BY <1>1, <1>2 DEF Distinct
<1> QED
  BY <1>1, <1>3, <1>4 DEF Pointers, Held

(* Refuse, PanicShared and Done.                                           *)
LEMMA RefuseStep ==
  ASSUME IInv, Refuse
  PROVE  IInv' /\ target \notin even
<1>1. /\ target \in Live /\ cells # <<>> /\ result' = "err" /\ target' = None /\ cells' = <<>>
      /\ UNCHANGED <<columns, data, seen, even>>
      /\ Position(target, Head(cells)) = {} /\ ~FirstRow(target)
  BY DEF Refuse, IInv, Typed
<1>2. Typed' /\ Pointers' /\ Held' /\ Distinct'
  BY <1>1, Untouched DEF IInv
<1>3. ASSUME NEW h \in even, h # target, LevelAt(h)
      PROVE  LevelAt(h)'
  <2>1. h # None /\ h \in Live
    BY <1>3 DEF IInv, Typed, Handles, None
  <2> QED
    BY <1>1, <1>3, <2>1 DEF LevelAt
<1>4. target \notin even
  <2> SUFFICES ASSUME target \in even PROVE FALSE
    OBVIOUS
  <2>1. LevelAt(target) /\ Held
    BY <1>1 DEF IInv, Level, Panicked, Typed, Handles, None
  <2>2. PICK n \in Nat :
          /\ \A i \in 1..Len(columns[target]) :
               seen[target][i] = IF columns[target][i].name \notin Range(cells) THEN n + 1 ELSE n
          /\ n # 0 => \A k \in 1..Len(cells) : Position(target, cells[k]) # {}
    BY <2>1 DEF LevelAt
  <2>3. cells \in Seq(Names) /\ 1 \in 1..Len(cells) /\ Head(cells) = cells[1]
    BY <1>1 DEF IInv, Typed
  <2>4. n = 0
    BY <1>1, <2>2, <2>3
  <2>5. row_count(target) <= 1
    <3>1. CASE columns[target] = <<>>
      BY <3>1 DEF row_count
    <3>2. CASE columns[target] # <<>>
      <4>1. 1 \in 1..Len(columns[target])
        BY <1>1, <3>2 DEF IInv, Typed
      <4>2. row_count(target) = seen[target][1]
        BY <1>1, <2>1, <3>2, <4>1 DEF row_count, Held
      <4> QED
        BY <2>2, <2>4, <4>1, <4>2
    <3> QED
      BY <3>1, <3>2
  <2> QED
    BY <1>1, <2>5 DEF FirstRow
<1>5. Level' /\ Panicked'
  <2>1. result \notin Panics
    BY <1>1 DEF IInv, Panicked, Typed, Handles, None
  <2> QED
    BY <1>1, <1>3, <1>4, <2>1 DEF IInv, Level, Panicked, Panics
<1> QED
  BY <1>2, <1>4, <1>5 DEF IInv


(* A panic in the middle of a row.                                         *)
LEMMA PanicStep ==
  ASSUME IInv, PanicShared
  PROVE  IInv'
<1>1. /\ result' = "shared" /\ target' = None /\ cells' = <<>>
      /\ UNCHANGED <<columns, data, seen, even>>
  BY DEF PanicShared
<1>2. Typed' /\ Pointers' /\ Held' /\ Distinct'
  BY <1>1, Untouched DEF IInv, Panics
<1>3. Level' /\ Panicked'
  BY <1>1 DEF Level, Panicked, Panics
<1> QED
  BY <1>2, <1>3 DEF IInv

(* The end of a row: all columns have their row.                           *)
LEMMA DoneStep ==
  ASSUME IInv, Done
  PROVE  IInv'
<1>1. /\ target \in Live /\ cells = <<>> /\ result' = "ok" /\ target' = None
      /\ UNCHANGED <<columns, data, cells, seen, even>> /\ result \notin Panics
  BY DEF Done, IInv, Typed, Panicked
<1>2. Typed' /\ Pointers' /\ Held' /\ Distinct'
  BY <1>1, Untouched DEF IInv
<1>3. ASSUME NEW h \in even
      PROVE  LevelAt(h)'
  <2>1. h # None /\ h \in Live
    BY <1>3 DEF IInv, Typed, Handles, None
  <2>2. PICK n \in Nat : \A i \in 1..Len(columns[h]) :
          seen[h][i] = IF h = target /\ columns[h][i].name \notin Range(cells) THEN n + 1 ELSE n
    BY <1>1, <1>3 DEF IInv, Level, LevelAt
  <2>3. \A i \in 1..Len(columns[h]) : columns[h][i].name \notin Range(cells)
    BY <1>1 DEF Range
  <2>4. PICK k \in Nat : \A i \in 1..Len(columns[h]) : seen[h][i] = k
    <3>1. CASE h = target
      <4>1. n + 1 \in Nat /\ \A i \in 1..Len(columns[h]) : seen[h][i] = n + 1
        BY <2>2, <2>3, <3>1
      <4> QED
        BY <4>1
    <3>2. CASE h # target
      BY <2>2, <3>2
    <3> QED
      BY <3>1, <3>2
  <2> QED
    BY <1>1, <2>1, <2>4 DEF LevelAt
<1>4. Level' /\ Panicked'
  BY <1>1, <1>3 DEF Level, Panicked, Panics
<1> QED
  BY <1>2, <1>4 DEF IInv

(* A block that no row is put into has columns of one size.                *)
LEMMA LevelElsewhere ==
  ASSUME NEW h, h # target, LevelAt(h)
  PROVE  \E n \in Nat : \A i \in 1..Len(columns[h]) : seen[h][i] = n
BY DEF LevelAt

(* A clone holds what the block holds.                                     *)
LEMMA CloneStep ==
  ASSUME IInv, NEW h \in Handles, NEW g \in Handles, Clone(h, g)
  PROVE  IInv'
<1>1. /\ Usable /\ h \in Live /\ g \notin Live /\ UNCHANGED <<data, target, cells, result>>
      /\ DOMAIN columns' = Live \cup {g} /\ columns'[g] = columns[h] /\ seen'[g] = seen[h]
      /\ \A x \in Live : columns'[x] = columns[x] /\ seen'[x] = seen[x]
      /\ even' = even \cup {x \in {g} : h \in even}
  BY DEF Clone
<1>2. Live' = Live \cup {g} /\ target = None /\ result \notin Panics
  BY <1>1 DEF Live, Usable
<1>3. Typed'
  <2>1. /\ columns' = [x \in Live' |-> IF x = g THEN columns[h] ELSE columns[x]]
        /\ seen' = [x \in Live' |-> IF x = g THEN seen[h] ELSE seen[x]]
    BY <1>2 DEF Clone
  <2>2. columns' \in [Live' -> Seq(Column)] /\ seen' \in [Live' -> Seq(Nat)]
    BY <1>1, <1>2, <2>1 DEF IInv, Typed
  <2> QED
    BY <1>1, <1>2, <2>2 DEF IInv, Typed
<1>4. Pointers'
  BY <1>1, <1>2 DEF IInv, Pointers
<1>5. Held'
  BY <1>1, <1>2 DEF IInv, Held
<1>6. Distinct'
  BY <1>1, <1>2 DEF IInv, Distinct
<1>7. ASSUME NEW x \in even'
      PROVE  LevelAt(x)'
  <2>1. PICK y \in even : columns'[x] = columns[y] /\ seen'[x] = seen[y] /\ y # None /\ x # None
    BY <1>1, <1>2, <1>7 DEF IInv, Typed, Handles, None
  <2>2. LevelAt(y)
    BY <1>2 DEF IInv, Level
  <2>3. PICK n \in Nat : \A i \in 1..Len(columns[y]) : seen[y][i] = n
    BY <1>2, <2>1, <2>2, LevelElsewhere
  <2> QED
    BY <1>1, <1>2, <2>1, <2>3 DEF LevelAt
<1>8. Level' /\ Panicked'
  BY <1>1, <1>2, <1>7 DEF Level, Panicked
<1> QED
  BY <1>3, <1>4, <1>5, <1>6, <1>8 DEF IInv

(* The blocks that are left keep what they have.                           *)
LEMMA DropStep ==
  ASSUME IInv, NEW h \in Handles, Drop(h)
  PROVE  IInv'
<1>1. /\ Usable /\ h \in Live /\ UNCHANGED <<data, target, cells, result>>
      /\ Cardinality(Live) > 1 /\ even' = even \ {h}
      /\ columns' = [x \in Live \ {h} |-> columns[x]] /\ seen' = [x \in Live \ {h} |-> seen[x]]
  BY DEF Drop
<1>2. /\ Live' = Live \ {h} /\ target = None /\ result \notin Panics
      /\ \A x \in Live \ {h} : columns'[x] = columns[x] /\ seen'[x] = seen[x]
  BY <1>1 DEF Live, Usable
<1>3. Live' # {}
  <2>1. CASE Live = {h}
    BY <1>1, <2>1, FS_Singleton
  <2> QED
    BY <1>1, <1>2, <2>1
<1>4. Typed'
  <2>1. columns' \in [Live' -> Seq(Column)] /\ seen' \in [Live' -> Seq(Nat)]
    BY <1>1, <1>2 DEF IInv, Typed
  <2> QED
    BY <1>1, <1>2, <1>3, <2>1 DEF IInv, Typed
<1>5. Pointers' /\ Held' /\ Distinct'
  <2>1. Pointers'
    BY <1>1, <1>2 DEF IInv, Pointers
  <2>2. Held'
    BY <1>1, <1>2 DEF IInv, Held
  <2>3. Distinct'
    BY <1>1, <1>2 DEF IInv, Distinct
  <2> QED
    BY <2>1, <2>2, <2>3
<1>6. ASSUME NEW x \in even'
      PROVE  LevelAt(x)'
  <2>1. x \in Live \ {h} /\ x # None /\ LevelAt(x)
    BY <1>1, <1>2, <1>6 DEF IInv, Typed, Level, Handles, None
  <2>2. PICK n \in Nat : \A i \in 1..Len(columns[x]) : seen[x][i] = n
    BY <1>2, <2>1, LevelElsewhere
  <2> QED
    BY <1>1, <1>2, <2>1, <2>2 DEF LevelAt
<1>7. Level' /\ Panicked'
  BY <1>1, <1>2, <1>6 DEF Level, Panicked
<1> QED
  BY <1>4, <1>5, <1>7 DEF IInv


(* Column names when one is added, which the block does not have yet.      *)
LEMMA AddedDistinct ==
  ASSUME IInv, NEW h \in Live, NEW name \in Names, NEW n \in Nat, Added(h, name, n),
         UNCHANGED cells, Position(h, name) = {}
  PROVE  Distinct' /\ Live' = Live
<1>1. Live' = Live
  BY DEF Added, Live
<1>2. PICK l \in Nat : l = Len(columns[h])
  BY DEF IInv, Typed
<1>3. Len(columns'[h]) = l + 1 /\ columns'[h][l + 1].name = name
      /\ \A i \in 1..l : columns'[h][i] = columns[h][i] /\ columns[h][i].name # name
  BY <1>2 DEF Added, Position
<1>4. ASSUME NEW i \in 1..l + 1, NEW j \in 1..l + 1, columns'[h][i].name = columns'[h][j].name
      PROVE  i = j
  <2>1. CASE i \in 1..l /\ j \in 1..l
    BY <1>2, <1>3, <1>4, <2>1 DEF IInv, Distinct
  <2>2. CASE i = l + 1 \/ j = l + 1
    BY <1>3, <1>4, <2>2
  <2> QED
    BY <2>1, <2>2
<1>5. \A g \in Live \ {h} : columns'[g] = columns[g]
  BY DEF Added
<1>6. ASSUME NEW g \in Live, NEW i \in 1..Len(columns'[g]), NEW j \in 1..Len(columns'[g]),
             columns'[g][i].name = columns'[g][j].name
      PROVE  i = j
  <2>1. CASE g = h
    BY <1>3, <1>4, <1>6, <2>1
  <2>2. CASE g # h
    BY <1>5, <1>6, <2>2 DEF IInv, Distinct
  <2> QED
    BY <2>1, <2>2
<1> QED
  BY <1>1, <1>6 DEF IInv, Distinct

(* A whole column, which has as many rows as the others.                   *)
LEMMA AddColumnStep ==
  ASSUME IInv, NEW h \in Handles, NEW name \in Names, NEW n \in 0..MaxRows, AddColumn(h, name, n)
  PROVE  IInv'
<1>1. /\ h \in Live /\ Position(h, name) = {} /\ UNCHANGED <<target, cells, even>>
      /\ target = None /\ result \notin Panics /\ n \in Nat
  BY NamesAssumption DEF AddColumn, Usable
<1>2. CASE ~SameSize(h, n)
  <2>1. result' = "ragged" /\ UNCHANGED <<columns, data, seen>>
    BY <1>2 DEF AddColumn
  <2>2. Typed' /\ Pointers' /\ Held' /\ Distinct'
    BY <1>1, <2>1, Untouched DEF IInv, Panics
  <2>3. Level' /\ Panicked'
    BY <1>1, <2>1 DEF Level, Panicked, Panics
  <2> QED
    BY <2>2, <2>3 DEF IInv
<1>3. CASE SameSize(h, n)
  <2>1. WithColumn(h, name, n) /\ result' = "ok"
    BY <1>3 DEF AddColumn
  <2>2. Added(h, name, n) /\ Pointers' /\ Held'
    BY <1>1, <2>1, ColumnAdded DEF IInv
  <2>3. Distinct' /\ Live' = Live
    BY <1>1, <2>2, AddedDistinct
  <2>4. Typed'
    BY <1>1, <2>1, <2>2, <2>3 DEF Added, IInv, Typed
  <2>5. ASSUME NEW g \in even
        PROVE  LevelAt(g)'
    <3>1. g \in Live /\ g # target /\ LevelAt(g)
      BY <1>1, <2>5 DEF IInv, Typed, Level, Handles, None
    <3>2. PICK m \in Nat : \A i \in 1..Len(columns[g]) : seen[g][i] = m
      BY <3>1, LevelElsewhere
    <3>3. CASE g # h
      <4>1. columns'[g] = columns[g] /\ seen'[g] = seen[g]
        BY <2>2, <3>1, <3>3 DEF Added
      <4> QED
        BY <1>1, <3>1, <3>2, <4>1 DEF LevelAt
    <3>4. CASE g = h
      <4>1. PICK l \in Nat : l = Len(columns[h])
        BY <1>1 DEF IInv, Typed
      <4>2. /\ Len(columns'[h]) = l + 1 /\ seen'[h][l + 1] = n
            /\ \A i \in 1..l : seen'[h][i] = seen[h][i]
        BY <2>2, <4>1 DEF Added
      <4>3. l = 0 \/ n = m
        <5>1. CASE columns[h] = <<>>
          BY <4>1, <5>1
        <5>2. CASE columns[h] # <<>>
          <6>1. 1 \in 1..Len(columns[h])
            BY <1>1, <5>2 DEF IInv, Typed
          <6>2. row_count(h) = seen[h][1]
            BY <1>1, <5>2, <6>1 DEF row_count, IInv, Held
          <6> QED
            BY <1>3, <3>2, <3>4, <5>2, <6>1, <6>2 DEF SameSize
        <5> QED
          BY <5>1, <5>2
      <4>4. \A i \in 1..l + 1 : seen'[h][i] = n
        BY <3>2, <3>4, <4>1, <4>2, <4>3
      <4> QED
        BY <1>1, <3>1, <3>4, <4>2, <4>4 DEF LevelAt
    <3> QED
      BY <3>3, <3>4
  <2>6. Level' /\ Panicked'
    BY <1>1, <2>1, <2>5 DEF Level, Panicked, Panics
  <2> QED
    BY <2>2, <2>3, <2>4, <2>6 DEF IInv
<1> QED
  BY <1>2, <1>3

(* A row begins.                                                           *)
LEMMA PushStep ==
  ASSUME IInv, NEW h \in Handles, NEW row \in GivenRows, Push(h, row)
  PROVE  IInv'
<1>1. /\ h \in Live /\ target = None /\ result \notin Panics /\ target' = h /\ cells' = row
      /\ even' = IF Fits(h, row) THEN even ELSE even \ {h}
      /\ UNCHANGED <<columns, data, result, seen>>
  BY DEF Push, Usable
<1>2. Live' = Live
  BY <1>1 DEF Live
<1>3. row \in Seq(Names) /\ \A i, j \in 1..Len(row) : row[i] = row[j] => i = j
  BY NamesAssumption
<1>4. Typed' /\ Distinct'
  <2>1. Typed'
    BY <1>1, <1>2, <1>3 DEF IInv, Typed
  <2>2. Distinct'
    BY <1>1, <1>2, <1>3 DEF IInv, Distinct
  <2> QED
    BY <2>1, <2>2
<1>5. Pointers' /\ Held'
  BY <1>1, <1>2 DEF IInv, Pointers, Held
<1>6. ASSUME NEW g \in even'
      PROVE  LevelAt(g)'
  <2>1. g \in Live /\ g # target /\ LevelAt(g)
    BY <1>1, <1>6 DEF IInv, Typed, Level, Handles, None
  <2>2. PICK m \in Nat : \A i \in 1..Len(columns[g]) : seen[g][i] = m
    BY <2>1, LevelElsewhere
  <2>3. CASE g # h
    BY <1>1, <2>2, <2>3 DEF LevelAt
  <2>4. CASE g = h /\ columns[h] = <<>>
    <3>1. \A i \in 1..Len(columns[g]) : FALSE
      BY <2>4
    <3>2. 0 \in Nat
      OBVIOUS
    <3> QED
      BY <1>1, <3>1, <3>2 DEF LevelAt
  <2>5. CASE g = h /\ columns[h] # <<>>
    <3>1. Range(row) = {columns[h][i].name : i \in 1..Len(columns[h])}
      BY <1>1, <1>6, <2>5 DEF Fits
    <3>2. \A i \in 1..Len(columns[h]) : columns[h][i].name \in Range(row)
      BY <3>1
    <3>3. \A k \in 1..Len(row) : row[k] \in Range(row)
      BY <1>3 DEF Range
    <3>4. \A k \in 1..Len(row) : Position(h, row[k]) # {}
      BY <3>1, <3>3 DEF Position
    <3>5. \A k \in 1..Len(row) : Position(h, row[k])' # {}
      BY <1>1, <3>4 DEF Position
    <3>6. \A i \in 1..Len(columns[h]) : seen[h][i] = m /\ columns[h][i].name \in Range(row)
      BY <2>2, <2>5, <3>2
    <3> QED
      BY <1>1, <2>5, <3>5, <3>6 DEF LevelAt
  <2> QED
    BY <2>3, <2>4, <2>5
<1>7. Level' /\ Panicked'
  BY <1>1, <1>6 DEF Level, Panicked
<1> QED
  BY <1>4, <1>5, <1>7 DEF IInv


(* A column for a cell of the first row.                                   *)
LEMMA NewColumnStep ==
  ASSUME IInv, NewColumn
  PROVE  IInv'
<1>1. /\ target \in Live /\ cells # <<>> /\ Position(target, Head(cells)) = {}
      /\ WithColumn(target, Head(cells), 0) /\ UNCHANGED <<target, cells, result, even>>
      /\ result \notin Panics
  BY DEF NewColumn, NewRows, IInv, Typed, Panicked
<1>2. cells \in Seq(Names) /\ 1 \in 1..Len(cells) /\ Head(cells) = cells[1] /\ cells[1] \in Names
  BY <1>1 DEF IInv, Typed
<1>3. Added(target, Head(cells), 0) /\ Pointers' /\ Held'
  BY <1>1, <1>2, ColumnAdded DEF IInv
<1>4. Distinct' /\ Live' = Live
  BY <1>1, <1>2, <1>3, AddedDistinct
<1>5. Typed'
  BY <1>1, <1>3, <1>4 DEF Added, IInv, Typed
<1>6. ASSUME NEW g \in even, g # target
      PROVE  LevelAt(g)'
  <2>1. g \in Live /\ LevelAt(g)
    BY <1>1, <1>6 DEF IInv, Typed, Level
  <2>2. PICK m \in Nat : \A i \in 1..Len(columns[g]) : seen[g][i] = m
    BY <1>6, <2>1, LevelElsewhere
  <2>3. columns'[g] = columns[g] /\ seen'[g] = seen[g]
    BY <1>3, <1>6, <2>1 DEF Added
  <2> QED
    BY <1>1, <1>6, <2>2, <2>3 DEF LevelAt
<1>7. ASSUME target \in even
      PROVE  LevelAt(target)'
  <2>1. LevelAt(target)
    BY <1>1, <1>7 DEF IInv, Level
  <2>2. PICK n \in Nat :
          /\ \A i \in 1..Len(columns[target]) :
               seen[target][i] = IF columns[target][i].name \notin Range(cells) THEN n + 1 ELSE n
          /\ n # 0 => \A k \in 1..Len(cells) : Position(target, cells[k]) # {}
    BY <2>1 DEF LevelAt
  <2>3. n = 0
    BY <1>1, <1>2, <2>2
  <2>4. PICK l \in Nat : l = Len(columns[target])
    BY <1>1 DEF IInv, Typed
  <2>5. /\ Len(columns'[target]) = l + 1 /\ columns'[target][l + 1].name = Head(cells)
        /\ seen'[target][l + 1] = 0
        /\ \A i \in 1..l : columns'[target][i] = columns[target][i]
                           /\ seen'[target][i] = seen[target][i]
    BY <1>3, <2>4 DEF Added
  <2>6. Head(cells) \in Range(cells)
    BY <1>2 DEF Range
  <2>7. ASSUME NEW i \in 1..l + 1
        PROVE  seen'[target][i]
               = IF columns'[target][i].name \notin Range(cells) THEN n + 1 ELSE n
    <3>1. CASE i = l + 1
      BY <2>3, <2>5, <2>6, <3>1
    <3>2. CASE i \in 1..l
      BY <2>2, <2>4, <2>5, <3>2
    <3> QED
      BY <3>1, <3>2
  <2> QED
    BY <1>1, <2>3, <2>5, <2>7 DEF LevelAt
<1>8. Level' /\ Panicked'
  BY <1>1, <1>6, <1>7 DEF Level, Panicked
<1> QED
  BY <1>3, <1>4, <1>5, <1>8 DEF IInv

(* What is left of a row when its first cell is put.                       *)
LEMMA RestOfRow ==
  ASSUME NEW row \in Seq(Names), row # <<>>,
         \A i, j \in 1..Len(row) : row[i] = row[j] => i = j
  PROVE  /\ Tail(row) \in Seq(Names) /\ Head(row) \in Names
         /\ \A i, j \in 1..Len(Tail(row)) : Tail(row)[i] = Tail(row)[j] => i = j
         /\ \A k \in 1..Len(Tail(row)) : \E j \in 1..Len(row) : Tail(row)[k] = row[j]
         /\ \A name : name \in Range(Tail(row)) <=> name \in Range(row) /\ name # Head(row)
<1>1. PICK n \in Nat : n + 1 = Len(row) /\ n = Len(Tail(row))
  <2>1. PICK m \in Nat : m = Len(row) /\ m # 0
    OBVIOUS
  <2>2. m - 1 \in Nat /\ Len(Tail(row)) = m - 1
    BY <2>1, HeadTailProperties
  <2> QED
    BY <2>1, <2>2
<1>2. /\ Tail(row) \in Seq(Names) /\ Head(row) \in Names /\ Head(row) = row[1]
      /\ \A i \in 1..n : Tail(row)[i] = row[i + 1]
  BY <1>1, HeadTailProperties
<1>3. \A i, j \in 1..n : Tail(row)[i] = Tail(row)[j] => i = j
  <2>1. \A i \in 1..n : i + 1 \in 1..n + 1
    OBVIOUS
  <2> QED
    BY <1>1, <1>2, <2>1
<1>4. \A k \in 1..n : \E j \in 1..n + 1 : Tail(row)[k] = row[j]
  <2>1. \A i \in 1..n : i + 1 \in 1..n + 1
    OBVIOUS
  <2> QED
    BY <1>2, <2>1
<1>5. DOMAIN row = 1..n + 1 /\ DOMAIN Tail(row) = 1..n
  BY <1>1, <1>2
<1>6. ASSUME NEW name \in Range(Tail(row))
      PROVE  name \in Range(row) /\ name # Head(row)
  <2>1. PICK i \in 1..n : name = row[i + 1]
    BY <1>2, <1>5, <1>6 DEF Range
  <2>2. i + 1 \in 1..n + 1 /\ 1 \in 1..n + 1 /\ i + 1 # 1
    OBVIOUS
  <2> QED
    BY <1>1, <1>2, <1>5, <2>1, <2>2 DEF Range
<1>7. ASSUME NEW name \in Range(row), name # Head(row)
      PROVE  name \in Range(Tail(row))
  <2>1. PICK i \in 1..n + 1 : name = row[i]
    BY <1>5, <1>7 DEF Range
  <2>2. PICK k : k = i - 1
    OBVIOUS
  <2>3. k \in 1..n /\ i = k + 1
    BY <1>2, <1>7, <2>1, <2>2
  <2> QED
    BY <1>2, <1>5, <2>1, <2>3 DEF Range
<1> QED
  BY <1>1, <1>2, <1>3, <1>4, <1>6, <1>7

(* A cell.                                                                 *)
LEMMA PutCellStep ==
  ASSUME IInv, NEW touched \in BOOLEAN, PutCell(touched)
  PROVE  IInv'
<1>1. /\ target \in Live /\ cells # <<>> /\ Position(target, Head(cells)) # {}
      /\ cells' = Tail(cells) /\ UNCHANGED <<target, result, even>> /\ result \notin Panics
  BY DEF PutCell, IInv, Typed, Panicked
<1>2. Put /\ Pointers' /\ Held'
  BY PutInPlace, PutCopied DEF IInv
<1>3. Live' = Live
  BY <1>2 DEF Put, Live
<1>4. cells \in Seq(Names) /\ \A i, j \in 1..Len(cells) : cells[i] = cells[j] => i = j
  BY DEF IInv, Typed, Distinct
<1>5. /\ Tail(cells) \in Seq(Names)
      /\ \A i, j \in 1..Len(Tail(cells)) : Tail(cells)[i] = Tail(cells)[j] => i = j
      /\ \A k \in 1..Len(Tail(cells)) : \E j \in 1..Len(cells) : Tail(cells)[k] = cells[j]
      /\ \A name : name \in Range(Tail(cells)) <=> name \in Range(cells) /\ name # Head(cells)
  BY <1>1, <1>4, RestOfRow
<1>6. Typed'
  BY <1>1, <1>2, <1>3, <1>5 DEF Put, IInv, Typed
<1>7. \A h \in Live : /\ Len(columns'[h]) = Len(columns[h])
                      /\ \A j \in 1..Len(columns[h]) : columns'[h][j].name = columns[h][j].name
  BY <1>2 DEF Put
<1>8. Distinct'
  BY <1>1, <1>3, <1>5, <1>7 DEF IInv, Distinct
<1>9. ASSUME NEW g \in even, g # target
      PROVE  LevelAt(g)'
  <2>1. g \in Live /\ LevelAt(g)
    BY <1>1, <1>9 DEF IInv, Typed, Level
  <2>2. PICK m \in Nat : \A i \in 1..Len(columns[g]) : seen[g][i] = m
    BY <1>9, <2>1, LevelElsewhere
  <2>3. \A i \in 1..Len(columns'[g]) : seen'[g][i] = m
    BY <1>2, <1>9, <2>1, <2>2 DEF Put
  <2> QED
    BY <1>1, <1>9, <2>3 DEF LevelAt
<1>10. ASSUME target \in even
       PROVE  LevelAt(target)'
  <2>1. LevelAt(target)
    BY <1>1, <1>10 DEF IInv, Level
  <2>2. PICK n \in Nat :
          /\ \A i \in 1..Len(columns[target]) :
               seen[target][i] = IF columns[target][i].name \notin Range(cells) THEN n + 1 ELSE n
          /\ n # 0 => \A k \in 1..Len(cells) : Position(target, cells[k]) # {}
    BY <2>1 DEF LevelAt
  <2>3. /\ Place \in 1..Len(columns[target]) /\ columns[target][Place].name = Head(cells)
        /\ \A j \in 1..Len(columns[target]) : columns[target][j].name = Head(cells) => j = Place
    BY <1>1, Placed DEF IInv
  <2>4. Head(cells) \in Range(cells)
    <3>1. 1 \in DOMAIN cells /\ Head(cells) = cells[1]
      BY <1>1, <1>4
    <3> QED
      BY <3>1 DEF Range
  <2>5. ASSUME NEW i \in 1..Len(columns[target])
        PROVE  seen'[target][i]
               = IF columns'[target][i].name \notin Range(cells') THEN n + 1 ELSE n
    <3>1. seen'[target][i] = IF i = Place THEN seen[target][i] + 1 ELSE seen[target][i]
      BY <1>1, <1>2 DEF Put
    <3>2. columns'[target][i].name = columns[target][i].name
      BY <1>1, <1>7
    <3>3. CASE i = Place
      <4>1. seen[target][i] = n
        BY <2>2, <2>3, <2>4, <3>3
      <4>2. columns'[target][i].name \notin Range(cells')
        BY <1>1, <1>5, <2>3, <3>2, <3>3
      <4> QED
        BY <3>1, <3>3, <4>1, <4>2
    <3>4. CASE i # Place
      <4>1. columns[target][i].name # Head(cells)
        BY <2>3, <3>4
      <4> QED
        BY <1>1, <1>5, <2>2, <3>1, <3>2, <3>4, <4>1
    <3> QED
      BY <3>3, <3>4
  <2>6. ASSUME n # 0, NEW k \in 1..Len(cells')
        PROVE  \E i \in 1..Len(columns'[target]) : columns'[target][i].name = cells'[k]
    <3>1. PICK j \in 1..Len(cells) : cells'[k] = cells[j]
      BY <1>1, <1>5, <2>6
    <3>2. PICK i \in 1..Len(columns[target]) : columns[target][i].name = cells[j]
      BY <2>2, <2>6 DEF Position
    <3>3. i \in 1..Len(columns'[target]) /\ columns'[target][i].name = cells'[k]
      BY <1>1, <1>7, <3>1, <3>2
    <3> QED
      BY <3>3
  <2>7. Len(columns'[target]) = Len(columns[target])
    BY <1>1, <1>7
  <2> QED
    BY <1>1, <2>5, <2>6, <2>7 DEF LevelAt, Position
<1>11. Level' /\ Panicked'
  BY <1>1, <1>9, <1>10 DEF Level, Panicked
<1> QED
  BY <1>2, <1>6, <1>8, <1>11 DEF IInv

-----------------------------------------------------------------------------
(* The theorems.                                                           *)

(* The invariant holds of the empty block.                                 *)
LEMMA IInvInit == Init => IInv
<1> SUFFICES ASSUME Init PROVE IInv
  OBVIOUS
<1>1. /\ Live = {"block"} /\ columns["block"] = <<>> /\ seen["block"] = <<>> /\ data = <<>>
      /\ target = None /\ cells = <<>> /\ result = "ok" /\ even = {"block"}
  BY DEF Init, Live
<1>2. Typed
  BY <1>1 DEF Init, Typed, Handles
<1>3. Pointers /\ Held /\ Distinct /\ Panicked
  BY <1>1 DEF Pointers, Elements, Held, Distinct, Panicked
<1>4. 0 \in Nat /\ "block" # None
  BY DEF None
<1>5. LevelAt("block")
  BY <1>1, <1>4 DEF LevelAt
<1> QED
  BY <1>1, <1>2, <1>3, <1>5 DEF IInv, Level

(* Every step preserves it.                                                *)
LEMMA IInvStep == IInv /\ [Next]_vars => IInv'
<1> SUFFICES ASSUME IInv, [Next]_vars PROVE IInv'
  OBVIOUS
<1>1. ASSUME NEW h \in Handles, NEW g \in Handles, Clone(h, g) PROVE IInv'
  BY <1>1, CloneStep
<1>2. ASSUME NEW h \in Handles, Drop(h) PROVE IInv'
  BY <1>2, DropStep
<1>3. ASSUME NEW h \in Handles, NEW name \in Names, NEW n \in 0..MaxRows, AddColumn(h, name, n)
      PROVE  IInv'
  BY <1>3, AddColumnStep
<1>4. ASSUME NEW h \in Handles, NEW row \in GivenRows, Push(h, row) PROVE IInv'
  BY <1>4, PushStep
<1>5. CASE NewColumn \/ Refuse \/ Done \/ PanicShared
  BY <1>5, NewColumnStep, RefuseStep, DoneStep, PanicStep
<1>6. ASSUME NEW touched \in BOOLEAN, PutCell(touched) PROVE IInv'
  BY <1>6, PutCellStep
<1>7. CASE UNCHANGED vars
  <2>1. UNCHANGED <<columns, data, target, cells, result, seen, even>>
    BY <1>7 DEF vars
  <2>2. Typed' /\ Pointers'
    BY <2>1 DEF IInv, Typed, Live, Pointers
  <2>3. Held' /\ Distinct' /\ Panicked'
    BY <2>1 DEF IInv, Live, Held, Distinct, Panicked
  <2>4. Level'
    <3>1. ASSUME NEW h, LevelAt(h) PROVE LevelAt(h)'
      BY <2>1, <3>1 DEF LevelAt, Position
    <3> QED
      BY <2>1, <3>1 DEF IInv, Level
  <2> QED
    BY <2>2, <2>3, <2>4 DEF IInv
<1> QED
  BY <1>1, <1>2, <1>3, <1>4, <1>5, <1>6, <1>7 DEF Next

(* So it is invariant.                                                     *)
LEMMA IInvHolds == Spec => []IInv
BY IInvInit, IInvStep, PTL DEF Spec

(* Type correctness: every column points to data, which has elements if    *)
(* and only if its type does.                                              *)
THEOREM BlocksTypeOK == Spec => []TypeOK
<1>1. IInv => TypeOK
  <2> SUFFICES ASSUME IInv PROVE TypeOK
    OBVIOUS
  <2>1. ASSUME NEW c \in Columns
        PROVE  /\ columns[c[1]][c[2]].name \in Names
               /\ columns[c[1]][c[2]].data \in 1..Len(data)
               /\ columns[c[1]][c[2]].name \in Flat
                    <=> data[columns[c[1]][c[2]].data].inner = NoData
    <3>1. PICK h \in Live : \E i \in 1..Len(columns[h]) : c = <<h, i>>
      BY <2>1 DEF Columns
    <3>2. PICK i \in 1..Len(columns[h]) : c = <<h, i>>
      BY <3>1
    <3>3. PICK x : x = columns[h][i]
      OBVIOUS
    <3>4. x \in Column /\ Sound(x, data)
      BY <3>3 DEF IInv, Typed, Pointers
    <3>5. x.name \in Names
      BY <3>4 DEF Column
    <3>6. x = columns[c[1]][c[2]]
      BY <3>2, <3>3
    <3> QED
      BY <3>4, <3>5, <3>6 DEF Sound
  <2>2. \A p \in 1..Len(data) : data[p].rows \in Nat /\ data[p].inner \in 0..Len(data)
    <3>1. \A p \in 1..Len(data) : data[p] \in Datum
      BY DEF IInv, Typed
    <3> QED
      BY <3>1 DEF IInv, Pointers, Elements, Datum
  <2> QED
    BY <2>1, <2>2 DEF TypeOK, IInv, Typed
<1> QED
  BY <1>1, IInvHolds, PTL

(* A block holds what was put into it: a push into a block never shows in  *)
(* a clone of it, however their columns and elements are shared.           *)
THEOREM BlocksIsolated == Spec => []Isolated
<1>1. IInv => Isolated
  <2> SUFFICES ASSUME IInv, NEW h \in Live PROVE RowsOf(h) = seen[h]
    BY DEF Isolated
  <2>1. PICK n \in Nat, s \in Seq(Nat) : n = Len(columns[h]) /\ s = seen[h] /\ Len(s) = n
    BY DEF IInv, Typed, Held
  <2>2. DOMAIN s = 1..n /\ s = [i \in 1..n |-> s[i]]
    BY <2>1
  <2>3. \A i \in 1..n : data[columns[h][i].data].rows = s[i]
    BY <2>1 DEF IInv, Held
  <2> QED
    BY <2>1, <2>2, <2>3 DEF RowsOf
<1> QED
  BY <1>1, IInvHolds, PTL

(* A nested column has the elements of its rows, also when its data was    *)
(* copied or its elements stayed shared: what len() of it asserts.         *)
THEOREM BlocksElementsMatch == Spec => []ElementsMatch
<1>1. IInv => ElementsMatch
  <2> SUFFICES ASSUME IInv, NEW c \in Columns, columns[c[1]][c[2]].name \in Nested
               PROVE  data[data[columns[c[1]][c[2]].data].inner].rows
                      = data[columns[c[1]][c[2]].data].rows
    BY DEF ElementsMatch
  <2>1. PICK h \in Live : \E i \in 1..Len(columns[h]) : c = <<h, i>>
    BY DEF Columns
  <2>2. PICK i \in 1..Len(columns[h]) : c = <<h, i>>
    BY <2>1
  <2> QED
    BY <2>2 DEF IInv, Pointers, Sound
<1> QED
  BY <1>1, IInvHolds, PTL

(* A block that was given rows of the same columns only is a rectangle     *)
(* between calls.                                                          *)
THEOREM BlocksRectangular == Spec => []Rectangular
<1>1. IInv => Rectangular
  <2> SUFFICES ASSUME IInv, Usable, NEW h \in even PROVE SameLength(h)
    BY DEF Rectangular
  <2>1. target = None /\ result \notin Panics /\ h \in Live /\ h # target
    BY DEF Usable, IInv, Typed, Handles, None
  <2>2. PICK n \in Nat : \A i \in 1..Len(columns[h]) : seen[h][i] = n
    BY <2>1, LevelElsewhere DEF IInv, Level
  <2>3. \A i \in 1..Len(columns[h]) : RowsOf(h)[i] = n
    BY <2>1, <2>2 DEF RowsOf, IInv, Held
  <2> QED
    BY <2>3 DEF SameLength
<1> QED
  BY <1>1, IInvHolds, PTL

(* And its rows are never refused.                                         *)
THEOREM BlocksAcceptsRows == Spec => AcceptsRows
<1>1. IInv /\ [Next]_vars
      => [target # None /\ target' = None /\ result' = "err" => target \notin even]_vars
  <2> SUFFICES ASSUME IInv, Next, target # None, target' = None, result' = "err"
               PROVE  target \notin even
    OBVIOUS
  <2>1. CASE Refuse
    BY <2>1, RefuseStep
  <2>2. CASE Done \/ PanicShared
    BY <2>2 DEF Done, PanicShared
  <2>3. ASSUME NEW h \in Handles, NEW g \in Handles, NEW name \in Names, NEW n \in 0..MaxRows,
               NEW row \in GivenRows,
               Clone(h, g) \/ Drop(h) \/ AddColumn(h, name, n) \/ Push(h, row)
        PROVE  FALSE
    BY <2>3 DEF Clone, Drop, AddColumn, Push, Usable
  <2>4. CASE NewColumn \/ \E touched \in BOOLEAN : PutCell(touched)
    BY <2>4 DEF NewColumn, PutCell
  <2> QED
    BY <2>1, <2>2, <2>3, <2>4 DEF Next, Clone, Drop, AddColumn, Push, Usable
<1> QED
  BY <1>1, IInvHolds, PTL DEF Spec, AcceptsRows

=============================================================================
