------------------------------- MODULE Blocks -------------------------------
(***************************************************************************)
(* Building a block row by row (block/builder.rs) or column by column      *)
(* (block/mod.rs), while a clone of it shares its columns.  A clone copies *)
(* the Arcs of the columns only; Column::push (column/mod.rs) copies the   *)
(* data of a column that is shared before it changes it.  A column of a    *)
(* composed type has the column of its elements behind an Arc of its own,  *)
(* which that copy shares again.                                           *)
(*                                                                         *)
(* Of the data only the number of rows is kept; an array or map has one    *)
(* element in each row.  The cells of one row are put one after the other, *)
(* as RowBuilder::apply does.                                              *)
(***************************************************************************)
EXTENDS Integers, Sequences, FiniteSets, Functions

CONSTANTS
  Nested,        \* names of columns whose type is Nullable, Array or Map
  Dictionary,    \* names of LowCardinality columns
  Flat,          \* names of the others
  GivenRows,     \* the rows the caller pushes: names in some order
  Columnwise,    \* names of columns the caller may add as a whole
  Clones,        \* may the caller clone the block?
  MaxRows,       \* bound: rows of a column
  MaxData        \* bound: column data ever allocated

Names == Nested \cup Dictionary \cup Flat

ASSUME NamesAssumption ==
  /\ Nested \cap Dictionary = {} /\ (Nested \cup Dictionary) \cap Flat = {}
  /\ GivenRows \subseteq Seq(Names) /\ Columnwise \subseteq Names
  /\ \A row \in GivenRows : \A i, j \in 1..Len(row) : row[i] = row[j] => i = j
  /\ MaxRows \in Nat /\ MaxData \in Nat

Handles == {"block", "clone"}

VARIABLES
  columns,   \* of each block that exists: its columns, a name and a pointer
  data,      \* what the pointers point to: rows, and a pointer to elements
  target,    \* the block that push() runs on, None between calls
  cells,     \* the names still to be put
  result,    \* of the last call: "ok", "err", or which panic ended it
  seen,      \* what each block should hold: its rows for each column
  even       \* the blocks whose rows all named the same columns

vars == <<columns, data, target, cells, result, seen, even>>

None == "none"
NoData == 0
Live == DOMAIN columns

(* Who refers to a piece of data: columns of blocks, and composed columns. *)
Columns == UNION {{<<h, i>> : i \in 1..Len(columns[h])} : h \in Live}
Owners(p) == {c \in Columns : columns[c[1]][c[2]].data = p}
Outer(p) == {q \in 1..Len(data) : data[q].inner = p /\ Owners(q) # {}}
Shared(p) == Cardinality(Owners(p)) + Cardinality(Outer(p)) > 1

Position(h, name) == {i \in 1..Len(columns[h]) : columns[h][i].name = name}

row_count(h) == IF columns[h] = <<>> THEN 0 ELSE data[columns[h][1].data].rows

RowsOf(h) == [i \in 1..Len(columns[h]) |-> data[columns[h][i].data].rows]

Init ==
  /\ columns = [h \in {"block"} |-> <<>>]
  /\ data = <<>> /\ target = None /\ cells = <<>> /\ result = "ok"
  /\ seen = [h \in {"block"} |-> <<>>] /\ even = {"block"}

Panics == {"ragged", "shared"}
Usable == target = None /\ result \notin Panics

-----------------------------------------------------------------------------
(* Blocks as a whole                                                       *)

Clone(h, g) ==
  /\ Clones /\ Usable /\ h \in Live /\ g \notin Live
  /\ columns' = [x \in Live \cup {g} |-> IF x = g THEN columns[h] ELSE columns[x]]
  /\ seen' = [x \in Live \cup {g} |-> IF x = g THEN seen[h] ELSE seen[x]]
  /\ even' = even \cup {x \in {g} : h \in even}
  /\ UNCHANGED <<data, target, cells, result>>

Drop(h) ==
  /\ Usable /\ h \in Live /\ Cardinality(Live) > 1
  /\ columns' = [x \in Live \ {h} |-> columns[x]]
  /\ seen' = [x \in Live \ {h} |-> seen[x]]
  /\ even' = even \ {h}
  /\ UNCHANGED <<data, target, cells, result>>

(* The data of a new column, and of its elements if its type is composed.  *)
NewData_plain(name, n) == Append(data, [rows |-> n, inner |-> NoData])
NewData(name, n) ==
  IF name \in Nested \cup Dictionary
  THEN data \o <<[rows |-> n, inner |-> NoData], [rows |-> n, inner |-> Len(data) + 1]>>
  ELSE Append(data, [rows |-> n, inner |-> NoData])

WithColumn(h, name, n) ==
  /\ Len(data) + 2 <= MaxData
  /\ data' = NewData(name, n)
  /\ columns' = [columns EXCEPT ![h] = Append(@, [name |-> name, data |-> Len(NewData(name, n))])]
  /\ seen' = [seen EXCEPT ![h] = Append(@, n)]

SameSize(h, n) == columns[h] # <<>> => row_count(h) = n

(* column(): panics if the sizes differ.  The caller repeats no name.      *)
AddColumn(h, name, n) ==
  /\ name \in Columnwise /\ Usable /\ h \in Live /\ Position(h, name) = {}
  /\ IF SameSize(h, n)
     THEN WithColumn(h, name, n) /\ result' = "ok"
     ELSE result' = "ragged" /\ UNCHANGED <<columns, data, seen>>
  /\ UNCHANGED <<target, cells, even>>

-----------------------------------------------------------------------------
(* push(row)                                                               *)

Fits(h, row) ==
  \/ columns[h] = <<>>
  \/ Range(row) = {columns[h][i].name : i \in 1..Len(columns[h])}

(* No value has a LowCardinality type, so a row makes no such column: they *)
(* come with the blocks of a query.                                        *)
Push(h, row) ==
  /\ Usable /\ h \in Live
  /\ \A k \in 1..Len(row) : row[k] \in Dictionary => Position(h, row[k]) # {}
  /\ \A i \in 1..Len(columns[h]) : RowsOf(h)[i] < MaxRows
  /\ target' = h /\ cells' = row
  /\ even' = IF Fits(h, row) THEN even ELSE even \ {h}
  /\ UNCHANGED <<columns, data, result, seen>>

(* A new name makes a new column, but only while the first row is put, and *)
(* an empty one: the cell that asked for it comes next.                    *)
FirstRow_empty(h) == row_count(h) < 1
FirstRow(h) == row_count(h) <= 1

NewRows_padded(h) == row_count(h)
NewRows(h) == 0

NewColumn ==
  /\ target # None /\ cells # <<>>
  /\ Position(target, Head(cells)) = {} /\ FirstRow(target)
  /\ WithColumn(target, Head(cells), NewRows(target))
  /\ UNCHANGED <<target, cells, result, even>>

Refuse ==
  /\ target # None /\ cells # <<>>
  /\ Position(target, Head(cells)) = {} /\ ~FirstRow(target)
  /\ result' = "err" /\ target' = None /\ cells' = <<>>
  /\ UNCHANGED <<columns, data, seen, even>>

(* The cell's column and its data.                                         *)
Place == CHOOSE i \in Position(target, Head(cells)) :
           \A j \in Position(target, Head(cells)) : i <= j
Pointed == columns[target][Place].data

(* Arc::get_mut on the elements: of the data itself or, if that is shared, *)
(* of its copy, whose elements the original still has.                     *)
ElementsShared_late ==
  data[Pointed].inner # NoData /\ Shared(data[Pointed].inner)
ElementsShared ==
  data[Pointed].inner # NoData /\ (Shared(Pointed) \/ Shared(data[Pointed].inner))

(* A LowCardinality column touches its dictionary for a new value only.    *)
TouchesElements == IF Head(cells) \in Dictionary THEN BOOLEAN ELSE {TRUE}

CopyFirst_never == FALSE
CopyFirst == Shared(Pointed)

Longer(d, touched) ==
  LET p   == Pointed
      new == [d[p] EXCEPT !.rows = @ + 1]
      own == IF CopyFirst THEN Append(d, new) ELSE [d EXCEPT ![p] = new]
  IN  IF touched /\ d[p].inner # NoData
      THEN [own EXCEPT ![d[p].inner].rows = @ + 1] ELSE own

PutCell(touched) ==
  /\ target # None /\ cells # <<>> /\ Position(target, Head(cells)) # {}
  /\ touched \in TouchesElements /\ ~(touched /\ ElementsShared)
  /\ Len(data) < MaxData
  /\ data' = Longer(data, touched)
  /\ columns' = IF CopyFirst THEN [columns EXCEPT ![target][Place].data = Len(data) + 1]
                ELSE columns
  /\ seen' = [seen EXCEPT ![target][Place] = @ + 1]
  /\ cells' = Tail(cells)
  /\ UNCHANGED <<target, result, even>>

(* get_mut(..).unwrap(), or .expect("Column shouldn't be shared").         *)
PanicShared ==
  /\ target # None /\ cells # <<>> /\ Position(target, Head(cells)) # {}
  /\ TRUE \in TouchesElements /\ ElementsShared
  /\ result' = "shared" /\ target' = None /\ cells' = <<>>
  /\ UNCHANGED <<columns, data, seen, even>>

Done ==
  /\ target # None /\ cells = <<>>
  /\ result' = "ok" /\ target' = None
  /\ UNCHANGED <<columns, data, cells, seen, even>>

Next ==
  \/ \E h \in Handles, g \in Handles : Clone(h, g)
  \/ \E h \in Handles : Drop(h)
  \/ \E h \in Handles, name \in Names, n \in 0..MaxRows : AddColumn(h, name, n)
  \/ \E h \in Handles : \E row \in GivenRows : Push(h, row)
  \/ NewColumn \/ Refuse \/ Done
  \/ \E touched \in BOOLEAN : PutCell(touched)
  \/ PanicShared

Spec == Init /\ [][Next]_vars

-----------------------------------------------------------------------------
(* Properties                                                              *)

(* Columns point to data, and composed data to its elements.               *)
TypeOK ==
  /\ Live \in SUBSET Handles /\ Live # {}
  /\ \A c \in Columns : /\ columns[c[1]][c[2]].name \in Names
                        /\ columns[c[1]][c[2]].data \in 1..Len(data)
                        /\ columns[c[1]][c[2]].name \in Flat
                             <=> data[columns[c[1]][c[2]].data].inner = NoData
  /\ \A p \in 1..Len(data) : data[p].rows \in Nat /\ data[p].inner \in 0..Len(data)
  /\ target \in Live \cup {None}
  /\ result \in {"ok", "err"} \cup Panics
  /\ even \subseteq Live

(* A block holds what was put into it, whatever happened to its clones:    *)
(* pushing into one never shows in the other.                              *)
Isolated == \A h \in Live : RowsOf(h) = seen[h]

(* Each row of a composed column has its elements: len() asserts as much   *)
(* of a nullable column.                                                   *)
ElementsMatch ==
  \A c \in Columns :
    LET d == data[columns[c[1]][c[2]].data]
    IN  columns[c[1]][c[2]].name \in Nested => data[d.inner].rows = d.rows

(* Between calls all columns of a block have the same size, as             *)
(* append_column and the writing of a block require, if all rows of the    *)
(* block named the same columns.                                           *)
SameLength(h) == \A i, j \in 1..Len(columns[h]) : RowsOf(h)[i] = RowsOf(h)[j]
Rectangular == Usable => \A h \in even : SameLength(h)

(* The same of every block: not so, see README.md.                         *)
AlwaysRectangular == Usable /\ result = "ok" => \A h \in Live : SameLength(h)

(* push() returns no error as long as every row of the block named the     *)
(* same columns.                                                           *)
AcceptsRows ==
  [][target # None /\ target' = None /\ result' = "err" => target \notin even]_vars

(* A push does not panic because of another block: "Column shouldn't be    *)
(* shared".  Not so, see README.md.                                          *)
NeverShared == result # "shared"
=============================================================================
