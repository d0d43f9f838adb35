----------------------------- MODULE ColumnIter -----------------------------
(***************************************************************************)
(* Column::iter (column/iter/mod.rs): the cells of a column one by one,    *)
(* without at().  An iterator takes pointers into the memory of a column;  *)
(* which layer of nested columns a pointer is for, it says by a level and, *)
(* for the keys of maps, by props.  The columns above hand the call down.  *)
(*                                                                         *)
(* An iterator is a record; next(it) is what a call returns and what the   *)
(* iterator is afterwards.  A pointer to cells is the column that has      *)
(* them.  One that is of another type than the iterator takes it to be is  *)
(* undefined behaviour: next() is then Undefined.                          *)
(***************************************************************************)
EXTENDS Columns

UnsupportedOperation == [err |-> "UnsupportedOperation"]
Undefined == [undefined |-> TRUE]

OrError(x, F(_)) == IF x \in {Panic, InvalidType, UnsupportedOperation, Undefined} THEN x ELSE F(x)

(* Ranges of u32; props is an odd number above the keys of a map, one for  *)
(* the map itself and two more for each layer above it.                    *)
NextProps_kept(props) == props
NextProps(props) == IF props = 0 THEN 0 ELSE 1 + 2 * (props \div 2 - 1)

(* A pointer to cells, to the ends of rows or to the nulls.                *)
RECURSIVE get_internal(_, _, _)
get_internal(col, lev, props) ==
  CASE col.c \in {"array", "nullable"} ->
         IF lev # level(sql_type(col)) THEN get_internal(col.inner, lev, props)
         ELSE [list |-> IF col.c = "array" THEN col.offsets ELSE col.nulls]
    [] col.c = "map" ->
         IF props = 1 THEN get_internal(col.keys, lev, 0)
         ELSE IF lev = level(sql_type(col)) THEN [list |-> col.offsets]
         ELSE get_internal(col.values, lev, NextProps(props))
    [] col.c = "simple_agg_func" -> get_internal(col.inner, lev, props)
    [] col.c \in {"low_cardinality", "chunk", "concat", "chrono_adapter"} \cup Adapters ->
         UnsupportedOperation
    [] OTHER -> IF lev # 0 THEN Panic ELSE [of |-> col]

(* Only columns of times and dictionaries answer this one; columns around  *)
(* them do not hand it down.                                               *)
Accessors == {"string", "fixed_string", "date"}
RECURSIVE get_internals(_, _)
get_internals(col, lev) ==
  CASE col.c \in {"date", "datetime64"} -> [of |-> col]
    [] col.c = "low_cardinality" ->
         IF lev # 1 THEN get_internals(col.inner, lev)
         ELSE IF col.inner.c \in Accessors THEN [of |-> col.inner, index |-> col.index]
         ELSE UnsupportedOperation
    [] OTHER -> UnsupportedOperation

RECURSIVE check_type(_, _)
check_type(src, dst) ==
  IF src.t = "SimpleAggregateFunction" THEN check_type(src.of, dst) ELSE src = dst

-----------------------------------------------------------------------------
(* Iterators over cells: T is what they return, `of` the column they point *)
(* into, `size` how many cells they go through and `ty` the type they were *)
(* made for.  Those of a dictionary have its index.                        *)

CellIter(T, of, size, ty) ==
  [kind |-> "cells", T |-> T, of |-> of, size |-> size, ty |-> ty, at |-> 0]
LowCardIter(T, of, index, ty) ==
  [kind |-> "low_cardinality", T |-> T, of |-> of, size |-> Len(index), ty |-> ty, at |-> 0,
   index |-> index]
Pointed(T, col, ty, props) ==
  OrError(get_internal(col, 0, props), LAMBDA p : CellIter(T, p.of, len(p.of), ty))

NumberIter(T, col, ty, props) ==
  IF check_type(ty, Leaf(T.t)) THEN Pointed(T, col, ty, props) ELSE InvalidType

(* No other type is refused.                                               *)
Ipv4Iter(T, col, ty, props) == Pointed(T, col, ty, props)
Ipv6Iter(T, col, ty, props) == Pointed(T, col, ty, props)
UuidIter(T, col, ty, props) == Pointed(T, col, ty, props)

StringIter(T, col, ty, props) ==
  CASE ty.t = "LowCardinality" /\ ty.of.t \in {"String", "FixedString"} ->
         OrError(get_internals(col, 1), LAMBDA p : LowCardIter(T, p.of, p.index, ty))
    [] ty.t = "String" -> Pointed(T, col, ty, props)
    [] ty.t = "FixedString" -> Pointed(T, col, ty, 0)
    [] OTHER -> InvalidType

DecimalIter(T, col, ty) == IF ty.t = "Decimal" THEN Pointed(T, col, ty, 0) ELSE InvalidType

TimesOf(T, col, ty, Fits(_)) ==
  CASE ty.t = "LowCardinality" /\ Fits(ty.of) ->
         OrError(get_internals(col, 1), LAMBDA p : LowCardIter(T, p.of, p.index, ty))
    [] Fits(ty) ->
         OrError(get_internals(col, 0), LAMBDA p : CellIter(T, p.of, len(p.of), ty))
    [] OTHER -> InvalidType
DateTimeIter(T, col, ty) == TimesOf(T, col, ty, is_datetime)
DateIter(T, col, ty) == TimesOf(T, col, ty, LAMBDA x : x.t = "Date")

RECURSIVE iter_with_props(_, _, _, _)
NullableIter(T, col, ty, props) ==
  IF ty.t # "Nullable" THEN InvalidType
  ELSE OrError(iter_with_props(T.of, col, ty.of, 0), LAMBDA inner :
         OrError(get_internal(col, level(ty), props), LAMBDA p :
           [kind |-> "nullable", inner |-> inner, nulls |-> p.list, at |-> 0]))

ArrayIter(T, col, ty, props) ==
  IF ty.t # "Array" THEN InvalidType
  ELSE OrError(iter_with_props(T.of, col, ty.of, props), LAMBDA inner :
         OrError(get_internal(col, level(ty), 0), LAMBDA p :
           [kind |-> "array", inner |-> inner, offsets |-> p.list, at |-> 0]))

(* k_level: how many layers of the column lie above this map.              *)
MapIter(T, col, ty, props) ==
  LET k_level == map_level(sql_type(col)) - map_level(ty)
  IN  IF ty.t # "Map" THEN InvalidType
      ELSE OrError(iter_with_props(T.key, col, ty.key, 1 + 2 * k_level), LAMBDA ks :
             OrError(iter_with_props(T.value, col, ty.value, 0), LAMBDA vs :
               OrError(get_internal(col, level(ty), props), LAMBDA p :
                 [kind |-> "map", keys |-> ks, values |-> vs, offsets |-> p.list, at |-> 0])))

(* There is none over enums.                                               *)
RECURSIVE is_iterable(_)
is_iterable(T) ==
  CASE T.t \in {"Nullable", "Array"} -> is_iterable(T.of)
    [] T.t = "Map" -> is_iterable(T.key) /\ is_iterable(T.value)
    [] OTHER -> T.t \notin Enums

iter_with_props(T, col, ty, props) ==
  CASE T.t \in Numbers -> NumberIter(T, col, ty, props)
    [] T.t = "Ipv4" -> Ipv4Iter(T, col, ty, props)
    [] T.t = "Ipv6" -> Ipv6Iter(T, col, ty, props)
    [] T.t = "Uuid" -> UuidIter(T, col, ty, props)
    [] T.t = "String" -> StringIter(T, col, ty, props)
    [] T.t = "Decimal" -> DecimalIter(T, col, ty)
    [] T.t = "Date" -> DateIter(T, col, ty)
    [] T.t = "DateTime32" -> DateTimeIter(T, col, ty)
    [] T.t = "Nullable" -> NullableIter(T, col, ty, props)
    [] T.t = "Array" -> ArrayIter(T, col, ty, props)
    [] T.t = "Map" -> MapIter(T, col, ty, props)

(* Concatenated columns are gone through one after the other; the iterator *)
(* of the first is made by the first call of next().                       *)
ComplexIter(T, col) ==
  [kind |-> "complex", T |-> T, ty |-> sql_type(col), data |-> col.data, chunk |-> 0, current |-> None]

iter(T, col) ==
  IF col.c = "concat" THEN ComplexIter(T, col) ELSE iter_with_props(T, col, sql_type(col), 0)

-----------------------------------------------------------------------------
(* next(), nth() and len()                                                 *)

Returned(item, it) == [item |-> item, it |-> it]

NumberItem(it, x) == IF it.of.c = "vector" /\ it.of.ty = it.T.t THEN [n |-> x] ELSE Undefined
StringItem(it, x) == IF it.of.c \in {"string", "fixed_string"} THEN [bytes |-> x] ELSE Undefined
Ipv4Item(it, x) == IF it.of.c = "ip" THEN [bytes |-> Reverse(x)] ELSE Undefined
Ipv6Item(it, x) == IF it.of.c = "ip" THEN [bytes |-> x] ELSE Undefined
UuidItem(it, x) == IF it.of.c = "ip" THEN [bytes |-> UuidHalves(x)] ELSE Undefined
DecimalItem(it, x) == IF it.of.c = "decimal" THEN [x |-> x, s |-> it.ty.s] ELSE Undefined
DateItem(it, x) == [n |-> x]
DateTimeItem(it, x) ==
  IF it.of.c = "datetime64" THEN to_datetime(x, it.of.p) ELSE [ticks |-> x * TicksPerSecond]

ItemOf(it, x) ==
  CASE it.T.t \in Numbers -> NumberItem(it, x)
    [] it.T.t = "String" -> StringItem(it, x)
    [] it.T.t = "Ipv4" -> Ipv4Item(it, x)
    [] it.T.t = "Ipv6" -> Ipv6Item(it, x)
    [] it.T.t = "Uuid" -> UuidItem(it, x)
    [] it.T.t = "Decimal" -> DecimalItem(it, x)
    [] it.T.t = "Date" -> DateItem(it, x)
    [] it.T.t = "DateTime32" -> DateTimeItem(it, x)

get_by_index(it) == IF it.kind = "low_cardinality" THEN it.index[it.at + 1] ELSE it.at

CellNext(it) ==
  IF it.at = it.size THEN Returned(None, it)
  ELSE Returned(ItemOf(it, it.of.data[get_by_index(it) + 1]), [it EXCEPT !.at = @ + 1])

(* How many elements the row the iterator stands at has.                   *)
RowSize(it) == it.offsets[it.at + 1] - (IF it.at > 0 THEN it.offsets[it.at] ELSE 0)

RECURSIVE next(_), NextItems(_, _)
Prepend(item, more) == Returned((IF item = None THEN <<>> ELSE <<item>>) \o more.item, more.it)
NextAnd(first, n) == Prepend(first.item, NextItems(first.it, n - 1))

(* The next n elements, fewer when there are no more.                      *)
NextItems(it, n) ==
  IF n = 0 THEN Returned(<<>>, it)
  ELSE NextAnd(next(it), n)

NullableItem(it, x) ==
  IF x.item = None THEN Returned(None, [it EXCEPT !.inner = x.it])
  ELSE Returned(IF it.nulls[it.at + 1] # 0 THEN [none |-> TRUE] ELSE [some |-> x.item],
                [it EXCEPT !.inner = x.it, !.at = @ + 1])
NullableNext(it) ==
  IF it.at = Len(it.nulls) THEN Returned(None, it) ELSE NullableItem(it, next(it.inner))

ArrayItem(it, x) == Returned([vec |-> x.item], [it EXCEPT !.inner = x.it, !.at = @ + 1])
ArrayNext(it) ==
  IF it.at = Len(it.offsets) THEN Returned(None, it)
  ELSE ArrayItem(it, NextItems(it.inner, RowSize(it)))

(* insert() of a HashMap: the last value of a key stays.                   *)
Collected(keys, values) ==
  [k \in {keys[j] : j \in DOMAIN values} |->
     values[CHOOSE j \in DOMAIN values :
              keys[j] = k /\ \A m \in j + 1..Len(values) : keys[m] # k]]
MapItem(it, ks, vs) ==
  Returned([map |-> Collected(ks.item, vs.item)],
           [it EXCEPT !.keys = ks.it, !.values = vs.it, !.at = @ + 1])
MapValues(it, ks) == MapItem(it, ks, NextItems(it.values, Len(ks.item)))
MapNext(it) ==
  IF it.at = Len(it.offsets) THEN Returned(None, it)
  ELSE MapValues(it, NextItems(it.keys, RowSize(it)))

(* A chunk without rows is skipped, one whose iterator cannot be made is   *)
(* unwrapped.                                                              *)
NextChunk(it) ==
  LET filled == {k \in it.chunk + 1..Len(it.data) : len(it.data[k]) > 0}
  IN  IF filled = {} THEN Len(it.data) + 1 ELSE CHOOSE k \in filled : \A j \in filled : k <= j

ComplexNext(it) ==
  LET k    == NextChunk(it)
      made == iter_with_props(it.T, it.data[k], it.ty, 0)
      x    == next(it.current)
  IN  CASE it.current = None /\ k > Len(it.data) -> Returned(None, [it EXCEPT !.chunk = Len(it.data)])
        [] it.current = None /\ k <= Len(it.data) ->
             IF made \in {InvalidType, UnsupportedOperation, Panic} THEN Returned(Panic, it)
             ELSE next([it EXCEPT !.chunk = k, !.current = made])
        [] it.current # None ->
             IF x.item = None THEN next([it EXCEPT !.current = None])
             ELSE Returned(x.item, [it EXCEPT !.current = x.it])

next(it) ==
  CASE it.kind \in {"cells", "low_cardinality"} -> CellNext(it)
    [] it.kind = "nullable" -> NullableNext(it)
    [] it.kind = "array" -> ArrayNext(it)
    [] it.kind = "map" -> MapNext(it)
    [] it.kind = "complex" -> ComplexNext(it)

(* How many are left; the iterator of concatenated columns does not know.  *)
left(it) ==
  CASE it.kind \in {"cells", "low_cardinality"} -> it.size - it.at
    [] it.kind = "nullable" -> Len(it.nulls) - it.at
    [] it.kind \in {"array", "map"} -> Len(it.offsets) - it.at

(* Skips n and returns the next.  Iterators of cells do so at once, all    *)
(* others by calling next().                                               *)
After(skipped, n) ==
  IF Len(skipped.item) < n THEN Returned(None, skipped.it) ELSE next(skipped.it)
nth(it, n) ==
  IF it.kind \notin {"cells", "low_cardinality"}
  THEN After(NextItems(it, n), n)
  ELSE IF n >= left(it) THEN Returned(None, [it EXCEPT !.at = it.size])
  ELSE next([it EXCEPT !.at = @ + n])
=============================================================================
