------------------------------ MODULE Columns ------------------------------
(***************************************************************************)
(* The columns that are made of other columns, and the calls of ColumnData *)
(* for every kind of column (column/mod.rs, array.rs, nullable.rs, map.rs, *)
(* low_cardinality.rs, simple_agg_func.rs, chunk.rs, concat.rs).           *)
(***************************************************************************)
EXTENDS LeafColumns

CONSTANT IndexMax  \* largest number of each width of index; 255, 65535, ... in the code

ASSUME ColumnsAssumption == IndexMax \in Seq(Nat)

RECURSIVE sql_type(_), len(_), Push(_, _), At(_, _), Save(_, _, _), Load(_, _, _)
RECURSIVE from_type(_), data_cast_to(_, _), column_from(_, _)

FoldPush(col, values) ==
  FoldLeft(LAMBDA acc, v : Then(acc, LAMBDA c : Then(v, LAMBDA x : Push(c, x))), col, values)

(* util.rs: the rows of an adapter as nulls and values of type T.           *)
extract_nulls_and_values(T, refs) ==
  LET values == [i \in DOMAIN refs |-> FromSql(Nullable(T), refs[i])]
  IN  [nulls |-> [i \in DOMAIN refs |-> IF "none" \in DOMAIN values[i] THEN 1 ELSE 0],
       values |-> values]

Refs(col, start, end) == [i \in 1..(end - start) |-> At(col, start + i - 1)]

-----------------------------------------------------------------------------
(* nullable.rs                                                             *)

NullableColumn(inner, nulls) == [c |-> "nullable", inner |-> inner, nulls |-> nulls]

(* A null pushes the default of its type, so that rows stay rows.          *)
NullablePush_skips(col, v) ==
  IF v.k = "Null" THEN [col EXCEPT !.nulls = Append(@, 1)]
  ELSE Then(Push(col.inner, v.v), LAMBDA x : NullableColumn(x, Append(col.nulls, 0)))
NullablePush(col, v) ==
  CASE v.k = "Null" -> Then(Push(col.inner, default(v.of)),
                            LAMBDA x : NullableColumn(x, Append(col.nulls, 1)))
    [] v.k = "Some" -> Then(Push(col.inner, v.v),
                            LAMBDA x : NullableColumn(x, Append(col.nulls, 0)))
    [] OTHER -> Then(Push(col.inner, v), LAMBDA x : NullableColumn(x, Append(col.nulls, 0)))

NullableSave(col, start, end) ==
  Tokens("1", Slice(col.nulls, start, end)) \o Save(col.inner, start, end)

NullableLoad(ty, w, size) ==
  Then(Take(w, "1", size), LAMBDA x :
    Then(Load(ty.of, x.rest, size), LAMBDA y :
      Loaded(NullableColumn(y.col, x.got), y.rest)))

NullableAt(col, i) ==
  IF col.nulls[i + 1] = 1 THEN VNull(sql_type(col.inner))
  ELSE Then(At(col.inner, i), LAMBDA r : VSome(r))

NullableCast(col, target) ==
  IF target.t # "Nullable" THEN None
  ELSE LET inner == data_cast_to(col.inner, target.of)
       IN  IF inner = None THEN None ELSE NullableColumn(inner, col.nulls)

-----------------------------------------------------------------------------
(* array.rs, map.rs: where each row ends, and the elements of all rows     *)

ArrayColumn(inner, offsets) == [c |-> "array", inner |-> inner, offsets |-> offsets]
MapColumn(keys, values, offsets) ==
  [c |-> "map", keys |-> keys, values |-> values, offsets |-> offsets]

LastOf(offsets) == IF offsets = <<>> THEN 0 ELSE Last(offsets)
RowStart(col, i) == IF i > 0 THEN col.offsets[i] ELSE 0

ArrayPush(col, v) ==
  IF v.k # "Array" THEN Panic
  ELSE Then(FoldPush(col.inner, v.vs), LAMBDA x :
         ArrayColumn(x, Append(col.offsets, LastOf(col.offsets) + Len(v.vs))))

(* The offsets as they are, and the elements up to the last of them.       *)
ArraySave(col, start, end) ==
  LET saved == Slice(col.offsets, start, end)
  IN  Tokens("8", saved) \o Save(col.inner, 0, LastOf(saved))

ArrayLoad(ty, w, rows) ==
  Then(Take(w, "8", rows), LAMBDA x :
    Then(Load(ty.of, x.rest, LastOf(x.got)), LAMBDA y :
      Loaded(ArrayColumn(y.col, x.got), y.rest)))

ArrayAt(col, i) ==
  LET vs == Refs(col.inner, RowStart(col, i), col.offsets[i + 1])
  IN  IF Panic \in Range(vs) THEN Panic ELSE VArray(sql_type(col.inner), vs)

ArrayCast(col, target) ==
  IF target.t # "Array" THEN None
  ELSE LET inner == data_cast_to(col.inner, target.of)
       IN  IF inner = None THEN None ELSE ArrayColumn(inner, col.offsets)

(* The pairs of a map come in any order; here in one.                      *)
MapPush(col, v) ==
  IF v.k # "Map" THEN Panic
  ELSE LET ks == SetToSeq(DOMAIN v.m)
       IN  Then(FoldPush(col.keys, ks), LAMBDA x :
             Then(FoldPush(col.values, [i \in DOMAIN ks |-> v.m[ks[i]]]), LAMBDA y :
               MapColumn(x, y, Append(col.offsets, LastOf(col.offsets) + Len(ks)))))

MapSave(col, start, end) ==
  LET saved == Slice(col.offsets, start, end)
  IN  Tokens("8", saved) \o Save(col.keys, 0, LastOf(saved)) \o Save(col.values, 0, LastOf(saved))

MapLoad(ty, w, rows) ==
  Then(Take(w, "8", rows), LAMBDA x :
    Then(Load(ty.key, x.rest, LastOf(x.got)), LAMBDA y :
      Then(Load(ty.value, y.rest, LastOf(x.got)), LAMBDA z :
        Loaded(MapColumn(y.col, z.col, x.got), z.rest))))

(* The keys are hashed, the last of equal ones stays.                      *)
MapAt(col, i) ==
  LET at   == RowStart(col, i)
      end  == col.offsets[i + 1]
      keys == Refs(col.keys, at, end)
      vals == Refs(col.values, at, end)
      LastWith(k) == CHOOSE j \in DOMAIN keys : keys[j] = k /\ \A m \in j + 1..Len(keys) : keys[m] # k
  IN  IF Panic \in Range(vals) \/ \E k \in Range(keys) : k = Panic THEN Panic
      ELSE IF \E k \in Range(keys) : k.k \notin RefHashes THEN Panic
      ELSE VMap(sql_type(col.keys), sql_type(col.values),
                [k \in Range(keys) |-> vals[LastWith(k)]])

MapCast(col, target) ==
  IF target.t # "Map" THEN None
  ELSE LET keys == data_cast_to(col.keys, target.key)
           vals == data_cast_to(col.values, target.value)
       IN  IF None \in {keys, vals} THEN None ELSE MapColumn(keys, vals, col.offsets)

-----------------------------------------------------------------------------
(* low_cardinality.rs: a dictionary, and an index into it for each row     *)

LowCardColumn(inner, index, width) ==
  [c |-> "low_cardinality", inner |-> inner, index |-> index, width |-> width]
LowCardEmpty(of) ==
  Then(from_type(of), LAMBDA inner : LowCardColumn(inner, <<>>, 1))

(* The integers of the index grow with the number of rows.                 *)
NeedsWider_late(col) == Len(col.index) > IndexMax[col.width] + 1
NeedsWider(col) == Len(col.index) + 1 > IndexMax[col.width]
IndexPush(col, ix) ==
  LET width == IF NeedsWider(col) THEN col.width + 1 ELSE col.width
  IN  [col EXCEPT !.index = Append(@, ix % (IndexMax[width] + 1)), !.width = width]

(* The values that rows have; entries no row refers to are not among them. *)
value_map(col) == {[value |-> ToOwned(At(col.inner, ix)), ix |-> ix] : ix \in Range(col.index)}

LowCardPush(col, v) ==
  LET known == {e \in value_map(col) : e.value = v}
  IN  IF v.k \notin ValueHashes THEN Panic
      ELSE IF known # {} THEN IndexPush(col, (CHOOSE e \in known : TRUE).ix)
      ELSE Then(Push(col.inner, v), LAMBDA x :
             IndexPush([col EXCEPT !.inner = x], len(col.inner)))

IndexTag(width) == <<"1", "2", "4", "8">>[width]
Flags_narrow(width) == [index |-> 1, bits |-> {"HasAdditionalKeys", "NeedUpdateDictionary"}]
Flags(width) == [index |-> width, bits |-> {"HasAdditionalKeys", "NeedUpdateDictionary"}]

(* The whole dictionary goes with every chunk, and nothing without rows.   *)
LowCardSave(col, start, end) ==
  IF start = end THEN <<>>
  ELSE << <<"8", 1>>, <<"flags", Flags(col.width)>>, <<"8", len(col.inner)>> >>
         \o Save(col.inner, 0, len(col.inner))
         \o << <<"8", end - start>> >> \o Tokens(IndexTag(col.width), Slice(col.index, start, end))

read_prefix(w) ==
  Then(Take(w, "8", 1), LAMBDA x : IF x.got[1] = 1 THEN x ELSE Corrupt)

CheckFlags(flags) ==
  IF "NeedGlobalDictionary" \in flags.bits \/ "HasAdditionalKeys" \notin flags.bits THEN Corrupt
  ELSE flags

LowCardLoad(ty, w, size) ==
  IF size = 0
  THEN Then(Load(ty.of, w, 0), LAMBDA x : Loaded(LowCardColumn(x.col, <<>>, 1), x.rest))
  ELSE Then(read_prefix(w), LAMBDA a :
       Then(Take(a.rest, "flags", 1), LAMBDA b :
       Then(CheckFlags(b.got[1]), LAMBDA flags :
       Then(Take(b.rest, "8", 1), LAMBDA c :
       Then(Load(ty.of, c.rest, c.got[1]), LAMBDA dict :
       Then(Take(dict.rest, "8", 1), LAMBDA d :
       Then(Take(d.rest, IndexTag(flags.index), d.got[1]), LAMBDA keys :
         IF flags # Flags(flags.index) THEN Panic
         ELSE Loaded(LowCardColumn(dict.col, keys.got, flags.index), keys.rest))))))))

LowCardAt(col, i) == At(col.inner, col.index[i + 1])

-----------------------------------------------------------------------------
(* simple_agg_func.rs, chunk.rs, concat.rs, and the adapters of strings    *)

SimpleAggColumn(inner, func) == [c |-> "simple_agg_func", inner |-> inner, func |-> func]
SimpleAggPush(col, v) ==
  Then(Push(col.inner, v), LAMBDA x : SimpleAggColumn(x, col.func))
SimpleAggLoad(ty, w, size) ==
  Then(Load(ty.of, w, size), LAMBDA x : Loaded(SimpleAggColumn(x.col, ty.func), x.rest))
SimpleAggCast(col, target) ==
  IF target.t # "SimpleAggregateFunction" THEN None
  ELSE LET inner == data_cast_to(col.inner, target.of)
       IN  IF inner = None THEN None ELSE SimpleAggColumn(inner, target.func)

Chunk(data, start, end) == [c |-> "chunk", data |-> data, start |-> start, end |-> end]
ChunkSave(col, start, end) ==
  Save(col.data, col.start + start,
       IF col.end < col.start + end THEN col.end ELSE col.start + end)
ChunkAt(col, i) == IF i >= col.end - col.start THEN Panic ELSE At(col.data, i + col.start)

(* Which chunk has row i is found by a search of its own: ConcatColumn.tla.*)
ConcatColumn(data) == [c |-> "concat", data |-> data]
RowsBefore(col, k) == FoldFunction(LAMBDA a, b : a + b, 0, [j \in 1..k - 1 |-> len(col.data[j])])
ConcatAt(col, i) ==
  LET k == CHOOSE k \in DOMAIN col.data :
             RowsBefore(col, k) <= i /\ i < RowsBefore(col, k) + len(col.data[k])
  IN  At(col.data[k], i - RowsBefore(col, k))

StringAdapter(col) == [c |-> "string_adapter", column |-> col]
BytesOf(r) == LET x == FromSql(Array(Leaf("UInt8")), r)
              IN  IF Failed(x) THEN Panic ELSE [bytes |-> [i \in DOMAIN x.vec |-> x.vec[i].n]]
StringAdapterSave(refs) ==
  [i \in DOMAIN refs |->
    IF Failed(BytesOf(refs[i])) THEN Panics[1] ELSE <<"string", BytesOf(refs[i]).bytes>>]

FixedStringAdapter(col, n) == [c |-> "fixed_string_adapter", column |-> col, n |-> n]
FixedStringAdapterSave(n, refs) ==
  [i \in DOMAIN refs |->
    CASE refs[i].k = "String" -> <<"bytes", Padded(refs[i].bytes, n)>>
      [] refs[i].k = "Array" -> <<"bytes", Padded(BytesOf(refs[i]).bytes, n)>>
      [] OTHER -> Panics[1]]

NullableFixedStringAdapter(col, n) ==
  [c |-> "nullable_fixed_string_adapter", column |-> col, n |-> n]
NullableFixedStringAdapterSave(n, nulls, values) ==
  Tokens("1", nulls) \o
    [i \in DOMAIN values |->
      <<"bytes", Padded(IF nulls[i] = 1 THEN <<>> ELSE values[i].some.bytes, n)>>]

-----------------------------------------------------------------------------
(* The calls of ColumnData                                                 *)

Adapters == {"chrono_adapter", "decimal_adapter", "nullable_decimal_adapter", "enum_adapter",
             "nullable_enum_adapter", "string_adapter", "fixed_string_adapter",
             "nullable_fixed_string_adapter"}

sql_type(col) ==
  CASE col.c \in {"vector", "date", "ip"} -> Leaf(col.ty)
    [] col.c \in {"string", "string_adapter"} -> Leaf("String")
    [] col.c \in {"fixed_string", "fixed_string_adapter"} -> FixedString(col.n)
    [] col.c = "datetime64" -> DateTime64(col.p, col.tz)
    [] col.c = "chrono" -> Leaf("Chrono")
    [] col.c = "chrono_adapter" -> col.dst
    [] col.c \in {"decimal", "decimal_adapter"} -> Decimal(col.p, col.s)
    [] col.c \in {"enum", "enum_adapter"} -> Enum(col.ty, col.values)
    [] col.c = "nullable" -> Nullable(sql_type(col.inner))
    [] col.c = "nullable_decimal_adapter" -> Nullable(Decimal(col.p, col.s))
    [] col.c = "nullable_enum_adapter" -> Nullable(Enum(col.ty, col.values))
    [] col.c = "nullable_fixed_string_adapter" -> Nullable(FixedString(col.n))
    [] col.c = "array" -> Array(sql_type(col.inner))
    [] col.c = "map" -> Map(sql_type(col.keys), sql_type(col.values))
    [] col.c = "low_cardinality" -> LowCardinality(sql_type(col.inner))
    [] col.c = "simple_agg_func" -> SimpleAggregateFunction(col.func, sql_type(col.inner))
    [] col.c = "chunk" -> sql_type(col.data)
    [] col.c = "concat" -> sql_type(col.data[1])

len(col) ==
  CASE col.c \in {"nullable", "simple_agg_func"} -> len(col.inner)
    [] col.c \in {"array", "map"} -> Len(col.offsets)
    [] col.c = "low_cardinality" -> Len(col.index)
    [] col.c = "chunk" -> col.end - col.start
    [] col.c = "concat" -> RowsBefore(col, Len(col.data) + 1)
    [] col.c \in Adapters -> len(col.column)
    [] OTHER -> Len(col.data)

(* Chunks, concatenated columns and adapters cannot be pushed to.          *)
Push(col, v) ==
  CASE col.c = "vector" -> VectorPush(col, v)
    [] col.c = "string" -> StringPush(col, v)
    [] col.c = "fixed_string" -> FixedStringPush(col, v)
    [] col.c = "date" -> DatePush(col, v)
    [] col.c = "datetime64" -> DateTime64Push(col, v)
    [] col.c = "chrono" -> ChronoPush(col, v)
    [] col.c = "decimal" -> DecimalPush(col, v)
    [] col.c = "enum" -> EnumPush(col, v)
    [] col.c = "ip" -> IpPush(col, v)
    [] col.c = "nullable" -> NullablePush(col, v)
    [] col.c = "array" -> ArrayPush(col, v)
    [] col.c = "map" -> MapPush(col, v)
    [] col.c = "low_cardinality" -> LowCardPush(col, v)
    [] col.c = "simple_agg_func" -> SimpleAggPush(col, v)
    [] OTHER -> Panic

At(col, i) ==
  CASE col.c = "vector" -> VectorAt(col, i)
    [] col.c = "string" -> StringAt(col, i)
    [] col.c = "fixed_string" -> FixedStringAt(col, i)
    [] col.c = "date" -> DateAt(col, i)
    [] col.c = "datetime64" -> DateTime64At(col, i)
    [] col.c = "chrono" -> ChronoAt(col, i)
    [] col.c = "decimal" -> DecimalAt(col, i)
    [] col.c = "enum" -> EnumAt(col, i)
    [] col.c = "ip" -> IpAt(col, i)
    [] col.c = "nullable" -> NullableAt(col, i)
    [] col.c = "array" -> ArrayAt(col, i)
    [] col.c = "map" -> MapAt(col, i)
    [] col.c = "low_cardinality" -> LowCardAt(col, i)
    [] col.c = "simple_agg_func" -> At(col.inner, i)
    [] col.c = "chunk" -> ChunkAt(col, i)
    [] col.c = "concat" -> ConcatAt(col, i)
    [] col.c = "chrono_adapter" -> Panic
    [] col.c = "decimal_adapter" -> DecimalAdapterAt(col, At(col.column, i))
    [] col.c = "nullable_decimal_adapter" -> NullableDecimalAdapterAt(col, At(col.column, i))
    [] col.c = "enum_adapter" -> EnumAdapterAt(col, At(col.column, i))
    [] col.c = "nullable_enum_adapter" -> NullableEnumAdapterAt(col, At(col.column, i))
    [] OTHER -> At(col.column, i)

Save(col, start, end) ==
  LET refs     == Refs(col, start, end)
      Split(T) == extract_nulls_and_values(T, refs)
  IN  CASE col.c = "vector" -> VectorSave(col, start, end)
        [] col.c = "string" -> StringSave(col, start, end)
        [] col.c = "fixed_string" -> FixedStringSave(col, start, end)
        [] col.c = "date" -> DateSave(col, start, end)
        [] col.c \in {"datetime64", "chrono", "concat"} -> Panics
        [] col.c = "chrono_adapter" -> ChronoAdapterSave(col, start, end)
        [] col.c = "decimal" -> DecimalSave(col, start, end)
        [] col.c = "enum" -> EnumSave(col, start, end)
        [] col.c = "ip" -> IpSave(col, start, end)
        [] col.c = "nullable" -> NullableSave(col, start, end)
        [] col.c = "array" -> ArraySave(col, start, end)
        [] col.c = "map" -> MapSave(col, start, end)
        [] col.c = "low_cardinality" -> LowCardSave(col, start, end)
        [] col.c = "simple_agg_func" -> Save(col.inner, start, end)
        [] col.c = "chunk" -> ChunkSave(col, start, end)
        [] col.c = "string_adapter" -> StringAdapterSave(refs)
        [] col.c = "fixed_string_adapter" -> FixedStringAdapterSave(col.n, refs)
        [] col.c = "decimal_adapter" -> DecimalAdapterSave(col, refs)
        [] col.c = "enum_adapter" -> EnumAdapterSave(col, refs)
        [] col.c = "nullable_fixed_string_adapter" ->
             LET s == Split(Leaf("String"))
             IN  NullableFixedStringAdapterSave(col.n, s.nulls, s.values)
        [] col.c = "nullable_decimal_adapter" ->
             LET s == Split(Decimal(18, 0)) IN NullableDecimalAdapterSave(col, s.nulls, s.values)
        [] col.c = "nullable_enum_adapter" ->
             LET s == Split(Enum(col.ty, <<>>)) IN NullableEnumAdapterSave(col, s.nulls, s.values)

(* load_data() for the type that a name stands for.                        *)
Load(ty, w, size) ==
  CASE ty.t \in Numbers -> VectorLoad(ty.t, w, size)
    [] ty.t = "String" -> StringLoad(w, size)
    [] ty.t = "FixedString" -> FixedStringLoad(ty.n, w, size)
    [] ty.t \in {"Date", "DateTime32"} -> DateLoad(ty.t, w, size)
    [] ty.t = "DateTime64" -> DateTime64Load(ty, w, size)
    [] ty.t = "Decimal" -> DecimalLoad(ty, w, size)
    [] ty.t \in Enums -> EnumLoad(ty, w, size)
    [] ty.t \in Ips -> IpLoad(ty.t, w, size)
    [] ty.t = "Nullable" -> NullableLoad(ty, w, size)
    [] ty.t = "Array" -> ArrayLoad(ty, w, size)
    [] ty.t = "Map" -> MapLoad(ty, w, size)
    [] ty.t = "LowCardinality" -> LowCardLoad(ty, w, size)
    [] ty.t = "SimpleAggregateFunction" -> SimpleAggLoad(ty, w, size)

(* An empty column to push to.                                             *)
from_type(ty) ==
  CASE ty.t \in Numbers -> Vector(ty.t, <<>>)
    [] ty.t = "String" -> Strings(<<>>)
    [] ty.t = "FixedString" -> FixedStrings(ty.n, <<>>)
    [] ty.t = "Date" -> Dates("Date", <<>>)
    [] ty.t = "DateTime64" -> DateTimes64(ty.p, ty.tz, <<>>)
    [] ty.t \in {"DateTime32", "Chrono"} -> Chronos(<<>>)
    [] ty.t = "Decimal" -> Decimals(ty.p, ty.s, from_precision(ty.p), <<>>)
    [] ty.t \in Enums -> EnumColumn(ty.t, ty.values, <<>>)
    [] ty.t \in Ips -> IpColumn(ty.t, <<>>)
    [] ty.t = "Nullable" -> NullableColumn(from_type(ty.of), <<>>)
    [] ty.t = "Array" -> ArrayColumn(from_type(ty.of), <<>>)
    [] ty.t = "Map" -> MapColumn(from_type(ty.key), from_type(ty.value), <<>>)
    [] ty.t = "LowCardinality" -> LowCardEmpty(ty.of)
    [] ty.t = "SimpleAggregateFunction" -> SimpleAggColumn(from_type(ty.of), ty.func)

-----------------------------------------------------------------------------
(* Vec<T> as a column: ColumnFrom                                          *)

Pushed(empty, T, rows) == FoldPush(empty, [i \in DOMAIN rows |-> Into(T, rows[i])])

IsNone(x) == "none" \in DOMAIN x
NullsOf(rows) == [i \in DOMAIN rows |-> IF IsNone(rows[i]) THEN 1 ELSE 0]
ZeroFilled(rows, zero) == [i \in DOMAIN rows |-> IF IsNone(rows[i]) THEN zero ELSE rows[i].some]

(* Vec<Option<T>> of numbers, strings and dates goes through push().       *)
PushedOptions(T, rows) == Pushed(NullableColumn(column_from(T.of, <<>>), <<>>), T, rows)
ChronoOptions(rows) == NullableColumn(ChronoFrom(ZeroFilled(rows, [ticks |-> 0])), NullsOf(rows))
DecimalOptions(rows) ==
  LET given == SelectSeq(rows, LAMBDA x : ~IsNone(x))
      scale == IF given = <<>> THEN 4 ELSE given[1].some.s
  IN  Then(DecimalFrom(ZeroFilled(rows, [x |-> 0, s |-> scale])),
           LAMBDA x : NullableColumn(x, NullsOf(rows)))
EnumOptions(T, rows) ==
  NullableColumn(EnumFrom(T.of, ZeroFilled(rows, [n |-> 0])), NullsOf(rows))
IpOptions(T, rows) ==
  NullableColumn(IpFrom(T.of, ZeroFilled(rows, [bytes |-> default(T.of).bytes])), NullsOf(rows))

(* Vec<Vec<T>>: Value::Array even for bytes, and times cut to seconds.     *)
ArrayOf(T, row, V(_)) == VArray(T.of, [i \in DOMAIN row.vec |-> V(row.vec[i])])
ArraysFrom(T, rows) ==
  FoldPush(ArrayColumn(column_from(T.of, <<>>), <<>>),
           [i \in DOMAIN rows |-> ArrayOf(T, rows[i], LAMBDA x : Into(T.of, x))])
DateTimeArrays(T, rows) ==
  FoldPush(ArrayColumn(column_from(T.of, <<>>), <<>>),
           [i \in DOMAIN rows |->
             ArrayOf(T, rows[i], LAMBDA x : VNumber("DateTime", as_stamp(x.ticks)))])

MapsFrom(T, rows) ==
  Pushed(MapColumn(column_from(T.key, <<>>), column_from(T.value, <<>>), <<>>), T, rows)

column_from(T, rows) ==
  CASE T.t \in Numbers -> VectorFrom(T, rows)
    [] T.t = "String" -> StringFrom(rows)
    [] T.t = "Date" -> DateFrom(rows)
    [] T.t = "DateTime32" -> ChronoFrom(rows)
    [] T.t = "Decimal" -> DecimalFrom(rows)
    [] T.t \in Enums -> EnumFrom(T, rows)
    [] T.t \in Ips -> IpFrom(T, rows)
    [] T.t = "Nullable" ->
         (CASE T.of.t = "DateTime32" -> ChronoOptions(rows)
            [] T.of.t = "Decimal" -> DecimalOptions(rows)
            [] T.of.t \in Enums -> EnumOptions(T, rows)
            [] T.of.t \in Ips -> IpOptions(T, rows)
            [] OTHER -> PushedOptions(T, rows))
    [] T.t = "Array" ->
         IF T.of.t = "DateTime32" THEN DateTimeArrays(T, rows) ELSE ArraysFrom(T, rows)
    [] T.t = "Map" -> MapsFrom(T, rows)

-----------------------------------------------------------------------------
(* Column::cast_to: the column that is saved for another type              *)

data_cast_to(col, target) ==
  CASE col.c = "chrono" -> ChronoCast(col, target)
    [] col.c = "enum" -> EnumCast(col, target)
    [] col.c = "nullable" -> NullableCast(col, target)
    [] col.c = "array" -> ArrayCast(col, target)
    [] col.c = "map" -> MapCast(col, target)
    [] col.c = "simple_agg_func" -> SimpleAggCast(col, target)
    [] OTHER -> None

(* The rows are pushed to a new dictionary of the target's type, whatever  *)
(* the type of the column; times are saved by an adapter.                  *)
ToLowCardinality(col, of) ==
  LET refs   == Refs(col, 0, len(col))
      filled == Then(LowCardEmpty(of), LAMBDA x :
                  FoldPush(x, [i \in DOMAIN refs |-> Then(refs[i], LAMBDA r : ToOwned(r))]))
  IN  Then(filled, LAMBDA x :
        IF is_datetime(of) /\ data_cast_to(x.inner, of) # None
        THEN [x EXCEPT !.inner = data_cast_to(@, of)] ELSE x)

(* A string in the model holds the bytes of its address, or none.          *)
ParsedIps(ty, col) ==
  LET size == Len(default(Leaf(ty)).bytes)
  IN  IF \E i \in 0..len(col) - 1 : Len(At(col, i).bytes) # size THEN Panic
      ELSE IpColumn(ty, [i \in 1..len(col) |-> IpBytes(ty, At(col, i - 1).bytes)])

RECURSIVE cast_to(_, _)
cast_to(col, dst) ==
  LET src  == sql_type(col)
      Both(t) == dst.t = t /\ src.t = t
      BothNullable(t) == Both("Nullable") /\ dst.of.t = t /\ src.of.t = t
      bytes == Array(Leaf("UInt8"))
  IN  CASE dst = src -> col
        [] dst # src /\ dst.t = "LowCardinality" /\ is_inner_low_cardinality(src) ->
             ToLowCardinality(col, dst.of)
        [] dst.t = "FixedString" /\ src = Leaf("String") -> FixedStringAdapter(col, dst.n)
        [] Both("Nullable") /\ dst.of.t = "FixedString" /\ src.of = Leaf("String") ->
             NullableFixedStringAdapter(col, dst.of.n)
        [] dst = Leaf("String") /\ src = bytes -> StringAdapter(col)
        [] dst.t = "FixedString" /\ src = bytes -> cast_to(cast_to(col, Leaf("String")), dst)
        [] dst # src /\ Both("Decimal") -> DecimalAdapter(col, dst.p, dst.s)
        [] dst # src /\ \E t \in Enums : Both(t) -> EnumAdapter(col, dst)
        [] dst # src /\ \E t \in Enums : BothNullable(t) -> NullableEnumAdapter(col, dst.of)
        [] dst # src /\ BothNullable("Decimal") ->
             NullableDecimalAdapter(col, dst.of.p, dst.of.s)
        [] dst.t \in {"Ipv4", "Ipv6"} /\ src = Leaf("String") -> ParsedIps(dst.t, col)
        [] dst # src /\ dst.t = "SimpleAggregateFunction" ->
             Then(cast_to(col, dst.of), LAMBDA x : SimpleAggColumn(x, dst.func))
        [] OTHER -> LET data == data_cast_to(col, dst)
                    IN  IF data = None THEN InvalidType ELSE data
=============================================================================
