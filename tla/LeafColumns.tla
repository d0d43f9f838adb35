---------------------------- MODULE LeafColumns ----------------------------
(***************************************************************************)
(* The columns of types/column that are made of no other column, and the   *)
(* adapters around them.  A column is a record, with the implementation of *)
(* ColumnData as c; the calls of that trait (push, at, save, cast_to),     *)
(* load() and column_from() are operators.  Rows are counted from 0, as in *)
(* the code.  Columns.tla has the others.                                  *)
(*                                                                         *)
(* What is saved is a sequence of tokens <<tag, x>>: integers of one       *)
(* width, strings with their length, bytes without it, dictionary flags.   *)
(* A save that panics has a token "panic" in it.                           *)
(*                                                                         *)
(* Left out: the time zone that columns of dates keep for display, and     *)
(* which Arc is shared (Blocks.tla).                                       *)
(***************************************************************************)
EXTENDS Values, TypeNames

(* The errors of reading: the input ends, or is not what it should be.     *)
Incomplete == [err |-> "end of input"]
Corrupt == [err |-> "Deserialize"]
BadFrame == [err |-> "not a frame"]
UnknownPacket == [err |-> "UnknownPacket"]
UnexpectedPacket == [err |-> "UnexpectedPacket"]
CustomSerialization == [err |-> "UnsupportedCustomSerialization"]
QueryParametersUnsupported == [err |-> "QueryParametersUnsupported"]
None == [nothing |-> TRUE]

Errors == {InvalidType, Unsupported, Incomplete, Corrupt, BadFrame, UnknownPacket,
           UnexpectedPacket, CustomSerialization, QueryParametersUnsupported}

(* The operator ? of Rust, for panics too.                                 *)
Then(x, F(_)) == IF x = Panic \/ x \in Errors THEN x ELSE F(x)

(* A slice start..end of the code.                                         *)
Slice(s, start, end) == SubSeq(s, start + 1, end)
Tokens(tag, data) == [i \in DOMAIN data |-> <<tag, data[i]>>]
Panics == << <<"panic", 0>> >>

(* The first tokens, which must be of these kinds.                         *)
Read(w, tags) ==
  CASE \E i \in DOMAIN tags : i <= Len(w) /\ w[i][1] # tags[i] -> Corrupt
    [] Len(w) < Len(tags) -> Incomplete
    [] OTHER -> [got |-> [i \in DOMAIN tags |-> w[i][2]], rest |-> SubSeq(w, Len(tags) + 1, Len(w))]
Take(w, tag, n) == Read(w, [i \in 1..n |-> tag])

Loaded(col, rest) == [col |-> col, rest |-> rest]

-----------------------------------------------------------------------------
(* numeric.rs: every kind of number                                        *)

Vector(ty, data) == [c |-> "vector", ty |-> ty, data |-> data]

Width(ty) ==
  CASE ty \in {"Bool", "UInt8", "Int8"} -> "1"
    [] ty \in {"UInt16", "Int16"} -> "2"
    [] ty \in {"UInt32", "Int32", "Float32"} -> "4"
    [] ty \in {"UInt64", "Int64", "Float64"} -> "8"
    [] ty \in {"UInt128", "Int128"} -> "16"

VectorFrom(T, rows) == Vector(T.t, [i \in DOMAIN rows |-> rows[i].n])
VectorLoad(ty, w, size) ==
  Then(Take(w, Width(ty), size), LAMBDA x : Loaded(Vector(ty, x.got), x.rest))
VectorSave(col, start, end) == Tokens(Width(col.ty), Slice(col.data, start, end))
VectorPush(col, v) ==
  Then(NumberOf(col.ty, v), LAMBDA x : [col EXCEPT !.data = Append(@, x.n)])
VectorAt(col, i) == VNumber(col.ty, col.data[i + 1])

-----------------------------------------------------------------------------
(* string.rs, fixed_string.rs: a string or n bytes for each row            *)

Strings(data) == [c |-> "string", data |-> data]
StringFrom(rows) == Strings([i \in DOMAIN rows |-> rows[i].bytes])
StringLoad(w, size) ==
  Then(Take(w, "string", size), LAMBDA x : Loaded(Strings(x.got), x.rest))
StringSave(col, start, end) == Tokens("string", Slice(col.data, start, end))
StringPush(col, v) ==
  Then(get_str_buffer(v), LAMBDA s : [col EXCEPT !.data = Append(@, s.bytes)])
StringAt(col, i) == VBytes("String", col.data[i + 1])

(* Zeros are added, and what is too much is cut off.                       *)
Padded(bytes, n) == [i \in 1..n |-> IF i <= Len(bytes) THEN bytes[i] ELSE 0]

FixedStrings(n, data) == [c |-> "fixed_string", n |-> n, data |-> data]
FixedStringLoad(n, w, size) ==
  Then(Take(w, "bytes", size), LAMBDA x : Loaded(FixedStrings(n, x.got), x.rest))
FixedStringSave(col, start, end) == Tokens("bytes", Slice(col.data, start, end))
FixedStringPush(col, v) ==
  Then(get_str_buffer(v), LAMBDA s : [col EXCEPT !.data = Append(@, Padded(s.bytes, col.n))])
FixedStringAt(col, i) == VBytes("String", col.data[i + 1])

-----------------------------------------------------------------------------
(* date.rs: Date and DateTime as the server has them, days and seconds;    *)
(* datetime64.rs; chrono_datetime.rs: times as the program gave them       *)

Dates(ty, data) == [c |-> "date", ty |-> ty, data |-> data]
DateWidth(ty) == IF ty = "Date" THEN "2" ELSE "4"
DateFrom(rows) == Dates("Date", [i \in DOMAIN rows |-> get_days(rows[i].n)])
DateLoad(ty, w, size) ==
  Then(Take(w, DateWidth(ty), size), LAMBDA x : Loaded(Dates(ty, x.got), x.rest))
DateSave(col, start, end) == Tokens(DateWidth(col.ty), Slice(col.data, start, end))
get_stamp(ty, v) ==
  IF ty = "Date" THEN Then(DateOf(v), LAMBDA d : [n |-> get_days(d.n)])
  ELSE Then(DateTimeOf(v), LAMBDA t : [n |-> as_stamp(t.ticks)])
DatePush(col, v) ==
  Then(get_stamp(col.ty, v), LAMBDA s : [col EXCEPT !.data = Append(@, s.n)])
to_date(ty, n) == VNumber(IF ty = "Date" THEN "Date" ELSE "DateTime", n)
DateAt(col, i) == to_date(col.ty, col.data[i + 1])

DateTimes64(p, tz, data) == [c |-> "datetime64", p |-> p, tz |-> tz, data |-> data]
DateTime64Load(ty, w, size) ==
  Then(Take(w, "8", size), LAMBDA x : Loaded(DateTimes64(ty.p, ty.tz, x.got), x.rest))
DateTime64Push(col, v) ==
  Then(DateTimeOf(v),
       LAMBDA t : [col EXCEPT !.data = Append(@, from_datetime(t.ticks, col.p))])
DateTime64At(col, i) == VDateTime64(col.data[i + 1], col.p, col.tz)

Chronos(data) == [c |-> "chrono", data |-> data]
ChronoFrom(rows) == Chronos([i \in DOMAIN rows |-> rows[i].ticks])
ChronoPush(col, v) ==
  Then(DateTimeOf(v), LAMBDA t : [col EXCEPT !.data = Append(@, t.ticks)])
ChronoAt(col, i) == VNumber("DateTime", as_stamp(col.data[i + 1]))

(* The other columns of times are saved by this adapter only.              *)
ChronoAdapter(col, dst) == [c |-> "chrono_adapter", column |-> col, dst |-> dst]
ChronoCast(col, target) == IF is_datetime(target) THEN ChronoAdapter(col, target) ELSE None
ChronoAdapterSave(col, start, end) ==
  LET dates == Slice(col.column.data, start, end)
  IN  CASE col.dst.t = "DateTime64" ->
             [i \in DOMAIN dates |-> <<"8", from_datetime(dates[i], col.dst.p)>>]
        [] col.dst.t = "DateTime32" -> [i \in DOMAIN dates |-> <<"4", as_stamp(dates[i])>>]
        [] OTHER -> Panics

-----------------------------------------------------------------------------
(* decimal.rs: scaled integers of 32 or 64 bits                            *)

DecimalWidth(bits) == IF bits = 32 THEN "4" ELSE "8"
Decimals(p, s, bits, data) ==
  [c |-> "decimal", p |-> p, s |-> s, nobits |-> bits, data |-> data]

(* All rows have the scale of the first; without rows it is 4.             *)
DecimalFrom(rows) ==
  IF \E i, j \in DOMAIN rows : rows[i].s # rows[j].s THEN Panic
  ELSE Decimals(18, IF rows = <<>> THEN 4 ELSE rows[1].s, 64,
                [i \in DOMAIN rows |-> rows[i].x])
DecimalLoad(ty, w, size) ==
  Then(Take(w, DecimalWidth(from_precision(ty.p)), size),
       LAMBDA x : Loaded(Decimals(ty.p, ty.s, from_precision(ty.p), x.got), x.rest))
DecimalSave(col, start, end) == Tokens(DecimalWidth(col.nobits), Slice(col.data, start, end))

(* The scale of the value is not looked at.                                *)
DecimalPush(col, v) ==
  IF v.k # "Decimal" THEN Panic
  ELSE [col EXCEPT !.data = Append(@, internal(v.x, col.nobits))]
DecimalAt(col, i) == VDecimal(col.data[i + 1], col.p, col.s, col.nobits)

DecimalAdapter(col, p, s) ==
  [c |-> "decimal_adapter", column |-> col, p |-> p, s |-> s, nobits |-> from_precision(p)]
DecimalAdapterAt(col, r) ==
  IF r.k # "Decimal" THEN Panic
  ELSE VDecimal(set_scale(r.x, r.s, col.s), col.p, col.s, col.nobits)
DecimalAdapterSave(col, refs) ==
  [i \in DOMAIN refs |-> <<DecimalWidth(col.nobits), internal(refs[i].x, col.nobits)>>]

NullableDecimalAdapter(col, p, s) ==
  [c |-> "nullable_decimal_adapter", column |-> col, p |-> p, s |-> s,
   nobits |-> from_precision(p)]
NullableDecimalAdapterAt(col, r) ==
  CASE r.k = "Null" -> VNull(Nullable(Decimal(col.p, col.s)))
    [] r.k = "Some" -> VSome(DecimalAdapterAt(col, r.v))
    [] OTHER -> Panic
NullableDecimalAdapterSave(col, nulls, values) ==
  Tokens("1", nulls) \o
    [i \in DOMAIN values |-> <<DecimalWidth(col.nobits),
       IF "none" \in DOMAIN values[i] THEN 0 ELSE internal(values[i].some.x, col.nobits)>>]

-----------------------------------------------------------------------------
(* enums.rs: numbers, with the names as a part of the type                 *)

EnumWidth(ty) == IF ty = "Enum8" THEN "1" ELSE "2"
EnumColumn(ty, values, data) == [c |-> "enum", ty |-> ty, values |-> values, data |-> data]
EnumFrom(T, rows) == EnumColumn(T.t, <<>>, [i \in DOMAIN rows |-> rows[i].n])
EnumLoad(ty, w, size) ==
  Then(Take(w, EnumWidth(ty.t), size),
       LAMBDA x : Loaded(EnumColumn(ty.t, ty.values, x.got), x.rest))
EnumSave(col, start, end) == Tokens(EnumWidth(col.ty), Slice(col.data, start, end))
EnumPush(col, v) == IF v.k # col.ty THEN Panic ELSE [col EXCEPT !.data = Append(@, v.n)]
EnumAt(col, i) == VEnum(col.ty, col.values, col.data[i + 1])
EnumCast(col, target) ==
  IF target.t = col.ty THEN [col EXCEPT !.values = target.values] ELSE None

EnumAdapter(col, ty) == [c |-> "enum_adapter", column |-> col, ty |-> ty.t, values |-> ty.values]
EnumAdapterAt(col, r) == IF r.k = col.ty THEN r ELSE Panic
EnumAdapterSave(col, refs) == [i \in DOMAIN refs |-> <<EnumWidth(col.ty), refs[i].n>>]

NullableEnumAdapter(col, ty) ==
  [c |-> "nullable_enum_adapter", column |-> col, ty |-> ty.t, values |-> ty.values]
NullableEnumAdapterAt(col, r) ==
  CASE r.k = "Null" -> VNull(Nullable(Enum(col.ty, col.values)))
    [] r.k = "Some" -> VSome(VEnum(col.ty, col.values, r.v.n))
    [] OTHER -> Panic
NullableEnumAdapterSave(col, nulls, values) ==
  Tokens("1", nulls) \o
    [i \in DOMAIN values |-> <<EnumWidth(col.ty),
       IF "none" \in DOMAIN values[i] THEN 0 ELSE values[i].some.n>>]

-----------------------------------------------------------------------------
(* ip.rs: addresses and uuids, as many bytes for each row                  *)

IpColumn(ty, data) == [c |-> "ip", ty |-> ty, data |-> data]
IpBytes(ty, bytes) ==
  CASE ty = "Ipv4" -> Reverse(bytes) [] ty = "Ipv6" -> bytes [] ty = "Uuid" -> UuidHalves(bytes)
IpFrom(T, rows) == IpColumn(T.t, [i \in DOMAIN rows |-> IpBytes(T.t, rows[i].bytes)])
IpLoad(ty, w, size) ==
  Then(Take(w, "bytes", size), LAMBDA x : Loaded(IpColumn(ty, x.got), x.rest))
IpSave(col, start, end) == Tokens("bytes", Slice(col.data, start, end))
IpPush(col, v) == IF v.k # col.ty THEN Panic ELSE [col EXCEPT !.data = Append(@, v.bytes)]
IpAt(col, i) == VBytes(col.ty, col.data[i + 1])
=============================================================================
