------------------------------- MODULE Values -------------------------------
(***************************************************************************)
(* One cell on its way between a program and a column: a value of a Rust   *)
(* type becomes a Value (From<T> for Value), a column makes a ValueRef of  *)
(* it, and FromSql makes a value of a Rust type again.                     *)
(*                                                                         *)
(* Value and ValueRef are records with the variant as k.  Both have the    *)
(* same variants and contents, but for ChronoDateTime, so the records are  *)
(* shared.  A value of Rust is a record without k: [n] for numbers, days   *)
(* and enums, [bytes] for strings, addresses and uuids (in the order in    *)
(* which they are read aloud), [ticks] for a DateTime<Tz>, [x, s] for a    *)
(* Decimal, [none] and [some], [vec], [map].  A call that panics has the   *)
(* value Panic, one that returns an error has InvalidType.                 *)
(*                                                                         *)
(* Time counts in ticks, of which TicksPerSecond are a second: 10^9 in     *)
(* the code, less here, with NanoDigits digits.  Integers that are cut to  *)
(* fewer bits are taken modulo the sizes below, also smaller than 2^32     *)
(* and 2^16.                                                               *)
(***************************************************************************)
EXTENDS SqlTypes, SequencesExt

CONSTANTS
  NanoDigits,  \* 9 in the code
  StampMod,    \* u32, seconds: 2^32 in the code
  DayMod,      \* u16, days: 2^16 in the code
  IntMod       \* i32, a Decimal of up to nine digits: 2^32 in the code

ASSUME ValuesAssumption ==
  NanoDigits \in Nat /\ {StampMod, DayMod, IntMod} \subseteq Nat \ {0, 1}

Panic == [panic |-> TRUE]
InvalidType == [err |-> "InvalidType"]
Failed(x) == x \in {Panic, InvalidType}

pow10[n \in Nat] == IF n = 0 THEN 1 ELSE 10 * pow10[n - 1]
TicksPerSecond == pow10[NanoDigits]

(* Division that cuts towards zero, as in Rust.                            *)
Quot(a, b) == IF a >= 0 THEN a \div b ELSE -((-a) \div b)
Signed(x, mod) == ((x + mod \div 2) % mod) - mod \div 2

VNumber(k, n) == [k |-> k, n |-> n]
VBytes(k, bytes) == [k |-> k, bytes |-> bytes]
VDateTime64(n, p, tz) == [k |-> "DateTime64", n |-> n, p |-> p, tz |-> tz]
VChrono(ticks) == [k |-> "ChronoDateTime", ticks |-> ticks]
VDecimal(x, p, s, bits) == [k |-> "Decimal", x |-> x, p |-> p, s |-> s, nobits |-> bits]
VEnum(k, values, n) == [k |-> k, values |-> values, n |-> n]
VNull(of) == [k |-> "Null", of |-> of]
VSome(v) == [k |-> "Some", v |-> v]
VArray(of, vs) == [k |-> "Array", of |-> of, vs |-> vs]
VMap(key, value, m) == [k |-> "Map", key |-> key, value |-> value, m |-> m]

-----------------------------------------------------------------------------
(* Dates, decimals, addresses                                              *)

get_days(days) == days % DayMod
timestamp(ticks) == ticks \div TicksPerSecond
as_stamp(ticks) == timestamp(ticks) % StampMod

from_datetime(ticks, p) == Quot(ticks, pow10[NanoDigits - p])

(* A time before 1970 with a fraction of a second has a negative rest,     *)
(* which as u32 is no number of nanoseconds: timestamp_opt() gives None.   *)
to_datetime(n, p) ==
  LET nano == n * pow10[NanoDigits - p]
      sec  == Quot(nano, TicksPerSecond)
      nsec == nano - sec * TicksPerSecond
  IN  IF nsec < 0 THEN Panic ELSE [ticks |-> sec * TicksPerSecond + nsec]

from_precision(p) == IF p <= 9 THEN 32 ELSE 64
internal(x, bits) == IF bits = 32 THEN Signed(x, IntMod) ELSE x

set_scale(x, from, to) ==
  IF to < from THEN Quot(x, pow10[from - to]) ELSE x * pow10[to - from]

DecimalEq(a, b) ==
  IF a.s < b.s THEN b.x = a.x * pow10[b.s - a.s] ELSE a.x = b.x * pow10[a.s - b.s]

decode_ipv4(bytes) == Reverse(bytes)

(* Both halves of a uuid are kept from right to left.                      *)
UuidHalves(bytes) ==
  LET h == Len(bytes) \div 2
  IN  Reverse(SubSeq(bytes, 1, h)) \o Reverse(SubSeq(bytes, h + 1, Len(bytes)))

-----------------------------------------------------------------------------
(* What a map needs of its keys                                            *)

(* hash() of the other variants is unimplemented!().                       *)
RefHashes == {"String"} \cup (Numbers \ {"Bool", "Float32", "Float64"})
ValueHashes == RefHashes \cup {"Date", "DateTime", "DateTime64"}

-----------------------------------------------------------------------------
(* Values of a type, and the type of a value                               *)

RECURSIVE default(_)
default(ty) ==
  CASE ty.t \in Numbers \cup {"Date"} -> VNumber(ty.t, 0)
    [] ty.t = "String" -> VBytes("String", <<>>)
    [] ty.t = "FixedString" -> VBytes("String", [i \in 1..ty.n |-> 0])
    [] ty.t \in {"LowCardinality", "SimpleAggregateFunction"} -> default(ty.of)
    [] ty.t = "DateTime64" -> VDateTime64(0, 1, "UTC")
    [] ty.t \in {"DateTime32", "Chrono"} -> VNumber("DateTime", 0)
    [] ty.t = "Nullable" -> VNull(ty.of)
    [] ty.t = "Array" -> VArray(ty.of, <<>>)
    [] ty.t = "Decimal" -> VDecimal(0, ty.p, ty.s, 64)
    [] ty.t \in Ips -> VBytes(ty.t, IF ty.t = "Ipv4" THEN <<0, 0>> ELSE <<0, 0, 0, 0>>)
    [] ty.t \in Enums -> VEnum(ty.t, ty.values, 0)
    [] ty.t = "Map" -> VMap(ty.key, ty.value, <<>>)

(* From<ValueRef> and From<Value> for SqlType.                             *)
RECURSIVE SqlTypeOf(_)
SqlTypeOf(v) ==
  CASE v.k \in Numbers \cup Ips \cup {"String", "Date"} -> Leaf(v.k)
    [] v.k \in {"DateTime", "ChronoDateTime"} -> Leaf("DateTime32")
    [] v.k = "DateTime64" -> DateTime64(v.p, v.tz)
    [] v.k = "Null" -> Nullable(v.of)
    [] v.k = "Some" -> Nullable(SqlTypeOf(v.v))
    [] v.k = "Array" -> Array(v.of)
    [] v.k = "Decimal" -> Decimal(v.p, v.s)
    [] v.k \in Enums -> Enum(v.k, v.values)
    [] v.k = "Map" -> Map(v.key, v.value)

(* From<ValueRef> for Value: a map is built again, hashing its keys.       *)
RECURSIVE ToOwned(_)
ToOwned(r) ==
  CASE r.k = "Some" -> VSome(ToOwned(r.v))
    [] r.k = "Array" -> VArray(r.of, [i \in DOMAIN r.vs |-> ToOwned(r.vs[i])])
    [] r.k = "Map" ->
         IF \A x \in DOMAIN r.m : x.k \in ValueHashes
         THEN VMap(r.key, r.value, [x \in DOMAIN r.m |-> ToOwned(r.m[x])])
         ELSE Panic
    [] OTHER -> r

-----------------------------------------------------------------------------
(* From a value of Rust to a Value, and what a column makes of a Value     *)

IntoOption(T, x, inner) == IF "none" \in DOMAIN x THEN VNull(T.of) ELSE VSome(inner)

(* Vec<u8> is a string and not an array.                                   *)
IntoVec(T, x, inner) ==
  IF T.of.t = "UInt8" THEN VBytes("String", [i \in DOMAIN inner |-> inner[i].n])
  ELSE VArray(T.of, inner)

RECURSIVE Into(_, _)
Into(T, x) ==
  CASE T.t \in Numbers -> VNumber(T.t, x.n)
    [] T.t = "String" -> VBytes("String", x.bytes)
    [] T.t = "Date" -> VNumber("Date", get_days(x.n))
    [] T.t = "DateTime32" -> VChrono(x.ticks)
    [] T.t \in {"Ipv4", "Ipv6"} -> VBytes(T.t, x.bytes)  \* an array of bytes, as it is
    [] T.t = "Uuid" -> VBytes("Uuid", UuidHalves(x.bytes))
    [] T.t = "Decimal" -> VDecimal(x.x, 18, x.s, 64)
    [] T.t \in Enums -> VEnum(T.t, <<>>, x.n)
    [] T.t = "Nullable" ->
         IntoOption(T, x, IF "none" \in DOMAIN x THEN Panic ELSE Into(T.of, x.some))
    [] T.t = "Array" -> IntoVec(T, x, [i \in DOMAIN x.vec |-> Into(T.of, x.vec[i])])
    [] T.t = "Map" ->
         LET keys == {Into(T.key, y) : y \in DOMAIN x.map}
             Of(v) == CHOOSE y \in DOMAIN x.map : Into(T.key, y) = v
         IN  IF \A v \in keys : v.k \in ValueHashes
             THEN VMap(T.key, T.value, [v \in keys |-> Into(T.value, x.map[Of(v)])])
             ELSE Panic

(* The number in a Value of one variant; any other panics.                 *)
NumberOf(k, v) == IF v.k = k THEN [n |-> v.n] ELSE Panic
get_str_buffer(v) == IF v.k = "String" THEN [bytes |-> v.bytes] ELSE Panic
DateOf(v) == IF v.k = "Date" THEN [n |-> v.n] ELSE Panic

DateTimeOf(v) ==
  CASE v.k = "DateTime" -> [ticks |-> v.n * TicksPerSecond]
    [] v.k = "DateTime64" -> to_datetime(v.n, v.p)
    [] v.k = "ChronoDateTime" -> [ticks |-> v.ticks]
    [] OTHER -> Panic

-----------------------------------------------------------------------------
(* FromSql                                                                 *)

as_bytes(r) == IF r.k = "String" THEN [bytes |-> r.bytes] ELSE InvalidType
FromNumber(T, r) == IF r.k = T.t THEN [n |-> r.n] ELSE InvalidType
FromDecimal(r) == IF r.k = "Decimal" THEN [x |-> r.x, s |-> r.s] ELSE InvalidType
FromDate(r) == IF r.k = "Date" THEN [n |-> r.n] ELSE InvalidType

FromDateTime_seconds(r) ==
  IF r.k \in {"DateTime", "DateTime64"} THEN [ticks |-> r.n * TicksPerSecond] ELSE InvalidType
FromDateTime(r) ==
  CASE r.k = "DateTime" -> [ticks |-> r.n * TicksPerSecond]
    [] r.k = "DateTime64" -> to_datetime(r.n, r.p)
    [] OTHER -> InvalidType

FromIpv4(r) == IF r.k = "Ipv4" THEN [bytes |-> decode_ipv4(r.bytes)] ELSE InvalidType
FromIpv6(r) == IF r.k = "Ipv6" THEN [bytes |-> r.bytes] ELSE InvalidType
FromUuid(r) == IF r.k = "Uuid" THEN [bytes |-> UuidHalves(r.bytes)] ELSE InvalidType
FromEnum(T, r) == IF r.k = T.t THEN [n |-> r.n] ELSE InvalidType

(* Whether an array of this type is taken for a Vec<T>; of other types     *)
(* there is no Vec to be had.                                              *)
InVec == Numbers \cup {"String", "Date", "DateTime32"} \cup Enums
TakenFor(T, of) == IF T.t = "DateTime32" THEN is_datetime(of) ELSE T.t \in InVec /\ of.t = T.t

RECURSIVE HasFromSql(_)
HasFromSql(T) ==
  CASE T.t = "Array" -> T.of.t \in InVec
    [] T.t = "Nullable" -> HasFromSql(T.of)
    [] T.t = "Map" -> HasFromSql(T.key) /\ HasFromSql(T.value)
    [] OTHER -> TRUE

(* A Vec<u8> is made of a string as well.                                  *)
FromVec(T, r, vs) ==
  IF r.k = "Array" /\ TakenFor(T.of, r.of)
  THEN IF Panic \in Range(vs) THEN Panic ELSE [vec |-> vs]
  ELSE IF T.of.t = "UInt8" /\ r.k = "String"
  THEN [vec |-> [i \in DOMAIN r.bytes |-> [n |-> r.bytes[i]]]]
  ELSE InvalidType

FromOption(r, inner) ==
  CASE r.k = "Null" -> [none |-> TRUE]
    [] r.k = "Some" -> IF Failed(inner) THEN inner ELSE [some |-> inner]
    [] OTHER -> InvalidType

FromMap(r, keys, values) ==
  IF r.k # "Map" THEN InvalidType
  ELSE IF \E x \in DOMAIN r.m : Failed(keys[x]) \/ Failed(values[x]) THEN InvalidType
  ELSE [map |-> [y \in Range(keys) |-> values[CHOOSE x \in DOMAIN r.m : keys[x] = y]]]

RECURSIVE FromSql(_, _)
FromSql(T, r) ==
  CASE T.t \in Numbers -> FromNumber(T, r)
    [] T.t = "String" -> as_bytes(r)
    [] T.t = "Date" -> FromDate(r)
    [] T.t = "DateTime32" -> FromDateTime(r)
    [] T.t = "Decimal" -> FromDecimal(r)
    [] T.t = "Ipv4" -> FromIpv4(r)
    [] T.t = "Ipv6" -> FromIpv6(r)
    [] T.t = "Uuid" -> FromUuid(r)
    [] T.t \in Enums -> FromEnum(T, r)
    [] T.t = "Nullable" -> FromOption(r, IF r.k = "Some" THEN FromSql(T.of, r.v) ELSE Panic)
    [] T.t = "Array" ->
         FromVec(T, r, IF r.k = "Array" THEN [i \in DOMAIN r.vs |-> FromSql(T.of, r.vs[i])]
                       ELSE <<>>)
    [] T.t = "Map" ->
         LET ms == IF r.k = "Map" THEN r.m ELSE <<>>
         IN  FromMap(r, [x \in DOMAIN ms |-> FromSql(T.key, x)],
                     [x \in DOMAIN ms |-> FromSql(T.value, ms[x])])
=============================================================================
