------------------------------ MODULE SqlTypes ------------------------------
(***************************************************************************)
(* SqlType of types/mod.rs: the types of columns, as records whose field t *)
(* names the variant.  The types of Rust that stand for them (u8 for       *)
(* UInt8, NaiveDate for Date, Option for Nullable, Vec for Array, HashMap  *)
(* for Map) are written as the same records.                               *)
(*                                                                         *)
(* Numbers are kept as they are; floats are one more kind of number, and   *)
(* of the widths only a few stand for all, since the code treats them by   *)
(* macros.  The time zone of a type matters where types are compared.      *)
(***************************************************************************)
EXTENDS Integers, Sequences

Leaf(name) == [t |-> name]
Nullable(of) == [t |-> "Nullable", of |-> of]
Array(of) == [t |-> "Array", of |-> of]
LowCardinality(of) == [t |-> "LowCardinality", of |-> of]
Map(k, v) == [t |-> "Map", key |-> k, value |-> v]
FixedString(n) == [t |-> "FixedString", n |-> n]
Decimal(p, s) == [t |-> "Decimal", p |-> p, s |-> s]
DateTime64(p, tz) == [t |-> "DateTime64", p |-> p, tz |-> tz]
Enum(name, values) == [t |-> name, values |-> values]
SimpleAggregateFunction(f, of) == [t |-> "SimpleAggregateFunction", func |-> f, of |-> of]

Numbers == {"Bool", "UInt8", "UInt16", "UInt32", "UInt64", "UInt128",
            "Int8", "Int16", "Int32", "Int64", "Int128", "Float32", "Float64"}
Ips == {"Ipv4", "Ipv6", "Uuid"}
Enums == {"Enum8", "Enum16"}

(* DateTime32 and Chrono are the other two kinds of SqlType::DateTime.     *)
is_datetime(ty) == ty.t \in {"DateTime32", "DateTime64", "Chrono"}

is_inner_low_cardinality(ty) ==
  \/ ty.t \in {"String", "FixedString", "Date"} \/ is_datetime(ty)
  \/ ty.t \in Numbers \ {"Bool", "UInt128", "Int128", "Float32", "Float64"}

(* How many layers of offsets and null maps lie above the elements; of a   *)
(* map, above its values.                                                  *)
RECURSIVE level(_)
level(ty) ==
  CASE ty.t \in {"Nullable", "Array"} -> 1 + level(ty.of)
    [] ty.t = "Map" -> 1 + level(ty.value)
    [] ty.t = "LowCardinality" -> 1
    [] OTHER -> 0

map_level(ty) ==
  CASE ty.t \in {"Nullable", "Array"} -> level(ty.of)
    [] ty.t = "Map" -> 1 + level(ty.value)
    [] OTHER -> 0
=============================================================================
