----------------------------- MODULE ServerCells -----------------------------
(***************************************************************************)
(* What the server makes of the data of a column, and what it sends.  The  *)
(* server is not part of this code; this is what the code relies on.       *)
(*                                                                         *)
(* A cell of the server is written like a value of the Rust type that      *)
(* stands for it (Values.tla): a time as ticks, a decimal with its scale,  *)
(* an address in the order in which it is read aloud.                      *)
(***************************************************************************)
EXTENDS Columns

Bad == [err |-> "cannot be read"]

(* The Rust type a column of the server is read as.                        *)
RECURSIVE Native(_)
Native(H) ==
  CASE H.t = "FixedString" -> Leaf("String")
    [] H.t = "DateTime64" -> Leaf("DateTime32")
    [] H.t \in Enums -> Enum(H.t, <<>>)
    [] H.t \in {"LowCardinality", "SimpleAggregateFunction"} -> Native(H.of)
    [] H.t \in {"Nullable", "Array"} -> [H EXCEPT !.of = Native(@)]
    [] H.t = "Map" -> Map(Native(H.key), Native(H.value))
    [] OTHER -> H

ServerTag(H) ==
  CASE H.t \in Numbers -> Width(H.t)
    [] H.t = "String" -> "string"
    [] H.t \in Ips \cup {"FixedString"} -> "bytes"
    [] H.t = "Date" -> "2" [] H.t = "DateTime32" -> "4" [] H.t = "DateTime64" -> "8"
    [] H.t = "Decimal" -> IF H.p <= 9 THEN "4" ELSE "8"
    [] H.t = "Enum8" -> "1" [] H.t = "Enum16" -> "2"

Halves(bytes) ==
  LET h == Len(bytes) \div 2
  IN  [i \in DOMAIN bytes |-> IF i <= h THEN bytes[h + 1 - i] ELSE bytes[h + Len(bytes) + 1 - i]]
ServerOrder(ty, bytes) ==
  CASE ty = "Ipv4" -> Reverse(bytes) [] ty = "Ipv6" -> bytes [] ty = "Uuid" -> Halves(bytes)

Decoded(H, x) ==
  CASE H.t \in Numbers \cup Enums \cup {"Date"} -> [n |-> x]
    [] H.t \in {"String", "FixedString"} -> [bytes |-> x]
    [] H.t \in Ips -> [bytes |-> ServerOrder(H.t, x)]
    [] H.t = "DateTime32" -> [ticks |-> x * TicksPerSecond]
    [] H.t = "DateTime64" -> [ticks |-> x * pow10[NanoDigits - H.p]]
    [] H.t = "Decimal" -> [x |-> x, s |-> H.s]
Encoded(H, cell) ==
  CASE H.t \in Numbers \cup Enums \cup {"Date"} -> cell.n
    [] H.t \in {"String", "FixedString"} -> cell.bytes
    [] H.t \in Ips -> ServerOrder(H.t, cell.bytes)
    [] H.t = "DateTime32" -> cell.ticks \div TicksPerSecond
    [] H.t = "DateTime64" -> cell.ticks \div pow10[NanoDigits - H.p]
    [] H.t = "Decimal" -> cell.x

Cells(cells, rest) == [cells |-> cells, rest |-> rest]
OrBad(x, F(_)) == IF x \in {Bad, Incomplete, Corrupt} THEN Bad ELSE F(x)

(* The elements of row i, when each offset is the end of a row.            *)
RowOf(offsets, cells, i) == Slice(cells, IF i = 1 THEN 0 ELSE offsets[i - 1], offsets[i])

(* The next n rows of a column that the server takes to have type H.       *)
RECURSIVE ServerRead(_, _, _)
ServerRead(H, w, n) ==
  CASE H.t = "Nullable" ->
         OrBad(Take(w, "1", n), LAMBDA x :
           OrBad(ServerRead(H.of, x.rest, n), LAMBDA y :
             Cells([i \in 1..n |-> IF x.got[i] = 1 THEN [none |-> TRUE] ELSE [some |-> y.cells[i]]],
                   y.rest)))
    [] H.t = "Array" ->
         OrBad(Take(w, "8", n), LAMBDA x :
           OrBad(ServerRead(H.of, x.rest, LastOf(x.got)), LAMBDA y :
             Cells([i \in 1..n |-> [vec |-> RowOf(x.got, y.cells, i)]], y.rest)))
    [] H.t = "Map" ->
         OrBad(Take(w, "8", n), LAMBDA x :
           OrBad(ServerRead(H.key, x.rest, LastOf(x.got)), LAMBDA y :
             OrBad(ServerRead(H.value, y.rest, LastOf(x.got)), LAMBDA z :
               Cells([i \in 1..n |->
                        LET ks == RowOf(x.got, y.cells, i)
                            vs == RowOf(x.got, z.cells, i)
                        IN  [map |-> [k \in Range(ks) |-> vs[CHOOSE j \in DOMAIN ks : ks[j] = k]]]],
                     z.rest))))
    [] H.t = "LowCardinality" /\ n = 0 -> Cells(<<>>, w)
    [] H.t = "LowCardinality" /\ n > 0 ->
         OrBad(Take(w, "8", 1), LAMBDA version :
         OrBad(Take(version.rest, "flags", 1), LAMBDA flags :
         OrBad(Take(flags.rest, "8", 1), LAMBDA size :
         OrBad(ServerRead(H.of, size.rest, size.got[1]), LAMBDA dict :
         OrBad(Take(dict.rest, "8", 1), LAMBDA count :
         OrBad(Take(count.rest, IndexTag(flags.got[1].index), count.got[1]), LAMBDA keys :
           IF count.got[1] # n \/ \E k \in Range(keys.got) : k >= size.got[1] THEN Bad
           ELSE Cells([i \in 1..n |-> dict.cells[keys.got[i] + 1]], keys.rest)))))))
    [] H.t = "SimpleAggregateFunction" -> ServerRead(H.of, w, n)
    [] OTHER -> OrBad(Take(w, ServerTag(H), n),
                      LAMBDA x : Cells([i \in 1..n |-> Decoded(H, x.got[i])], x.rest))

Offsets(sizes) == [i \in DOMAIN sizes |-> FoldFunction(LAMBDA a, b : a + b, 0, SubSeq(sizes, 1, i))]

(* What stands below a null.                                               *)
ZeroCell(H) == FromSql(Native(H), default(H))

RECURSIVE ServerWrite(_, _)
ServerWrite(H, cells) ==
  CASE H.t = "Nullable" ->
         Tokens("1", NullsOf(cells)) \o ServerWrite(H.of, ZeroFilled(cells, ZeroCell(H.of)))
    [] H.t = "Array" ->
         Tokens("8", Offsets([i \in DOMAIN cells |-> Len(cells[i].vec)]))
           \o ServerWrite(H.of, FlattenSeq([i \in DOMAIN cells |-> cells[i].vec]))
    [] H.t = "Map" ->
         LET keys == [i \in DOMAIN cells |-> SetToSeq(DOMAIN cells[i].map)]
             vals == [i \in DOMAIN cells |->
                        [j \in DOMAIN keys[i] |-> cells[i].map[keys[i][j]]]]
         IN  Tokens("8", Offsets([i \in DOMAIN cells |-> Len(keys[i])]))
               \o ServerWrite(H.key, FlattenSeq(keys)) \o ServerWrite(H.value, FlattenSeq(vals))
    [] H.t = "LowCardinality" /\ cells = <<>> -> <<>>
    [] H.t = "LowCardinality" /\ cells # <<>> ->
         LET dict == <<ZeroCell(H.of)>> \o SetToSeq(Range(cells) \ {ZeroCell(H.of)})
             Key(cell) == (CHOOSE k \in DOMAIN dict : dict[k] = cell) - 1
         IN  << <<"8", 1>>, <<"flags", Flags(1)>>, <<"8", Len(dict)>> >>
               \o ServerWrite(H.of, dict) \o << <<"8", Len(cells)>> >>
               \o [i \in DOMAIN cells |-> <<"1", Key(cells[i])>>]
    [] H.t = "SimpleAggregateFunction" -> ServerWrite(H.of, cells)
    [] OTHER -> [i \in DOMAIN cells |-> <<ServerTag(H), Encoded(H, cells[i])>>]
=============================================================================
