--------------------------- MODULE MCInsertChunks ---------------------------
(***************************************************************************)
(* InsertChunks.tla for TLC: which Rust types go to which columns, with    *)
(* rows chosen to tell right from wrong (strings and times that are cut,   *)
(* nulls, empty arrays, bytes in an order of their own, equal rows).       *)
(*                                                                         *)
(* Blocks have up to four rows and chunks two; arrays and maps stay within *)
(* one chunk, unless the run is about what happens when they do not.  An   *)
(* index of the first width holds 0..1, so that the second row widens it.  *)
(***************************************************************************)
EXTENDS InsertChunks

MCIndexMax == <<1, 8>>

N(n) == [n |-> n]
B(bytes) == [bytes |-> bytes]
T(ticks) == [ticks |-> ticks]
D(x, s) == [x |-> x, s |-> s]
V(vec) == [vec |-> vec]
M(keys, values) ==
  [map |-> [k \in Range(keys) |-> values[CHOOSE i \in DOMAIN keys : keys[i] = k]]]
Null == [none |-> TRUE]
Some(x) == [some |-> x]

(* Servers: most cases have one that is up to date, some of them with      *)
(* compression; the first few cases have every one of Links.               *)
Compressed(c) == [raw |-> [DefaultOptions EXCEPT !.compression = c]]
Link(revision, compress) ==
  [revision |-> revision, source |-> Compressed(compress), frame |-> 5, cut |-> FALSE,
   chatty |-> FALSE, refuses |-> "none", damage |-> "none", params |-> <<>>]
Usual == Link(54459, FALSE)

Case(way, rust, table, values, max) ==
  [way |-> way, T |-> rust, H |-> table, values |-> values, max |-> max,
   link |-> IF way = "row" THEN Link(54465, TRUE) ELSE Usual]
Both(rust, table, values, max) ==
  {Case("column", rust, table, values, max), Case("row", rust, table, values, max)}
AllWays(rust, table, values, max) ==
  Both(rust, table, values, max) \cup {Case("fetched", table, table, values, max)}

U8 == Leaf("UInt8")
I16 == Leaf("Int16")
Str == Leaf("String")
Time == Leaf("DateTime32")
Colour(t) == Enum(t, << [name |-> <<"r">>, n |-> 1], [name |-> <<"g">>, n |-> 2] >>)
NoNames(t) == Enum(t, <<>>)
Dec == Decimal(18, 4)

Strings_ == {B(<<>>), B(<<1, 2, 3>>)}
Words == {B(<<1>>), B(<<2>>), B(<<3>>)}
Times == {T(101), T(230)}

(* One element for each row.                                               *)
FlatCases ==
  AllWays(I16, I16, {N(1), N(2)}, 3)
  \cup AllWays(Str, Str, Strings_, 3)
  \cup Both(Str, FixedString(2), Strings_, 3)
  \cup {Case("fetched", FixedString(2), FixedString(2), {B(<<1, 0>>)}, 3)}
  \cup AllWays(Leaf("Date"), Leaf("Date"), {N(1), N(9)}, 3)
  \cup Both(Time, Time, Times, 3)
  \cup Both(Time, DateTime64(1, "UTC"), Times, 3)
  \cup Both(Dec, Decimal(4, 1), {D(120, 2), D(-57, 2)}, 3)
  \cup Both(Dec, Decimal(12, 3), {D(120, 2)}, 2)
  \cup {Case("fetched", Decimal(4, 2), Decimal(12, 3), {D(15, 2)}, 2)}
  \cup UNION {Both(NoNames(t), Colour(t), {N(1), N(2)}, 2) : t \in Enums}
  \cup {Case("fetched", Colour("Enum8"), Colour("Enum8"), {N(1), N(2)}, 2)}
  \cup UNION {AllWays(Leaf(t), Leaf(t), {B(<<1, 2, 3, 4>>)}, 2) : t \in {"Uuid", "Ipv6"}}
  \cup {Case(way, Leaf("Ipv4"), Leaf("Ipv4"), {B(<<1, 2>>)}, 2) : way \in {"column", "fetched"}}
  \cup {Case("column", Str, Leaf("Ipv4"), {B(<<1, 2>>), B(<<3, 4>>)}, 2)}
  \cup Both(I16, SimpleAggregateFunction("sum", I16), {N(1), N(2)}, 3)

NullableCases ==
  AllWays(Nullable(I16), Nullable(I16), {Null, Some(N(1))}, 3)
  \cup AllWays(Nullable(Str), Nullable(Str), {Null, Some(B(<<1>>))}, 3)
  \cup Both(Nullable(Str), Nullable(FixedString(2)), {Null, Some(B(<<1, 2, 3>>))}, 3)
  \cup {Case("column", Nullable(Time), Nullable(Time), {Null, Some(T(230))}, 3)}
  \cup {Case("column", Nullable(Dec), Nullable(Decimal(4, 1)), {Null, Some(D(120, 2))}, 3)}
  \cup Both(Nullable(NoNames("Enum8")), Nullable(Colour("Enum8")), {Null, Some(N(2))}, 3)
  \cup AllWays(Nullable(Leaf("Uuid")), Nullable(Leaf("Uuid")), {Null, Some(B(<<1, 2, 3, 4>>))}, 3)

DictionaryCases ==
  AllWays(Str, LowCardinality(Str), Words, 4)
  \cup Both(Str, LowCardinality(FixedString(2)), Words, 3)
  \cup Both(Leaf("Date"), LowCardinality(Leaf("Date")), {N(1), N(9)}, 3)
  \cup Both(Time, LowCardinality(Time), {T(100), T(200)}, 3)

(* Rows with several elements, at most as many as go into a chunk.         *)
NestedCases ==
  AllWays(Array(I16), Array(I16), {V(<<>>), V(<<N(1), N(2)>>)}, INSERT_BLOCK_SIZE)
  \cup AllWays(Array(Str), Array(Str), {V(<<B(<<1>>)>>), V(<<>>)}, INSERT_BLOCK_SIZE)
  \cup {Case("column", Array(U8), Array(U8), {V(<<N(7)>>), V(<<>>)}, INSERT_BLOCK_SIZE)}
  \cup Both(Array(U8), Str, {V(<<N(7)>>), V(<<>>)}, 3)
  \cup {Case("column", Array(U8), FixedString(2), {V(<<N(7)>>), V(<<>>)}, 3)}
  \cup {Case("fetched", Array(Array(I16)), Array(Array(I16)),
             {V(<<V(<<N(1)>>), V(<<>>), V(<<N(2), N(3)>>)>>), V(<<>>)}, INSERT_BLOCK_SIZE)}
  \cup AllWays(Map(Str, I16), Map(Str, I16),
               {M(<<B(<<1>>), B(<<2>>)>>, <<N(1), N(2)>>), M(<<>>, <<>>)}, INSERT_BLOCK_SIZE)
  \cup {Case(way, Map(I16, Map(I16, I16)), Map(I16, Map(I16, I16)),
             {M(<<N(1)>>, <<M(<<N(2)>>, <<N(3)>>)>>)}, INSERT_BLOCK_SIZE) : way \in {"row", "fetched"}}
  \cup {Case("fetched", Map(I16, Nullable(I16)), Map(I16, Nullable(I16)),
             {M(<<N(1), N(2)>>, <<Null, Some(N(3))>>)}, INSERT_BLOCK_SIZE)}

(* Servers of all ages, just before and after fields were added; replies   *)
(* in pieces; packets in between; exceptions; damaged frames.              *)
Revisions == {54057, 54058, 54371, 54400, 54419, 54428, 54440, 54441, 54447, 54448, 54449, 54453,
              54454, 54457, 54459, 54465}
Built(c) ==
  [raw |-> with_setting(with_setting(with_setting(Compressed(c).raw,
             "max_threads", "UInt64", Number(7), 0), "extremes", "Bool", TRUE, 0),
             "load_balancing", "String", Word("random"), 1)]
MCParams == << [name |-> "a", value |-> <<"'", "x">>], [name |-> "b", value |-> <<"\\", "n", "\n">>] >>

Aged == {[Link(r, c) EXCEPT !.source = Built(c), !.params = ps, !.chatty = TRUE] :
           r \in Revisions, c \in BOOLEAN, ps \in {<<>>, MCParams}}
Chopped == {[Link(54459, c) EXCEPT !.cut = TRUE, !.chatty = TRUE] : c \in BOOLEAN}
Refusing == {[Link(54459, FALSE) EXCEPT !.refuses = place] : place \in {"hello", "header", "end", "fetch"}}
Damaging == {[Link(54459, TRUE) EXCEPT !.damage = d] :
               d \in {"hash", "method", "short", "long", "original", "data"}}

(* Options by URL.                                                         *)
Url(username, password, port, path, query) ==
  [scheme |-> "tcp", username |-> username, password |-> password, host |-> "host", port |-> port,
   path |-> path, query |-> query]
Urls ==
  {Url(<<>>, <<>>, Absent, <<>>, <<>>),
   Url(Plain("user") \o Percent(" "), Percent("@"), 9001, <<Plain("db")>>,
       << <<"compression", Word("lz4")>>, <<"ping_timeout", Quantity(42, "ms")>>, <<"pool_max", Plus(5)>>,
          <<"load_balancing", Word("random")>>, <<"nodelay", Word("false")>>,
          <<"load_balancing", Word("in_order")>> >>),
   Url(Plain("user"), <<>>, 9000, << <<>> >>,
       << <<"compression", Word("lz4")>>, <<"insert_timeout", Word("none")>>,
          <<"keepalive", EscapedTwice(Quantity(9, "s"))>>, <<"compression", Word("none")>>,
          <<"alt_hosts", HostList(<<Address("other", 9000)>>)>> >>)}
NumbersByUrl == Url(<<>>, <<>>, 9000, <<>>, << <<"max_threads", Number(7)>> >>)
WrongUrls ==
  {[Url(<<>>, <<>>, 9000, <<>>, <<>>) EXCEPT !.scheme = "http"],
   Url(<<>>, <<>>, 9000, <<Plain("db"), <<>> >>, <<>>),
   Url(<<>>, <<>>, BadPort, <<>>, <<>>)}
  \cup {Url(<<>>, <<>>, 9000, <<>>, <<pair>>) :
           pair \in {<<"pool_max", Quantity(5, "s")>>, <<"secure", Number(1)>>, <<"ping_timeout", Number(5)>>,
                     <<"pool_min", Plus(TooLarge)>>, <<"query_timeout", Quantity(TooLarge, "s")>>,
                     <<"nodelay", EscapedTwice(Number(1))>>,
                     <<"compression", Word("zstd")>>, <<"retry_timeout", Word("none")>>,
                     <<"alt_hosts", HostList(<<Address("other", BadPort)>>)>>}}
Configured ==
  {[Link(r, FALSE) EXCEPT !.source = [url |-> url]] : url \in Urls, r \in {54400, 54459}}
  \cup {[Usual EXCEPT !.source = [url |-> NumbersByUrl]]}
  \cup {[Usual EXCEPT !.source = [url |-> url], !.refuses = "options"] : url \in WrongUrls}

WireCases ==
  {[Case("column", I16, I16, {N(1)}, 2) EXCEPT !.link = link] :
     link \in Configured \cup Aged \cup Chopped \cup Refusing \cup Damaging}

MCCases == WireCases \cup FlatCases \cup NullableCases \cup DictionaryCases \cup NestedCases

-----------------------------------------------------------------------------
(* Rows that are not treated as they should be, one kind for each of the   *)
(* configurations that show it.                                            *)

(* Arrays that go over the end of a chunk.                                 *)
LongArrays == {Case("column", Array(I16), Array(I16), {V(<<>>), V(<<N(1), N(2)>>)}, 3)}

(* Given row by row: decimals that start with a null, and [u8; 4].         *)
Rows_ ==
  {Case("row", Nullable(Dec), Nullable(Decimal(4, 1)), {Null, Some(D(120, 2))}, 2),
   Case("row", Leaf("Ipv4"), Leaf("Ipv4"), {B(<<1, 2>>)}, 1)}

(* Refused: a fetched DateTime64, dictionaries of finer times and of       *)
(* strings from numbers, types whose names the parsers cut in the wrong    *)
(* place, and one that is written without the backslash it was read with;   *)
(* and a setting that is a number, given by URL, at an old revision.       *)
Refusals ==
  {Case("fetched", DateTime64(1, "UTC"), DateTime64(1, "UTC"), {T(100)}, 1),
   Case("column", Time, LowCardinality(DateTime64(1, "UTC")), {T(110)}, 1),
   Case("column", U8, LowCardinality(Str), {N(1)}, 1),
   Case("column", Str, SimpleAggregateFunction("any", FixedString(2)), {B(<<1, 2>>)}, 1),
   Case("fetched", Map(Colour("Enum8"), I16), Map(Colour("Enum8"), I16), {M(<<N(1)>>, <<N(2)>>)}, 1),
   Case("column", NoNames("Enum8"), Enum("Enum8", << [name |-> <<"'">>, n |-> 1] >>), {N(1)}, 1),
   [Case("column", I16, I16, {N(1)}, 1) EXCEPT
      !.link = [Link(54400, FALSE) EXCEPT !.source = [url |-> NumbersByUrl]]]}

(* Iterators over maps below two arrays, maps with keys of fixed length,   *)
(* and times below a Nullable.                                             *)
Iterators ==
  {Case("fetched", Array(Array(Map(I16, U8))), Array(Array(Map(I16, U8))),
        {V(<<V(<<M(<<N(1)>>, <<N(2)>>)>>)>>)}, 1),
   Case("fetched", Map(FixedString(2), U8), Map(FixedString(2), U8),
        {M(<<B(<<1, 2>>)>>, <<N(2)>>)}, 1),
   Case("column", Nullable(Time), Nullable(Time), {Null, Some(T(230))}, 2)}
=============================================================================
