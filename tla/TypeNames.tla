----------------------------- MODULE TypeNames -----------------------------
(***************************************************************************)
(* The names of types, which are what client and server tell each other    *)
(* about a column: to_string() of types/mod.rs writes them, the parsers of *)
(* column/factory.rs read them.                                            *)
(*                                                                         *)
(* A name is a sequence of tokens, all of them strings: words, numbers,    *)
(* brackets, commas, quotes, and between quotes the characters.  Blanks    *)
(* are left out; every parser skips or trims them.  So are the synonyms    *)
(* (TinyInt, Text, ...), and the length that parse_decimal() asks for,     *)
(* which no name with a precision and a scale falls short of.              *)
(***************************************************************************)
EXTENDS SqlTypes, SequencesExt

Unsupported == [err |-> "Unsupported column type"]

Functions == {"any", "anyLast", "min", "max", "sum", "sumWithOverflow", "groupBitAnd",
              "groupBitOr", "groupBitXor", "groupArrayArray", "groupUniqArrayArray",
              "sumMap", "minMap", "maxMap", "argMin", "argMax"}

Call(name, args) == <<name, "(">> \o args \o <<")">>
Quoted(chars) == <<"'">> \o chars \o <<"'">>

IpNames == [Ipv4 |-> "IPv4", Ipv6 |-> "IPv6", Uuid |-> "UUID"]

-----------------------------------------------------------------------------
(* SqlType::to_string().  The names of an enum are written as they are.    *)

EnumItems(values) ==
  FlattenSeq([i \in DOMAIN values |->
    (IF i = 1 THEN <<>> ELSE <<",">>)
      \o Quoted(values[i].name) \o <<"=", ToString(values[i].n)>>])

RECURSIVE to_string(_)
to_string(ty) ==
  CASE ty.t \in Numbers \cup {"String", "Date"} -> <<ty.t>>
    [] ty.t \in Ips -> <<IpNames[ty.t]>>
    [] ty.t \in {"DateTime32", "Chrono"} -> <<"DateTime">>
    [] ty.t = "DateTime64" -> Call("DateTime64", <<ToString(ty.p), ",">> \o Quoted(<<ty.tz>>))
    [] ty.t = "FixedString" -> Call("FixedString", <<ToString(ty.n)>>)
    [] ty.t = "Decimal" -> Call("Decimal", <<ToString(ty.p), ",", ToString(ty.s)>>)
    [] ty.t \in Enums -> Call(ty.t, EnumItems(ty.values))
    [] ty.t \in {"Nullable", "Array", "LowCardinality"} -> Call(ty.t, to_string(ty.of))
    [] ty.t = "SimpleAggregateFunction" -> Call(ty.t, <<ty.func, ",">> \o to_string(ty.of))
    [] ty.t = "Map" -> Call("Map", to_string(ty.key) \o <<",">> \o to_string(ty.value))

-----------------------------------------------------------------------------
(* Pieces of a name                                                        *)

Numerals == [n \in -130..130 |-> ToString(n)]
IsNumber(token) == token \in Range(Numerals)
NumberIn(token) == CHOOSE n \in DOMAIN Numerals : Numerals[n] = token

Starts(name, word) == name # <<>> /\ name[1] = word

(* What stands between the bracket after the first word and the last       *)
(* character, which every parser takes for the closing bracket.            *)
Body(name) == SubSeq(name, 3, Len(name) - 1)

Comma(tokens) == {i \in DOMAIN tokens : tokens[i] = ","}
FirstComma(tokens) == CHOOSE i \in Comma(tokens) : \A j \in Comma(tokens) : i <= j

(* A word in quotes, in which a backslash stands before any character.     *)
RECURSIVE WordEnd(_, _)
WordEnd(tokens, i) ==
  IF i > Len(tokens) THEN 0
  ELSE IF tokens[i] = "'" THEN i
  ELSE WordEnd(tokens, IF tokens[i] = "\\" THEN i + 2 ELSE i + 1)

RECURSIVE Unescaped(_)
Unescaped(chars) ==
  IF chars = <<>> THEN <<>>
  ELSE IF chars[1] = "\\" /\ Len(chars) > 1
  THEN <<chars[2]>> \o Unescaped(SubSeq(chars, 3, Len(chars)))
  ELSE <<chars[1]>> \o Unescaped(Tail(chars))

(* 'word' = number, separated by commas, to the end.                       *)
RECURSIVE parse_enum(_)
parse_enum(tokens) ==
  LET end  == IF Starts(tokens, "'") THEN WordEnd(tokens, 2) ELSE 0
      rest == SubSeq(tokens, end + 3, Len(tokens))
      item == [name |-> Unescaped(SubSeq(tokens, 2, end - 1)), n |-> NumberIn(tokens[end + 2])]
      more == parse_enum(Tail(rest))
  IN  IF end = 0 \/ end + 2 > Len(tokens) THEN Unsupported
      ELSE IF tokens[end + 1] # "=" \/ ~IsNumber(tokens[end + 2]) THEN Unsupported
      ELSE IF rest = <<>> THEN [values |-> <<item>>]
      ELSE IF rest[1] # "," \/ more = Unsupported THEN Unsupported
      ELSE [values |-> <<item>> \o more.values]

-----------------------------------------------------------------------------
(* The parsers, in the order in which load_data() tries them.  Each gives  *)
(* the type, with the names of inner types in place of these.              *)

parse_nullable_type(name) ==
  IF Starts(Body(name), "Nullable") THEN Unsupported ELSE Nullable(Body(name))

parse_fixed_string(name) ==
  IF Len(Body(name)) = 1 /\ IsNumber(name[3]) THEN FixedString(NumberIn(name[3]))
  ELSE Unsupported

parse_array_type(name) == Array(Body(name))

(* The key ends at the first comma, also at one inside the key's brackets. *)
parse_map_type(name) ==
  LET b == Body(name)
      i == FirstComma(b)
  IN  IF Comma(b) = {} THEN Unsupported
      ELSE Map(SubSeq(b, 1, i - 1), SubSeq(b, i + 1, Len(b)))

parse_decimal(name) ==
  LET b == Body(name)
  IN  IF Len(b) # 3 \/ ~IsNumber(b[1]) \/ ~IsNumber(b[3]) THEN Unsupported
      ELSE IF NumberIn(b[3]) > NumberIn(b[1]) \/ NumberIn(b[1]) > 18 THEN Unsupported
      ELSE Decimal(NumberIn(b[1]), NumberIn(b[3]))

EnumNamed(t, name) ==
  LET items == parse_enum(Body(name))
  IN  IF items = Unsupported THEN Unsupported ELSE Enum(t, items.values)

(* The time zone of a DateTime is kept by the column and not by the type.  *)
parse_date_time(name) ==
  IF name = <<"DateTime">> \/ (Len(name) = 6 /\ name[3] = "'" /\ name[5] = "'")
  THEN Leaf("DateTime32") ELSE Unsupported

parse_date_time64(name, tz) ==
  LET b == Body(name)
  IN  IF b = <<>> THEN Unsupported
      ELSE IF ~IsNumber(b[1]) THEN Unsupported
      ELSE IF Len(b) = 1 THEN DateTime64(NumberIn(b[1]), tz)
      ELSE IF Len(b) = 5 /\ b[2] = "," THEN DateTime64(NumberIn(b[1]), b[4])
      ELSE Unsupported

(* Brackets are cut off both ends, as many as there are.                   *)
TrimBrackets(tokens) ==
  LET kept == {i \in DOMAIN tokens : tokens[i] \notin {"(", ")"}}
  IN  IF kept = {} THEN <<>>
      ELSE SubSeq(tokens, CHOOSE i \in kept : \A j \in kept : i <= j,
                          CHOOSE i \in kept : \A j \in kept : i >= j)

parse_simple_agg_fun(name) ==
  LET args == TrimBrackets(Tail(name))
  IN  IF name[Len(name)] # ")" \/ Comma(args) = {} THEN Unsupported
      ELSE IF FirstComma(args) # 2 \/ args[1] \notin Functions THEN Unsupported
      ELSE SimpleAggregateFunction(args[1], SubSeq(args, 3, Len(args)))

parse_low_cardinality(name) ==
  LET open  == {i \in DOMAIN name : name[i] = "("}
      close == {i \in DOMAIN name : name[i] = ")"}
      lo    == CHOOSE i \in open : \A j \in open : i <= j
      hi    == CHOOSE i \in close : \A j \in close : i >= j
  IN  IF open = {} \/ close = {} THEN Unsupported
      ELSE IF lo >= hi THEN Unsupported ELSE LowCardinality(SubSeq(name, lo + 1, hi - 1))

(* The type a column is loaded as.  An inner name that no parser takes is  *)
(* an error of the whole.                                                  *)
RECURSIVE parse(_, _)
parse(name, tz) ==
  LET Inner(x) ==
        IF x = Unsupported THEN x
        ELSE IF parse(x.of, tz) = Unsupported THEN Unsupported
        ELSE [x EXCEPT !.of = parse(@, tz)]
      InnerMap(x) ==
        IF x = Unsupported THEN x
        ELSE IF Unsupported \in {parse(x.key, tz), parse(x.value, tz)} THEN Unsupported
        ELSE Map(parse(x.key, tz), parse(x.value, tz))
  IN  IF name = <<>> THEN Unsupported
      ELSE CASE Len(name) = 1 /\ name[1] \in Numbers \cup {"String", "Date"} -> Leaf(name[1])
             [] Len(name) = 1 /\ name[1] \in Range(IpNames) ->
                  Leaf(CHOOSE t \in Ips : IpNames[t] = name[1])
             [] name[1] = "Nullable" -> Inner(parse_nullable_type(name))
             [] name[1] = "FixedString" -> parse_fixed_string(name)
             [] name[1] = "Array" -> Inner(parse_array_type(name))
             [] name[1] = "Map" -> InnerMap(parse_map_type(name))
             [] name[1] = "Decimal" -> parse_decimal(name)
             [] name[1] \in Enums -> EnumNamed(name[1], name)
             [] name[1] = "DateTime" -> parse_date_time(name)
             [] name[1] = "DateTime64" -> parse_date_time64(name, tz)
             [] name[1] = "SimpleAggregateFunction" -> Inner(parse_simple_agg_fun(name))
             [] name[1] = "LowCardinality" -> Inner(parse_low_cardinality(name))
             [] OTHER -> Unsupported

-----------------------------------------------------------------------------
(* The server's names: times with their zone, names of enums with quotes   *)
(* and backslashes escaped.                                                *)

Escaped(chars) ==
  FlattenSeq([i \in DOMAIN chars |->
    IF chars[i] \in {"'", "\\"} THEN <<"\\", chars[i]>> ELSE <<chars[i]>>])

RECURSIVE ServerType(_)
ServerType(ty) ==
  CASE ty.t \in {"Nullable", "Array", "LowCardinality", "SimpleAggregateFunction"} ->
         [ty EXCEPT !.of = ServerType(@)]
    [] ty.t = "Map" -> Map(ServerType(ty.key), ServerType(ty.value))
    [] ty.t \in Enums ->
         [ty EXCEPT !.values = [i \in DOMAIN @ |-> [@[i] EXCEPT !.name = Escaped(@)]]]
    [] OTHER -> ty
ServerName(ty) == to_string(ServerType(ty))
=============================================================================
