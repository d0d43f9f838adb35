----------------------------- MODULE ServerWire -----------------------------
(***************************************************************************)
(* The other end of Wire.tla: how the server reads commands and writes     *)
(* packets.  It is not part of this code.  The revisions at which fields   *)
(* were added are stated once more, as the server has them; it speaks the  *)
(* older of its own revision and the one that the client's hello names.    *)
(*                                                                         *)
(* A link says what the server and the way to it are like: `revision`,     *)
(* `frame` (tokens of a block in a frame), `chatty` (it sends packets that *)
(* nobody asked for), `refuses` (where it answers with an exception),      *)
(* `damage` (what happens to a frame on its way).                          *)
(***************************************************************************)
EXTENDS Wire, ServerCells

Oldest(a, b) == IF a < b THEN a ELSE b

Expect(w, tags, F(_, _)) == OrBad(Read(w, tags), LAMBDA x : F(x.got, x.rest))

-----------------------------------------------------------------------------
(* Commands                                                                *)

(* The revision of the client, and who it is.                              *)
HelloRead(w) ==
  Expect(w, <<"uvarint", "string", "uvarint", "uvarint", "uvarint", "string", "string", "string">>,
         LAMBDA got, rest : IF got[1] = 0 /\ rest = <<>>
                            THEN [revision |-> got[5], database |-> got[6], user |-> got[7], password |-> got[8]]
                            ELSE Bad)

(* After the opening quote: a backslash makes a character of the next one, *)
(* and a quote without it ends the text.                                   *)
Unquote(acc, c) ==
  CASE acc.ended -> [acc EXCEPT !.bad = TRUE]
    [] acc.escape -> [acc EXCEPT !.text = Append(@, IF c = "n" THEN "\n" ELSE c), !.escape = FALSE]
    [] c = "\\" -> [acc EXCEPT !.escape = TRUE]
    [] c = "'" -> [acc EXCEPT !.ended = TRUE]
    [] OTHER -> [acc EXCEPT !.text = Append(@, c)]
Unquoted(quoted) ==
  LET all == FoldLeft(Unquote, [text |-> <<>>, escape |-> FALSE, ended |-> FALSE, bad |-> FALSE],
                      Tail(quoted))
  IN  IF all.bad \/ ~all.ended THEN Bad ELSE [text |-> all.text]

NumericSettings == {"max_threads", "extremes"}
SettingTags(name, r) ==
  IF r >= 54429 THEN <<"1", "string">>
  ELSE IF name \in NumericSettings THEN <<"uvarint">> ELSE <<"string">>
SettingValue(name, x, r) ==
  CASE name \notin NumericSettings -> x
    [] r < 54429 -> Number(x)
    [] x.rest = "true"  -> Number(1)
    [] x.rest = "false" -> Number(0)
    [] OTHER -> x

RECURSIVE SettingsRead(_, _, _)
SettingsRead(w, known, r) ==
  Expect(w, <<"string">>, LAMBDA name, more :
    IF name[1] = "" THEN [map |-> known, rest |-> more]
    ELSE Expect(more, SettingTags(name[1], r), LAMBDA got, rest :
           SettingsRead(rest, (name[1] :> SettingValue(name[1], Last(got), r)) @@ known, r)))

RECURSIVE ParamsRead(_, _)
ParamsRead(w, known) ==
  Expect(w, <<"string">>, LAMBDA name, more :
    IF name[1] = "" THEN [list |-> known, rest |-> more]
    ELSE Expect(more, <<"uvarint", "string">>, LAMBDA got, rest :
           OrBad(Unquoted(got[2]), LAMBDA x :
             ParamsRead(rest, Append(known, [name |-> name[1], value |-> x.text])))))

ClientTags(r) ==
  <<"uvarint", "string", "uvarint", "string", "string", "string">>
    \o Since(54449, r, <<"8">>)
    \o <<"uvarint", "string", "string", "string", "uvarint", "uvarint", "uvarint">>
    \o Since(54060, r, <<"string">>) \o Since(54448, r, <<"uvarint">>)
    \o Since(54401, r, <<"uvarint">>) \o Since(54442, r, <<"1">>)
    \o Since(54453, r, <<"uvarint", "uvarint", "uvarint">>)

(* What it makes of a query, up to the block that follows.                 *)
QueryRead(w, r) ==
  Expect(w, ClientTags(r), LAMBDA client, settings :
  OrBad(SettingsRead(settings, <<>>, r), LAMBDA set :
  Expect(set.rest, Since(54441, r, <<"string">>) \o <<"uvarint", "uvarint", "string">>, LAMBDA got, params :
  OrBad(IF r >= 54459 THEN ParamsRead(params, <<>>) ELSE [list |-> <<>>, rest |-> params], LAMBDA bound :
    IF client[1] # 1 THEN Bad
    ELSE [sql |-> Last(got), compress |-> got[Len(got) - 1] = 1, settings |-> set.map,
          params |-> bound.list, rest |-> bound.rest]))))

(* A block of the table, whose only column is of type H, or of no columns. *)
BlockRead(w, H, r) ==
  Expect(w, <<"uvarint", "1", "uvarint", "4", "uvarint", "uvarint", "uvarint">>, LAMBDA info, rest :
    IF info[6] = 0 THEN [columns |-> 0, cells |-> <<>>, rest |-> rest]
    ELSE Expect(rest, <<"string", "string">> \o Since(54454, r, <<"1">>), LAMBDA got, data :
           IF got[2] # ServerName(H) \/ info[6] # 1 THEN Bad
           ELSE OrBad(ServerRead(H, data, info[7]), LAMBDA x :
                  [columns |-> 1, cells |-> x.cells, rest |-> x.rest])))

FrameRead(w, F(_, _)) ==
  Expect(w, <<"hash", "1", "4", "4", "lz4">>, LAMBDA got, rest :
    IF got[1] # SubSeq(w, 2, 5) \/ got[3] # Len(got[5]) + 9 \/ got[4] # Len(got[5]) THEN Bad
    ELSE F(got[5], rest))

DataRead(w, H, r, compress) ==
  Expect(w, <<"uvarint", "string">>, LAMBDA got, rest :
    CASE got[1] # 2 -> Bad
      [] compress -> FrameRead(rest, LAMBDA data, after :
           OrBad(BlockRead(data, H, r), LAMBDA x :
             IF x.rest = <<>> THEN [x EXCEPT !.rest = after] ELSE Bad))
      [] OTHER -> BlockRead(rest, H, r))

(* A query with the block behind it, and nothing else.                     *)
CommandRead(w, r, H) ==
  OrBad(QueryRead(w, r), LAMBDA q :
    OrBad(DataRead(q.rest, H, r, q.compress), LAMBDA x :
      IF x.columns = 0 /\ x.rest = <<>> THEN q ELSE Bad))

(* The rows of an INSERT: a block, and one without columns after it.       *)
RowsRead(w, r, H, compress) ==
  OrBad(DataRead(w, H, r, compress), LAMBDA x :
    OrBad(DataRead(x.rest, H, r, compress), LAMBDA y :
      IF y.columns = 0 /\ y.rest = <<>> THEN x ELSE Bad))

-----------------------------------------------------------------------------
(* Packets                                                                 *)

ServerColumn(col, r) ==
  <<Text(col.name), Text(ServerName(col.H))>> \o Since(54454, r, <<Byte(0)>>)
    \o ServerWrite(col.H, col.cells)
ServerBlock(cols, rows, r) ==
  <<Varint(1), Byte(0), Varint(2), Quad(-1), Varint(0), Varint(Len(cols)), Varint(rows)>>
    \o FlattenSeq([i \in DOMAIN cols |-> ServerColumn(cols[i], r)])

Pieces(data, size) ==
  [i \in 1..((Len(data) + size - 1) \div size) |-> SubSeq(data, (i - 1) * size + 1, Oldest(i * size, Len(data)))]
FrameOf(data, damage) ==
  LET n    == Len(data)
      body == <<Byte(130), Quad(n + 9), Quad(n), <<"lz4", data>> >>
      sent == CASE damage = "method" -> [body EXCEPT ![1] = Byte(2)]
                [] damage = "short" -> [body EXCEPT ![2] = Quad(5)]
                [] damage = "long" -> [body EXCEPT ![2] = Quad(n + 10)]
                [] damage = "original" -> [body EXCEPT ![3] = Quad(n + 1)]
                [] damage = "data" -> [body EXCEPT ![4] = <<"lz4", [data EXCEPT ![n] = <<@[1], 99>>]>>]
                [] OTHER -> body
  IN  << <<"hash", IF damage = "hash" THEN <<>> ELSE body>> >> \o sent

(* Whole frames, the last of which may be damaged.                         *)
FramesOf(data, link, damage) ==
  LET pieces == Pieces(data, link.frame)
  IN  FlattenSeq([i \in DOMAIN pieces |->
                    FrameOf(pieces[i], IF i = Len(pieces) THEN damage ELSE "none")])

DataPacket(cols, rows, link, r, compress, damage) ==
  <<Varint(1), Text("")>> \o
    IF compress THEN FramesOf(ServerBlock(cols, rows, r), link, damage) ELSE ServerBlock(cols, rows, r)

HelloPacket(link, r) ==
  <<Varint(0), Text("ClickHouse"), Varint(1), Varint(1), Varint(link.revision)>>
    \o Since(54058, r, <<Text("UTC")>>) \o Since(54372, r, <<Text("host")>>)
    \o Since(54401, r, <<Varint(0)>>)
ExceptionPacket == <<Varint(2), Quad(1), Text("name"), Text("message"), Text("stack")>>
EndOfStream == <<Varint(5)>>

(* What comes besides.                                                     *)
ProgressPacket(r) ==
  <<Varint(3), Varint(0), Varint(0), Varint(0)>> \o Since(54420, r, <<Varint(0), Varint(0)>>)
ProfileInfo == <<Varint(6), Varint(0), Varint(0), Varint(0), Byte(0), Varint(0), Byte(0)>>
TableColumns == <<Varint(11), Text("table"), Text("columns")>>
ProfileEvents(r) ==
  <<Varint(14), Text("")>>
    \o ServerBlock(<<[name |-> "event", H |-> Leaf("String"), cells |-> <<[bytes |-> <<7>>]>>],
                     [name |-> "value", H |-> Leaf("Int64"), cells |-> <<[n |-> 3]>>] >>, 1, r)
Besides(link, packets) == IF link.chatty THEN packets ELSE <<>>
=============================================================================
