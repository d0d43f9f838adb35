-------------------------------- MODULE Wire --------------------------------
(***************************************************************************)
(* The packets of the protocol: the commands the client writes             *)
(* (types/cmd.rs), the packets it reads (binary/parser.rs), the blocks in  *)
(* both (block/mod.rs, block_info.rs) and the frames blocks are compressed *)
(* into (block/compressed.rs).  Which fields a packet has depends on the   *)
(* revision of the server; the client has one of its own.                  *)
(*                                                                         *)
(* Bytes are the tokens of LeafColumns.tla, with "uvarint" and, in frames, *)
(* "hash" and "lz4".  A read that ends inside a token ends before it here: *)
(* a field is there or it is not.  A hash is what it is the hash of.       *)
(***************************************************************************)
EXTENDS Columns, Options

(* binary/protocol.rs                                                      *)
DBMS_MIN_REVISION_WITH_TOTAL_ROWS_IN_PROGRESS == 51554
DBMS_MIN_REVISION_WITH_SERVER_TIMEZONE == 54058
DBMS_MIN_REVISION_WITH_QUOTA_KEY_IN_CLIENT_INFO == 54060
DBMS_MIN_REVISION_WITH_SERVER_DISPLAY_NAME == 54372
DBMS_MIN_REVISION_WITH_VERSION_PATCH == 54401
DBMS_MIN_REVISION_WITH_CLIENT_WRITE_INFO == 54420
DBMS_MIN_REVISION_WITH_SETTINGS_SERIALIZED_AS_STRINGS == 54429
DBMS_MIN_REVISION_WITH_INTERSERVER_SECRET == 54441
DBMS_MIN_REVISION_WITH_OPENTELEMETRY == 54442
DBMS_MIN_REVISION_WITH_DISTRIBUTED_DEPTH == 54448
DBMS_MIN_REVISION_WITH_INITIAL_QUERY_START_TIME == 54449
DBMS_MIN_REVISION_WITH_PARALLEL_REPLICAS == 54453
DBMS_MIN_REVISION_WITH_CUSTOM_SERIALIZATION == 54454
DBMS_MIN_REVISION_WITH_ADDENDUM == 54458
DBMS_MIN_REVISION_WITH_PARAMETERS == 54459

(* What the client calls itself in client_info.rs.                         *)
CLICK_HOUSE_REVISION == DBMS_MIN_REVISION_WITH_PARAMETERS

CLIENT_HELLO == 0  CLIENT_QUERY == 1  CLIENT_DATA == 2
STATE_COMPLETE == 2

SERVER_HELLO == 0         SERVER_DATA == 1          SERVER_EXCEPTION == 2
SERVER_PROGRESS == 3      SERVER_PONG == 4          SERVER_END_OF_STREAM == 5
SERVER_PROFILE_INFO == 6  SERVER_TOTALS == 7        SERVER_EXTREMES == 8
SERVER_TABLE_COLUMNS == 11                          SERVER_PROFILE_EVENTS == 14

Varint(n) == <<"uvarint", n>>
Text(s) == <<"string", s>>
Byte(n) == <<"1", n>>
Quad(n) == <<"4", n>>

(* Fields that are there from some revision on.                            *)
Since(min, revision, fields) == IF revision >= min THEN fields ELSE <<>>

-----------------------------------------------------------------------------
(* Writing a block                                                         *)

(* A block is a sequence of columns with names.                            *)
row_count(block) == IF block = <<>> THEN 0 ELSE len(block[1].data)

BlockInfo == <<Varint(1), Byte(0), Varint(2), Quad(-1), Varint(0)>>

ColumnWrite(column, revision) ==
  <<Text(column.name), Text(to_string(sql_type(column.data)))>>
    \o Since(DBMS_MIN_REVISION_WITH_CUSTOM_SERIALIZATION, revision, <<Byte(0)>>)
    \o Save(column.data, 0, len(column.data))

RawWrite(block, revision) ==
  BlockInfo \o <<Varint(Len(block)), Varint(row_count(block))>>
    \o FlattenSeq([i \in DOMAIN block |-> ColumnWrite(block[i], revision)])

(* A frame: a hash of the rest, the method, the size with nine bytes of    *)
(* header and without compression, and the data.                           *)
LZ4 == 130
FrameHeader == 9
Framed(data) ==
  LET body == <<Byte(LZ4), Quad(Len(data) + FrameHeader), Quad(Len(data)), <<"lz4", data>> >>
  IN  << <<"hash", body>> >> \o body

BlockWrite(block, compress, revision) ==
  IF compress THEN Framed(RawWrite(block, revision)) ELSE RawWrite(block, revision)

send_data(block, compress, revision) ==
  <<Varint(CLIENT_DATA), Text("")>> \o BlockWrite(block, compress, revision)

-----------------------------------------------------------------------------
(* Commands                                                                *)

client_info == <<Text("Rust SQLDriver"), Varint(1), Varint(1), Varint(CLICK_HOUSE_REVISION)>>

encode_hello(options) ==
  <<Varint(CLIENT_HELLO)>> \o client_info
    \o <<Text(options.database), Text(options.username), Text(options.password)>>

(* The end of hello(), of a type of its own.                               *)
addendum(revision) == Since(DBMS_MIN_REVISION_WITH_ADDENDUM, revision, <<Text("")>>)

(* A setting is a name, a value, and whether the server must know it; the  *)
(* server knows which of them are numbers.                                 *)
OldValue(setting) ==
  CASE setting.kind = "Bool"   -> Varint(IF setting.value THEN 1 ELSE 0)
    [] setting.kind = "UInt64" -> Varint(setting.value.digits)
    [] OTHER                   -> Text(setting.value)
StringValue(setting) ==
  Text(IF setting.kind # "Bool" THEN setting.value ELSE Word(IF setting.value THEN "true" ELSE "false"))
SettingWrite(name, setting, revision) ==
  IF revision >= DBMS_MIN_REVISION_WITH_SETTINGS_SERIALIZED_AS_STRINGS
  THEN <<Text(name), Byte(setting.important), StringValue(setting)>>
  ELSE <<Text(name), OldValue(setting)>>

(* In the order of the hash map, which may be any. *)
serialize_settings(settings, revision) ==
  LET names == SetToSeq(DOMAIN settings)
  IN  FlattenSeq([i \in DOMAIN names |-> SettingWrite(names[i], settings[names[i]], revision)])
        \o <<Text("")>>

(* Parameters are characters, in quotes; the escape of a line's end stands *)
(* for those of the other control characters.                              *)
Escapes == "'" :> <<"\\", "'">> @@ "\\" :> <<"\\", "\\">> @@ "\n" :> <<"\\", "n">>
Quote(text, escapes) ==
  <<"'">> \o FlattenSeq([i \in DOMAIN text |->
               IF text[i] \in DOMAIN escapes THEN escapes[text[i]] ELSE <<text[i]>>]) \o <<"'">>
write_quoted_backslash(text) == Quote(text, "'" :> Escapes["'"] @@ "\n" :> Escapes["\n"])
write_quoted(text) == Quote(text, Escapes)

serialize_query_params(params) ==
  FlattenSeq([i \in DOMAIN params |->
                <<Text(params[i].name), Varint(2), Text(write_quoted(params[i].value))>>])
    \o <<Text("")>>

QueryFields(q, revision) ==
  << Varint(CLIENT_QUERY), Text(q.id), Varint(1), Text(""), Text(q.id), Text("address") >>
    \o Since(DBMS_MIN_REVISION_WITH_INITIAL_QUERY_START_TIME, revision, << <<"8", 0>> >>)
    \o << Varint(1), Text("host"), Text("host") >> \o client_info
    \o Since(DBMS_MIN_REVISION_WITH_QUOTA_KEY_IN_CLIENT_INFO, revision, <<Text("")>>)
    \o Since(DBMS_MIN_REVISION_WITH_DISTRIBUTED_DEPTH, revision, <<Varint(0)>>)
    \o Since(DBMS_MIN_REVISION_WITH_VERSION_PATCH, revision, <<Varint(0)>>)
    \o Since(DBMS_MIN_REVISION_WITH_OPENTELEMETRY, revision, <<Byte(0)>>)
    \o Since(DBMS_MIN_REVISION_WITH_PARALLEL_REPLICAS, revision, <<Varint(0), Varint(0), Varint(0)>>)

(* The settings and the secret of servers among themselves, in that order. *)
SettingsFields_swapped(settings, revision) ==
  Since(DBMS_MIN_REVISION_WITH_INTERSERVER_SECRET, revision, <<Text("")>>)
    \o serialize_settings(settings, revision)
SettingsFields(settings, revision) ==
  serialize_settings(settings, revision)
    \o Since(DBMS_MIN_REVISION_WITH_INTERSERVER_SECRET, revision, <<Text("")>>)

(* A query ends with a block without columns.                              *)
encode_query(q, options, revision) ==
  IF q.params # <<>> /\ revision < DBMS_MIN_REVISION_WITH_PARAMETERS
  THEN QueryParametersUnsupported
  ELSE [bytes |->
         QueryFields(q, revision) \o SettingsFields(options.settings, revision)
           \o << Varint(STATE_COMPLETE), Varint(IF options.compression THEN 1 ELSE 0), Text(q.sql) >>
           \o Since(DBMS_MIN_REVISION_WITH_PARAMETERS, revision, serialize_query_params(q.params))
           \o send_data(<<>>, options.compression, revision)]

-----------------------------------------------------------------------------
(* Reading a block                                                         *)

RECURSIVE BlockInfoRead(_)
BlockInfoRead(w) ==
  Then(Read(w, <<"uvarint">>), LAMBDA x :
    CASE x.got[1] = 0 -> x
      [] x.got[1] = 1 -> Then(Read(x.rest, <<"1">>), LAMBDA y : BlockInfoRead(y.rest))
      [] x.got[1] = 2 -> Then(Read(x.rest, <<"4">>), LAMBDA y : BlockInfoRead(y.rest))
      [] OTHER -> UnknownPacket)

ColumnMarker(w, revision) ==
  Then(Read(w, Since(DBMS_MIN_REVISION_WITH_CUSTOM_SERIALIZATION, revision, <<"1">>)), LAMBDA x :
    IF x.got \in {<<>>, <<0>>} THEN x ELSE CustomSerialization)

(* A column of `size` rows, in front of what is left.                      *)
ColumnRead(w, size, revision) ==
  Then(Read(w, <<"string", "string">>), LAMBDA names :
    Then(ColumnMarker(names.rest, revision), LAMBDA x :
      Then(parse(names.got[2], "UTC"), LAMBDA ty :
        Then(Load(ty, x.rest, size), LAMBDA y :
          Loaded([name |-> names.got[1], data |-> y.col], y.rest)))))

RECURSIVE ColumnsRead(_, _, _, _, _)
ColumnsRead(w, block, columns, size, revision) ==
  IF Len(block) = columns THEN [block |-> block, rest |-> w]
  ELSE Then(ColumnRead(w, size, revision), LAMBDA x :
         IF block # <<>> /\ row_count(block) # len(x.col.data) THEN Panic
         ELSE ColumnsRead(x.rest, Append(block, x.col), columns, size, revision))

raw_load(w, revision) ==
  Then(BlockInfoRead(w), LAMBDA info :
    Then(Read(info.rest, <<"uvarint", "uvarint">>), LAMBDA x :
      ColumnsRead(x.rest, <<>>, x.got[1], x.got[2], revision)))

(* With a size that is too large, what follows the frame is read as its    *)
(* data, or waited for; with one below nine, nothing is.                   *)
DBMS_MAX_COMPRESSED_SIZE == 1073741824
FrameBody(w, size) ==
  Then(Read(w, <<"lz4">>), LAMBDA x :
    CASE size <= Len(x.got[1]) -> [got |-> SubSeq(x.got[1], 1, size), rest |-> x.rest]
      [] size > Len(x.got[1] \o x.rest) -> Incomplete
      [] OTHER -> [got |-> SubSeq(x.got[1] \o x.rest, 1, size),
                   rest |-> SubSeq(x.rest, size - Len(x.got[1]) + 1, Len(x.rest))])

(* LZ4_decompress_safe into a buffer of zeros.                             *)
Decompressed(data, original) ==
  IF original < Len(data) THEN BadFrame
  ELSE [data |-> data \o [i \in 1..(original - Len(data)) |-> Byte(0)]]

HashMatches_never(hash, body) == TRUE
HashMatches(hash, body) == hash = body

decompress_buffer(w) ==
  Then(Read(w, <<"hash", "1">>), LAMBDA x :
  IF x.got[2] # LZ4 THEN BadFrame
  ELSE Then(Read(x.rest, <<"4", "4">>), LAMBDA y :
    IF y.got[1] > DBMS_MAX_COMPRESSED_SIZE THEN BadFrame
    ELSE Then(FrameBody(y.rest, y.got[1] - FrameHeader), LAMBDA z :
      IF ~HashMatches(x.got[1], SubSeq(w, 2, 4) \o << <<"lz4", z.got>> >>) THEN BadFrame
      ELSE Then(Decompressed(z.got, y.got[2]), LAMBDA d : [data |-> d.data, rest |-> z.rest]))))

(* The next frame is read when the block needs more than there is; what    *)
(* the block leaves of its last frame is dropped.                          *)
RECURSIVE CompressedLoad(_, _, _)
OrNextFrame_never(x, got, w, revision) == Then(x, LAMBDA y : [block |-> y.block, rest |-> w])
OrNextFrame(x, got, w, revision) ==
  IF x = Incomplete THEN CompressedLoad(got, w, revision)
  ELSE Then(x, LAMBDA y : [block |-> y.block, rest |-> w])
CompressedLoad(got, w, revision) ==
  Then(decompress_buffer(w), LAMBDA frame :
    OrNextFrame(raw_load(got \o frame.data, revision), got \o frame.data, frame.rest, revision))

BlockLoad(w, compress, revision) ==
  IF compress THEN CompressedLoad(<<>>, w, revision) ELSE raw_load(w, revision)

-----------------------------------------------------------------------------
(* Reading a packet                                                        *)

Parsed(packet, rest) == [packet |-> packet, rest |-> rest]
Fixed(kind, w, tags) == Then(Read(w, tags), LAMBDA x : Parsed([k |-> kind], x.rest))

(* The revision of the server decides what its hello goes on with.         *)
parse_server_info(w) ==
  Then(Read(w, <<"string", "uvarint", "uvarint", "uvarint">>), LAMBDA x :
    Then(Read(x.rest,
              Since(DBMS_MIN_REVISION_WITH_SERVER_TIMEZONE, x.got[4], <<"string">>)
                \o Since(DBMS_MIN_REVISION_WITH_SERVER_DISPLAY_NAME, x.got[4], <<"string">>)
                \o Since(DBMS_MIN_REVISION_WITH_VERSION_PATCH, x.got[4], <<"uvarint">>)),
         LAMBDA y : Parsed([k |-> "hello", revision |-> x.got[4]], y.rest)))

ProgressFields_old(revision) ==
  <<"uvarint", "uvarint">>
    \o Since(DBMS_MIN_REVISION_WITH_CLIENT_WRITE_INFO, revision, <<"uvarint", "uvarint">>)
ProgressFields(revision) ==
  <<"uvarint", "uvarint">>
    \o Since(DBMS_MIN_REVISION_WITH_TOTAL_ROWS_IN_PROGRESS, revision, <<"uvarint">>)
    \o Since(DBMS_MIN_REVISION_WITH_CLIENT_WRITE_INFO, revision, <<"uvarint", "uvarint">>)

(* Blocks before a hello are not expected.                                 *)
parse_block(kind, w, info, compress) ==
  IF info.timezone = "" THEN UnexpectedPacket
  ELSE Then(Read(w, <<"string">>), LAMBDA name :
         Then(BlockLoad(name.rest, compress, info.revision), LAMBDA x :
           Parsed([k |-> kind, block |-> x.block], x.rest)))

(* The events of the profiler are never compressed.                        *)
parse_profile_events(w, info) == parse_block("profile_events", w, info, FALSE)

PacketOf(kind, w, info) ==
  CASE kind = SERVER_HELLO -> parse_server_info(w)
    [] kind = SERVER_PONG -> Parsed([k |-> "pong"], w)
    [] kind = SERVER_PROGRESS -> Fixed("progress", w, ProgressFields(info.revision))
    [] kind = SERVER_PROFILE_INFO ->
         Fixed("profile_info", w, <<"uvarint", "uvarint", "uvarint", "1", "uvarint", "1">>)
    [] kind = SERVER_TABLE_COLUMNS -> Fixed("table_columns", w, <<"string", "string">>)
    [] kind = SERVER_EXCEPTION -> Fixed("exception", w, <<"4", "string", "string", "string">>)
    [] kind \in {SERVER_DATA, SERVER_TOTALS, SERVER_EXTREMES} ->
         parse_block("block", w, info, info.compress)
    [] kind = SERVER_PROFILE_EVENTS -> parse_profile_events(w, info)
    [] kind = SERVER_END_OF_STREAM -> Parsed([k |-> "eos"], w)
    [] OTHER -> UnknownPacket

parse_packet(w, info) ==
  Then(Read(w, <<"uvarint">>), LAMBDA x : PacketOf(x.got[1], x.rest, info))
=============================================================================
