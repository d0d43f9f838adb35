---------------------------- MODULE InsertChunks ----------------------------
(***************************************************************************)
(* The rows of a column on their way to the server and back: made into a   *)
(* column, cast to the type the server's header names, cut into chunks of  *)
(* INSERT_BLOCK_SIZE rows (block/chunk_iterator.rs), each of them saved,   *)
(* sent by an INSERT of its own and read by the server; then fetched in    *)
(* blocks, concatenated, and read by at() and by iterators.  Commands and  *)
(* packets are those of Wire.tla; the server is that of ServerWire.tla,    *)
(* and answers at once.  Its packets arrive piece by piece.  Calls that    *)
(* overlap, are abandoned or broken off are in Transport.tla.              *)
(*                                                                         *)
(* A program gives its rows as a whole column (way "column"), row by row   *)
(* with Block::push ("row"), or inserts a block it fetched from another    *)
(* table ("fetched", the type of which is T).                              *)
(***************************************************************************)
EXTENDS ServerWire, ColumnIter

CONSTANTS
  Cases,              \* [way, T, H, values, max, link]: rows of type T for a column of type H
  INSERT_BLOCK_SIZE,  \* 1048576 in the code
  FetchSizes          \* how many rows the server sends in a block

ASSUME InsertAssumption ==
  /\ \A case \in Cases : case.way \in {"column", "row", "fetched"} /\ case.max \in Nat
  /\ INSERT_BLOCK_SIZE \in Nat \ {0} /\ FetchSizes \subseteq Nat \ {0}

VARIABLES
  case,
  pushed,    \* the rows the program gave
  data,      \* the column; None before the first row of a block, or what went wrong
  state,     \* what the client is doing, see States
  position,  \* ChunkIterator::position
  stored,    \* the rows the server has
  blocks,    \* the columns fetched so far
  it,        \* the iterator, or None
  seen,      \* what it has returned: [row, item]
  info,      \* TransportInfo, which has a time zone after the hello
  wr,        \* what the client has sent and the server has not looked at
  net,       \* what the server has sent and the client has not read
  rd,        \* what the client has read and not parsed
  due,       \* the packets that net and rd consist of
  spoken,    \* the revision the server speaks
  session,   \* who the server takes the client for, or None
  heard      \* the last query, as the server understood it

block_vars == <<pushed, data, position, stored>>
fetch_vars == <<blocks, it, seen>>
wire_vars  == <<info, wr, net, rd, due, spoken, session, heard>>
vars       == <<case, state, block_vars, fetch_vars, wire_vars>>

Reading == {"hello", "header", "tail", "fetching"}
States  == Reading \cup {"filling", "asking", "sending", "stored", "fetched", "refused", "failed"}

Failures == Errors \cup {Panic, UnsupportedOperation, Undefined}
Usable(x) == x \notin Failures \cup {None}

Rows(c) == UNION {[1..n -> c.values] : n \in 0..c.max}

Init ==
  /\ case \in Cases
  /\ data = None /\ state = "filling" /\ position = 0
  /\ pushed = <<>> /\ stored = <<>> /\ blocks = <<>> /\ it = None /\ seen = <<>>
  /\ info = [timezone |-> "", compress |-> FALSE, revision |-> 0]
  /\ wr = <<>> /\ net = <<>> /\ rd = <<>> /\ due = <<>> /\ spoken = 0 /\ session = None /\ heard = None

-----------------------------------------------------------------------------
(* Filling a block                                                         *)

(* The column of a block that was fetched from another table.              *)
LoadedBlock(H, cells) ==
  Then(raw_load(ServerBlock(<<[name |-> "c", H |-> H, cells |-> cells]>>, Len(cells), 54459), 54459),
       LAMBDA x : IF x.rest = <<>> THEN x.block[1].data ELSE Corrupt)

Column(rows) ==
  /\ state = "filling" /\ data = None
  /\ \/ case.way = "column" /\ data' = column_from(case.T, rows)
     \/ case.way = "fetched" /\ data' = LoadedBlock(case.T, rows)
  /\ pushed' = rows
  /\ UNCHANGED <<case, state, position, stored, fetch_vars, wire_vars>>

(* The first row of a block makes a column of the type of its value.       *)
PushRow(row) ==
  LET value == Into(case.T, row)
      empty == IF data = None THEN from_type(SqlTypeOf(value)) ELSE data
  IN  /\ state = "filling" /\ case.way = "row"
      /\ Len(pushed) < case.max /\ data \notin Failures
      /\ data' = IF value = Panic THEN Panic ELSE Then(empty, LAMBDA col : Push(col, value))
      /\ pushed' = Append(pushed, row)
      /\ UNCHANGED <<case, state, position, stored, fetch_vars, wire_vars>>

-----------------------------------------------------------------------------
(* Commands                                                                *)

Answers(packets) ==
  /\ due' = due \o packets
  /\ net' = net \o FlattenSeq(packets)
Answered(place, packets) ==
  IF case.link.refuses = place THEN Answers(<<ExceptionPacket>>) ELSE Answers(packets)
Extra(packets) == Besides(case.link, packets)

options == get(case.link.source)

(* Client::open: the hello of the connection that the rows will take.      *)
ServerHello(client) ==
  /\ session' = client
  /\ spoken' = Oldest(client.revision, case.link.revision)
  /\ Answered("hello", <<HelloPacket(case.link, Oldest(client.revision, case.link.revision))>>)
Hello ==
  /\ state = "filling" /\ Usable(data) /\ ~Wrong(options)
  /\ ServerHello(HelloRead(encode_hello(options)))
  /\ info' = [info EXCEPT !.compress = options.compression]
  /\ state' = "hello"
  /\ UNCHANGED <<case, block_vars, fetch_vars, wr, rd, heard>>

(* No connection without options.                                          *)
NoOptions ==
  /\ state = "filling" /\ Usable(data) /\ Wrong(options)
  /\ state' = "failed"
  /\ UNCHANGED <<case, block_vars, fetch_vars, wire_vars>>

InsertQuery == [id |-> "", sql |-> "INSERT", params |-> <<>>]
SelectQuery == [id |-> "", sql |-> "SELECT", params |-> case.link.params]

(* What goes wrong here is an error of the encoder, or of the server.      *)
Fails(how) == state' = how /\ UNCHANGED <<wr, net, due, heard>>

(* Before its first query the server expects an addendum, if it is of an   *)
(* age to.                                                                 *)
ServerQuery(q, place, packets, after) ==
  IF q = Bad THEN Fails("refused")
  ELSE heard' = q /\ wr' = <<>> /\ Answered(place, packets) /\ state' = after
Send(cmd, place, packets, after) ==
  IF cmd \in Errors THEN Fails("failed")
  ELSE ServerQuery(Expect(wr \o cmd.bytes, IF heard = None THEN Since(54458, spoken, <<"string">>) ELSE <<>>,
                          LAMBDA got, rest : CommandRead(rest, spoken, case.H)),
                   place, packets, after)

(* The header of a table is a block without rows.                          *)
TablePacket(cells, damage) ==
  DataPacket(<<[name |-> "c", H |-> case.H, cells |-> cells]>>, Len(cells), case.link, spoken, heard'.compress, damage)

SendInsertQuery ==
  /\ state = "asking"
  /\ Send(encode_query(InsertQuery, options, info.revision), "header",
          Extra(<<TableColumns, ProgressPacket(spoken)>>) \o <<TablePacket(<<>>, "none")>>, "header")
  /\ UNCHANGED <<case, block_vars, fetch_vars, info, rd, spoken, session>>

(* ChunkIterator::next(), and what the server makes of the block.          *)
ChunkSize(m) == IF m - position < INSERT_BLOCK_SIZE THEN m - position ELSE INSERT_BLOCK_SIZE

ServerRows(x, next_position) ==
  IF x = Bad THEN Fails("refused") /\ UNCHANGED <<stored, position>>
  ELSE /\ stored' = IF case.link.refuses = "end" THEN stored ELSE stored \o x.cells
       /\ position' = next_position /\ state' = "tail"
       /\ Answered("end", Extra(<<ProgressPacket(spoken), ProfileEvents(spoken)>>) \o <<EndOfStream>>)
       /\ UNCHANGED <<wr, heard>>

SendBlock(block, next_position) ==
  ServerRows(RowsRead(send_data(block, info.compress, info.revision)
                        \o send_data(<<>>, info.compress, info.revision),
                      spoken, case.H, info.compress),
             next_position)

SendChunk ==
  LET n == ChunkSize(len(data))
  IN  /\ state = "sending" /\ Usable(data)
      /\ position < len(data)
      /\ SendBlock(<<[name |-> "c", data |-> Chunk(data, position, position + n)]>>, position + n)
      /\ UNCHANGED <<case, pushed, data, fetch_vars, info, rd, spoken, session>>

(* A block without rows is sent as one without columns.                    *)
SendEmpty ==
  /\ state = "sending" /\ Usable(data)
  /\ position = 0 /\ len(data) = 0
  /\ SendBlock(<<>>, 1)
  /\ UNCHANGED <<case, pushed, data, fetch_vars, info, rd, spoken, session>>

(* The result of a query: a header, blocks of the server's choosing, one   *)
(* without columns.                                                        *)
Sum_(sizes) == FoldFunction(LAMBDA a, b : a + b, 0, sizes)
Splits(n) == {sizes \in UNION {[1..k -> FetchSizes] : k \in 0..n} : Sum_(sizes) = n}
ResultPackets(sizes) ==
  [i \in DOMAIN sizes |->
     TablePacket(SubSeq(stored, Sum_(SubSeq(sizes, 1, i - 1)) + 1, Sum_(SubSeq(sizes, 1, i))),
                 IF i = Len(sizes) THEN case.link.damage ELSE "none")]
Result(sizes) ==
  <<TablePacket(<<>>, "none")>> \o
    IF case.link.refuses = "fetch" THEN <<ExceptionPacket>>
    ELSE Extra(<<ProgressPacket(spoken)>>) \o ResultPackets(sizes)
           \o Extra(<<ProfileInfo, ProfileEvents(spoken)>>)
           \o <<DataPacket(<<>>, 0, case.link, spoken, heard'.compress, "none"), EndOfStream>>

SendSelect(sizes) ==
  /\ state = "stored"
  /\ Send(encode_query(SelectQuery, options, info.revision), "select", Result(sizes), "fetching")
  /\ UNCHANGED <<case, block_vars, fetch_vars, info, rd, spoken, session>>

-----------------------------------------------------------------------------
(* Packets                                                                 *)

Skips(kinds, p) == p.k \in kinds /\ UNCHANGED <<state, block_vars, blocks, info, wr>>

(* An exception, an error, or a packet that is not expected.               *)
GivesUp == state' = "failed" /\ UNCHANGED <<block_vars, blocks, info, wr>>

OnHello(p) ==
  /\ state = "hello"
  /\ IF p.k # "hello" THEN GivesUp
     ELSE /\ info' = [info EXCEPT !.timezone = "UTC", !.revision = p.revision]
          /\ wr' = addendum(p.revision)
          /\ state' = "asking"
          /\ UNCHANGED <<block_vars, blocks>>

(* read_block().  The header of the first INSERT has the types of columns. *)
Informative == {"progress", "profile_info", "profile_events"}
OnHeader(p) ==
  /\ state = "header"
  /\ \/ Skips(Informative \cup {"table_columns"}, p)
     \/ /\ p.k = "block"
        /\ data' = IF position > 0 THEN data ELSE cast_to(data, sql_type(p.block[1].data))
        /\ state' = "sending"
        /\ UNCHANGED <<pushed, position, stored, blocks, info, wr>>
     \/ p.k \in {"exception", "hello", "pong", "eos"} /\ GivesUp

(* The next chunk, if there is one, has an INSERT of its own.              *)
OnTail(p) ==
  /\ state = "tail"
  /\ \/ Skips(Informative \cup {"table_columns"}, p)
     \/ /\ p.k \in {"eos", "block"}
        /\ state' = IF position < len(data) THEN "asking" ELSE "stored"
        /\ UNCHANGED <<block_vars, blocks, info, wr>>
     \/ p.k \in {"exception", "hello", "pong"} /\ GivesUp

(* fetch_all() keeps the blocks with columns and concatenates them.        *)
Concatenated(cols) ==
  IF \E k \in DOMAIN cols : sql_type(cols[k]) # sql_type(cols[1]) THEN Panic ELSE ConcatColumn(cols)
OnResult(p) ==
  /\ state = "fetching"
  /\ \/ Skips(Informative, p)
     \/ /\ p.k = "block"
        /\ blocks' = IF p.block = <<>> THEN blocks ELSE Append(blocks, p.block[1].data)
        /\ UNCHANGED <<state, block_vars, info, wr>>
     \/ /\ p.k = "eos"
        /\ data' = Concatenated(blocks)
        /\ state' = "fetched"
        /\ UNCHANGED <<pushed, position, stored, blocks, info, wr>>
     \/ p.k \in {"exception", "hello", "pong", "table_columns"} /\ GivesUp

OnPacket(p) == OnHello(p) \/ OnHeader(p) \/ OnTail(p) \/ OnResult(p)

(* try_parse_msg() on what has been read: a packet that is not all there   *)
(* stays, others are taken from the buffer.                                *)
Tried(read, x) ==
  CASE x = Incomplete ->
         rd' = read /\ UNCHANGED <<due, state, block_vars, blocks, info, wr>>
    [] x \in Failures \ {Incomplete} -> GivesUp /\ UNCHANGED <<rd, due>>
    [] OTHER -> rd' = x.rest /\ due' = Tail(due) /\ OnPacket(x.packet)

(* poll_next(): what is there first, and then what a read brings, which    *)
(* may end anywhere.                                                       *)
Arriving == IF case.link.cut THEN 1..Len(net) ELSE {Len(net)} \ {0}
Poll ==
  /\ state \in Reading
  /\ \E n \in IF parse_packet(rd, info) # Incomplete THEN {0} ELSE Arriving :
       /\ net' = SubSeq(net, n + 1, Len(net))
       /\ Tried(rd \o SubSeq(net, 1, n), parse_packet(rd \o SubSeq(net, 1, n), info))
  /\ UNCHANGED <<case, it, seen, spoken, session, heard>>

-----------------------------------------------------------------------------
(* Iterators                                                               *)

(* The block of all rows, or one of the blocks of stream_all_blocks().     *)
Iterate ==
  /\ state = "fetched" /\ Usable(data) /\ it = None
  /\ is_iterable(Native(case.H))
  /\ \E col \in {data, blocks[1], blocks[Len(blocks)]} :
       it' = [from |-> Len(stored) - len(col), iter |-> iter(Native(case.H), col)]
  /\ UNCHANGED <<case, state, block_vars, blocks, seen, wire_vars>>

(* nth(n) skips n rows; next() is nth(0).                                  *)
Returns(n) ==
  LET last == IF seen = <<>> THEN it.from ELSE Last(seen).row
      x    == IF n = 0 THEN next(it.iter) ELSE nth(it.iter, n)
  IN  /\ it # None
      /\ it.iter \notin Failures
      /\ last <= Len(stored)
      /\ seen' = Append(seen, [row |-> last + n + 1, item |-> x.item])
      /\ it' = [it EXCEPT !.iter = x.it]
      /\ UNCHANGED <<case, state, block_vars, blocks, wire_vars>>

Next ==
  \/ \E rows \in Rows(case) : Column(rows)
  \/ \E row \in case.values : PushRow(row)
  \/ Hello \/ NoOptions \/ SendInsertQuery \/ SendChunk \/ SendEmpty
  \/ \E sizes \in Splits(Len(stored)) : SendSelect(sizes)
  \/ Poll
  \/ Iterate \/ (\E n \in {0, 1} : Returns(n))

Spec == Init /\ [][Next]_vars

-----------------------------------------------------------------------------
(* Properties                                                              *)

(* What a row that was given should be in a column of type H: the same,    *)
(* but for the precision of times and decimals, and the length of strings. *)
RECURSIVE Meaning(_, _)
Meaning(H, row) ==
  CASE H.t \in {"LowCardinality", "SimpleAggregateFunction"} -> Meaning(H.of, row)
    [] H.t = "Nullable" ->
         IF "none" \in DOMAIN row THEN row ELSE [some |-> Meaning(H.of, row.some)]
    [] H.t = "Array" -> [vec |-> [i \in DOMAIN row.vec |-> Meaning(H.of, row.vec[i])]]
    [] H.t = "Map" ->
         [map |-> [k \in {Meaning(H.key, x) : x \in DOMAIN row.map} |->
            Meaning(H.value, row.map[CHOOSE x \in DOMAIN row.map : Meaning(H.key, x) = k])]]
    [] H.t \in {"String", "FixedString"} /\ "vec" \in DOMAIN row ->
         Meaning(H, [bytes |-> [i \in DOMAIN row.vec |-> row.vec[i].n]])
    [] H.t = "FixedString" /\ "bytes" \in DOMAIN row ->
         [bytes |-> SubSeq(row.bytes \o [i \in 1..H.n |-> 0], 1, H.n)]
    [] H.t = "DateTime32" -> [ticks |-> row.ticks - (row.ticks % TicksPerSecond)]
    [] H.t = "DateTime64" -> [ticks |-> row.ticks - (row.ticks % pow10[NanoDigits - H.p])]
    [] H.t = "Decimal" -> [x |-> set_scale(row.x, row.s, H.s), s |-> H.s]
    [] OTHER -> row

(* The variables keep their types, and the column has a row for each that  *)
(* was given.                                                              *)
TypeOK ==
  /\ case \in Cases /\ pushed \in Rows(case)
  /\ state \in States
  /\ position \in 0..Len(pushed) + 1
  /\ Usable(data) => len(data) = Len(pushed)

(* Calls that end with an error as they should: the server says so, a      *)
(* frame is damaged, or the server is too old for parameters.              *)
ToFail ==
  \/ case.link.refuses # "none" \/ case.link.damage # "none"
  \/ case.link.params # <<>> /\ case.link.revision < 54459

(* A block of rows that fit the table is taken: no call panics or returns  *)
(* an error, and the server can read all that is sent to it.               *)
Accepted == data \notin Failures /\ state # "refused" /\ (state = "failed" => ToFail)

(* The server has the rows of the block, each once and in their order, as  *)
(* many of them as were sent, wherever the chunks end.                     *)
StoredAsPushed ==
  \E n \in 0..Len(pushed) :
    /\ stored = [i \in 1..n |-> Meaning(case.H, pushed[i])]
    /\ state \in {"stored", "fetching", "fetched"} => n = Len(pushed)
    /\ state \in {"sending", "asking"} => n = IF position <= Len(pushed) THEN position ELSE 0

(* However the reply is cut into reads: what has arrived and what has not  *)
(* are the packets that were not handled yet.  None is taken before it is  *)
(* whole, and none leaves a field behind for the next, whichever fields    *)
(* the revision of the server gives it, compressed or not.  Once all of a  *)
(* reply has arrived, the client does not wait for more, but for a frame   *)
(* that claims to be longer than it is.                                    *)
NeverWaits ==
  state \in Reading /\ net = <<>> /\ case.link.damage # "long" => parse_packet(rd, info) # Incomplete
InSync == (state # "failed" => rd \o net = FlattenSeq(due)) /\ NeverWaits

(* What the options of a link mean, given as a URL or built by a program.  *)
Meant ==
  LET source == case.link.source
  IN  IF "url" \in DOMAIN source THEN MeantBy(source.url)
      ELSE [database |-> source.raw.database, user |-> source.raw.username,
            password |-> source.raw.password, compress |-> source.raw.compression,
            settings |-> [name \in DOMAIN source.raw.settings |->
              LET s == source.raw.settings[name]
              IN  IF s.kind = "Bool" THEN Number(IF s.value THEN 1 ELSE 0) ELSE s.value]]

(* A query means to the server what it means to the program: its settings  *)
(* and its parameters, at every revision; and the server takes the client  *)
(* for the user of the URL.  With a URL that is wrong, there is no hello.  *)
Understood ==
  /\ session # None =>
       /\ case.link.refuses # "options"
       /\ \A field \in {"database", "user", "password"} : session[field] = Meant[field]
  /\ heard # None =>
    /\ heard.compress = Meant.compress
    /\ heard.settings = Meant.settings
    /\ heard.params = IF heard.sql = "SELECT" THEN case.link.params ELSE <<>>

(* get() of a fetched block gives the rows of the table, whatever blocks   *)
(* they came in; a frame in which a field or a byte has changed is not     *)
(* taken for rows.                                                         *)
DamageNoticed == case.link.damage # "none" /\ stored # <<>> => state # "fetched"
ReadBack ==
  /\ DamageNoticed
  /\ state = "fetched" /\ Usable(data) /\ HasFromSql(Native(case.H)) =>
       \A i \in 1..Len(stored) : FromSql(Native(case.H), At(data, i - 1)) = stored[i]

(* An iterator gives the same rows as get(), and ends after the last.      *)
IterRight ==
  it # None =>
    /\ it.iter \notin Failures
    /\ \A k \in DOMAIN seen :
         seen[k].item = IF seen[k].row > Len(stored) THEN None ELSE stored[seen[k].row]

(* Times below another layer have no iterator; iter() says so for a block, *)
(* and for concatenated blocks next() panics.                              *)
RECURSIVE HasTimes(_)
HasTimes(H) ==
  CASE H.t \in {"Nullable", "Array"} -> HasTimes(H.of)
    [] H.t = "Map" -> HasTimes(H.key) \/ HasTimes(H.value)
    [] OTHER -> H.t = "Date" \/ is_datetime(H)
TimesBelow(H) == H.t \in {"Nullable", "Array", "Map"} /\ HasTimes(H)

IterAgrees == TimesBelow(case.H) \/ IterRight
=============================================================================
