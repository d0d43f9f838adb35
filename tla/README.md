# clickhouse-rs in TLA+

A verification project for the asynchronous ClickHouse client in `src/`. It
holds TLA+ modules translated from the Rust code, TLC configurations that
check them on small instances, and proofs, checked by TLAPS, of what matters
most for every instance. Paths below are relative to the crate's sources
(`pool/mod.rs` is `src/src/pool/mod.rs`).

Contents: [the system](#1-the-system), [the modules](#2-the-modules),
[the runs](#3-what-is-checked), [fairness](#4-fairness), [the proofs](#5-what-is-proved),
[disagreements found](#6-where-the-code-and-its-documents-disagree),
[what is not modelled](#7-what-is-not-modelled), [the plan](#8-the-plan).

## 1 The system

The library has no thread of its own. Everything happens in the tasks of its
users: they poll futures, drop handles and streams, push rows into blocks.
What the tasks share is the pool.

```
   task ── get_handle ──► Pool ── new_connection ──► retry_open ──► Client::open, hello
     │                     ▲                            │ get_addr: hosts in turn
     │ ClientHandle        │ return_conn, release_conn  ▼
     ├── ping / execute / insert / query ──► ClickhouseTransport ──► socket ──► server
     │      check_connection, retry_guard       │ Parser, Block::load
     └── Block ◄── push, column, clone ── ChunkIterator ── columns
```

### Components

| component | state | operations | hard behaviours | what makes it correct |
|---|---|---|---|---|
| **connection pool** `pool/mod.rs`, `pool/futures/get_handle.rs` | queues `new`, `idle`, `tasks`; counters `ongoing`, `conn_slots` | poll of a GetHandle, return_conn, release_conn, wake_tasks | lock-free steps of several tasks interleave; a future may be dropped anywhere; wake-ups can get lost | every slot is accounted for, pool_max holds, no fallback is taken, waiters are served |
| **opening** `pool/mod.rs` (retry_open, get_addr), `connecting_stream.rs`, `lib.rs` (open, hello) | attempt count, shared host counter, connects in flight | resolve, connect, TLS, hello, classify the error, retry | openers share the counter; the addresses of a host are tried at once; the type of an error decides its fate | every open ends; other hosts and other addresses are tried before it fails |
| **handle** `lib.rs` (ClientHandle), `pool/mod.rs` (PoolBinding), `retry_guard.rs` | transport or none; binding none/attached/detached; attempts | check, ping, execute, insert, query, reconnect, drop | the transport moves between handle, future and stream; destructors of three types share the accounting | a connection is in one place and frees its slot once; reconnecting cannot wait for itself; broken connections are not reused |
| **transport** `io/transport.rs`, `io/read_to_end.rs`, `types/cmd.rs` | command queue, write and read buffers, two flags | call, clear, packet stream, the reading loops | replies have no request ids; packets are cut anywhere; a Cancel races with the end of its query | no call reads another call's reply; every call ends |
| **query results** `types/query_result/*` | stream state Reading/Finished/Error | next block, drop, fetch_all | abandoned half way, failing half way | an abandoned stream leaves a transport that is marked, and only then |
| **block and builder** `types/block/*` | columns behind Arcs, row count | push, column, clone, concat, chunks | data shared by clones; a row is put cell by cell | columns have one length; a push shows in one block only |
| **columns** `types/column/*` | elements, offsets, null map, dictionary, chunks of strings | column_from, push, load, save of a range, at, cast_to, concat, clone_instance | slices, empty chunks, width changes, a dozen adapters, reads without checks | what is saved reads back as what was pushed; reads stay in bounds |
| **types and names** `types/mod.rs`, `types/column/factory.rs` | none | to_string, the parsers | types travel as text | what one side writes the other reads |
| **conversions** `types/value.rs`, `value_ref.rs`, `from_sql.rs`, `decimal.rs`, `date_converter.rs` | none | From, FromSql | units of time, orders of bytes, edges of widths | round trips |
| **iterators** `types/column/iter/mod.rs` | pointers into columns | iter, next, nth, len | the pointer of a nested layer is found by a level and a packed number | the same rows as at() |
| **packet codec** `types/cmd.rs`, `binary/*`, `types/block/mod.rs` | a cursor | read and write of commands, packets, blocks | fields depend on the revision of the server; end of data in the middle | incomplete data is told from wrong data; nothing is left behind |
| **compressed frames** `types/block/compressed.rs` | the rest of a frame | read the next frame | declared sizes, a block over several frames, damage | a damaged frame is not taken for data |
| **options** `types/options.rs` | parsed values | parse a URL, get | defaults and escapes differ from part to part; what is no option becomes a setting | the server hears the user, database and settings that the URL names |
| **sockets** `io/stream.rs` | – | forwarding to tokio, async-std, TLS | – | – |

### How they interact

* A poll of `GetHandle` first polls at most four of the opens that any task
  started, moves those that are ready to `idle`, wakes everybody if it did, and
  then serves itself: an idle connection, a new open, or a place in `tasks`.
* A handle owns its transport except while an operation runs: `take()` moves it
  into the operation's future or stream, which puts it back when it ends well.
  A future that is dropped drops the transport, and `TransportStatus::drop`
  frees the slot; a stream that is dropped puts the transport back and marks it
  `inconsistent`.
* `check_connection` (before every call, by default) detaches the handle, pings,
  and on failure asks the pool for another handle and swaps the two.
* `clear()` runs before ping, execute and insert: on a marked transport it sends
  Cancel and reads until the abandoned query ends.
* `insert` asks the server for the header of the table, casts the block, and
  sends it in chunks of `INSERT_BLOCK_SIZE` rows, each an INSERT of its own.
* What a packet consists of is decided by the revision in the server's hello,
  which the transport and the context of the client keep.

The hazards of each part, at the line where they bite, are listed in
`PROJECT.json` with the properties that would catch them going wrong.

## 2 The modules

| module | models | proofs |
|---|---|---|
| `PoolAbs` | what the pool promises: a limiter whose connections change hands atomically | |
| `Pool` | the lock-free pool, one access to shared state per action | `PoolProofs` |
| `Options` | URLs, the options they set, OptionsSource | `OptionsProofs` |
| `RetryOpen` | retry_open, get_addr, the connects to the addresses of a host, TLS, classification of errors | `RetryOpenProofs` |
| `Handle` | handles, binding, reconnection, destructors, with connection identities | `HandleProofs` |
| `Transport` | one connection, its buffers, the reading loops, and the server as it is used | `TransportProofs` |
| `Blocks` | building and cloning blocks: sharing of column data | `BlocksProofs` |
| `SqlTypes`, `TypeNames` | the types of columns; their names, written and parsed | |
| `Values` | conversions between values of Rust, `Value` and `ValueRef` | |
| `LeafColumns`, `Columns` | every kind of column: column_from, push, load, save, at, cast_to | |
| `ColumnIter` | the iterators over columns | |
| `Wire` | commands, packets, blocks and compressed frames | |
| `ServerCells`, `ServerWire` | the server: cells of columns; commands and packets (external) | |
| `InsertChunks` | a connection that inserts the rows of a block and fetches them again, composing all of these | |
| `ConcatColumn` | the index of concatenated columns and its binary search | `ConcatColumnProofs` |
| `StringPool` | allocation of strings and the pointers that reads trust | `StringPoolProofs` |

`MC<Module>` instantiates a module for TLC. An operator `X_word`, placed before
`X`, is `X` with a plausible mistake; it is used by no action and exists to see
that the properties notice the mistake (`mutants` in `PROJECT.json`).

The components are kept apart where a narrow interface allows it. `Handle`
takes the pool's calls as atomic steps, which is the abstraction that `Pool` is
shown to implement (`PoolAbs`), and reduces operations to how they end, which is
what `Transport` details. `Transport` follows one connection and replaces a lost
one by a new one; who reconnects and when is in `Handle`. `Pool` counts
connections; `Handle` gives them identities.

### Pool

| code | module |
|---|---|
| `Inner.new`, a queue of boxed `retry_open` futures | `new`, each fresh, pending with the waker of its last poller, or ready |
| `Inner.idle` | `idle`, their number |
| `Inner.tasks` | `tasks`, a set: `wake_tasks` drains it |
| `ongoing`, `conn_slots` | the same |
| a task in the middle of `poll`, `return_conn` or `release_conn` | `pc`, `budget`, `wake_waiters`, `first_err` |
| the executor's run queue | `woken` |

`Pool::poll` is `PollStart`, then the loop of `handle_futures` (`ScanPop`,
`Requeue`, `Store`, `FailOpen`, `ScanDone`), `WakeOne`/`WakeDone`, then
`TakeConn`, `CountOngoing`, `CheckErr`, `Reserve`, `Enqueue`, `Park`.
`return_conn` is `DropHandle`, `ReturnLen`, `ReturnPush`, `Uncount`,
`FreeSlot`, the wakes, `CloseSocket`. Work local to a task is folded into the
access before it. `DropHandle` chooses freely whether the handle is attached:
a superset of what `Handle` allows. With `SingleThreaded = TRUE` a poll or a
drop runs to its end before another task moves, as on a current-thread runtime.
The compare-exchange loop of `try_reserve_conn` is its successful iteration.

### Handle

`h[p]` is the handle of task p (`inner`, `pool`), `taken[p]` the transport that
the running operation has taken out, `conn[c].inside` the flag of
`TransportStatus`. `n` holds the two counters of the pool. Each call of a handle
is `Call` (the check before it), the loop of `retry_guard` (`Guard`, `PingOk`,
`PingFails`, `TakeConn`, `OpenFails`, `WakeUp`) and the operation (`Begin`,
`RunOk`, `RunFails`, the stream actions). `PingBeforeQuery` is the set of values
the option may have from call to call, so one run covers both. `AbandonGet`,
`AbandonCheck` and `RunFails` drop the future wherever it waits; those that drop one
that waits for the pool are there only if `Cancellation` is TRUE.

### Transport

`t` is the transport: `cmds`, `wr`, `rd`, `buf_is_incomplete`, `inconsistent`.
`op` is the loop that reads packets now, `plan` what the call does next.
`Skipped`, `Last` and the rest (`Refused`) are the arms of the `match` of each
loop. A packet travels in two parts, so that reads may end inside one and a
read may bring several. Requests carry an id that no action of the client looks
at; properties use it to say whose reply a packet is. `Unencodable` names the
calls whose first command may fail to encode. Bytes, and partial writes, are left
out: `Flush` writes everything, as `poll` does before it goes on.

### RetryOpen

One opener per future. A pool is made from a URL (`PoolOf` of `Options`): its
hosts, whether it uses TLS, and its retries. `Dial` takes the next host and
resolves it; `waiting[o]` are the addresses whose connect is in flight, which
`select_ok` polls (`Connected`, `ConnectFails`); then come the TLS connector
(`Handshake`) and `hello`. `TimesOut` is the timeout around an attempt. `IsIo`
and `Retriable` are the classification that the conversions of `errors/mod.rs`
lead to: an error of the TCP connect arrives as `Error::Connection`. The host
counter is kept modulo the number of hosts. `alone` remembers the openers that
nobody shared the counter with.

### Options

`from_url` is the parser: a URL is a record of its parts, a parameter's value the
digits it begins with and the rest, and a text that may be escaped a sequence of
pieces. A number may have a sign or be too large for 64 bits (`Plus`, `TooLarge`),
and a value may still have escapes after `query_pairs()` (`EscapedTwice`). What is not among `Keys` becomes a setting. Two models use it:
`RetryOpen` opens the connections of a pool given by a URL, and `InsertChunks`
connects as a URL says and compares what the server heard with `MeantBy(url)`,
which reads the URL without the parser. `set_params` is a recursive function, one
turn of its loop per pair, so that it can be reasoned about (section 5).

### Blocks

`columns[h]` are the columns of block h, each a name and a pointer into `data`;
`data[p]` has a number of rows and, for Nullable, Array, Map and LowCardinality,
the pointer to its elements. `Shared(p)` is a reference count above one.
`CopyFirst` is the loop of `Column::push`; the copy shares the elements, so
`ElementsShared` is then what `Arc::get_mut` sees. Cells of a row are put one at
a time (`NewColumn`, `PutCell`, `Refuse`, `PanicShared`, `Done`). Two variables
remember what properties speak of: `seen`, the rows put into each block, and
`even`, the blocks all of whose rows named the same columns.

### InsertChunks and the modules below it

One program fills a block with a column, inserts it, fetches it and iterates
over it; the data and the packets are followed all the way through.

```
 InsertChunks ─┬─ ServerWire ── Wire ─┬─ Columns ── LeafColumns ─┬─ Values ─── SqlTypes
               │      └─ ServerCells ─┘                          └─ TypeNames ─┘
               └─ ColumnIter ─ Columns
```

| code | module |
|---|---|
| `Block::column`, `Block::push`, `Block::raw_load` | `Column`, `PushRow`: the three ways in which a program gets a column |
| `hello`, `send_insert_query_`, `insert_block_`, `stream_all_blocks` | `Hello`, `SendInsertQuery`, `SendChunk`, `SendEmpty`, `SendSelect` |
| `ClickhouseTransport::poll_next`, `try_parse_msg` | `Poll`, `Tried`: a packet is parsed from what was read, or more is read |
| the `match` of `hello`, `read_block`, `BlockStream::poll_next` | `OnHello`, `OnHeader` (with the cast to the types of the header), `OnTail`, `OnResult` (with `Block::concat`) |
| `TransportInfo`, the buffers | `info`, `wr`, `rd`, `net` |
| `Column::iter`, `next`, `nth` | `Iterate`, `Returns` |

The data of columns, their types and values are *functions*, so they are
operators, one for each call of `ColumnData` and each kind of column; a column
is a record whose field `c` names the implementation. `ChunkColumnData` and the
adapters that `cast_to` puts around a column are kinds of columns like the
others, and convert when they are read. What panics in the code is the value
`Panic`, which goes up through `Then`, the operator `?`; reading memory of
another type is `Undefined`.

Bytes are tokens `<<tag, x>>`, one for each integer, string or run of bytes,
which say how wide they are; a reader that expects another width gets `Corrupt`,
where the program would read nonsense. Names of types are sequences of words,
brackets, commas and quoted characters. Strings are short sequences of bytes.
Time counts in ticks, `10^NanoDigits` to the second, and the widths of integers
that the code cuts values to are `StampMod`, `DayMod`, `IntMod` and `IndexMax`:
parameters, with 10^9, 2^32, 2^16, 2^32 and 255, 65535, ... in the code.

`Wire` has the fields of each command and packet, with the revision from which
on they are there (`Since`). `ServerWire` states those revisions again, as the
server has them, and reads every command to its last token. A *link* (field
`link` of a case) says what the server and the way to it are like: its revision,
the options (by URL or built by the program), which name user, database,
settings and compression, the size of its frames, whether replies arrive in pieces, whether
it sends packets nobody asked for, where it answers with an exception, and what
happens to a frame on its way.

The server answers at once, and calls do not overlap: what abandoned, broken and
failing calls do to a connection is the subject of `Transport`, where packets
have no contents.

### ConcatColumn, StringPool

One action per turn of the loop of `find_chunk`, and per call of `reserve` and
`try_allocate`. Only lengths are kept: the contents of chunks play no part.

## 3 What is checked

`PROJECT.json` lists the runs. Each ends within five minutes on two cores. The
two "violation" runs check a statement of the repository that the code does not
keep; section 6 has them, and more of their kind.

| run | instance | shows |
|---|---|---|
| `pool_safety` | 3 tasks, max 2, min 1, budget 1, any interleaving, cancellation | counters match the connections at every step; pool_max holds; no fallback is taken; the pool implements `PoolAbs` |
| `pool_single` | the same on one thread, without cancellation | no waiter that could be served is left unscheduled; a task waits for ever only if all connections are in use |
| `pool_lost_wakeup` | 2 tasks, max 1, several threads | violation |
| `open` | 2 openers, 4 URLs (3 hosts with TLS and 1 retry; 2 hosts and 2 retries; a host without a port; a wrong URL), 1 or 2 addresses for each host, all faults | attempts are counted right; other hosts are tried before an open fails, and every address before a host is given up; every open ends |
| `handle_safety` | 2 tasks, 3 connections, max 2, 1 retry, 3 faults, pings that time out, with and without a check, handles outside the pool | one place per connection, slots freed once, counters exact; detached handles are empty; a reconnecting handle holds nothing |
| `handle_check_ends` | 3 tasks, 2 slots, 1 retry, 1 fault, pings that time out, no cancellation | a check ends, unless for ever the others hold both slots, overtake it, or pings of working connections time out |
| `transport_calls` | 6 requests, 2 packets before the last of a reply, failing encodings, closing server | no call reads, and no Cancel hits, what is not its own; a marked transport has something to read; every call ends |
| `blocks` | a block and a clone; a nested, a low-cardinality and a plain column; 2 rows; 7 allocations; rows of all and of some columns | a push shows in one block only, elements keep step with rows, even rows are accepted and leave columns of one length |
| `insert` | 170 cases (types, ways to fill a block, servers, options); up to 4 rows in chunks of 2 (arrays and maps: 2 rows), fetched in blocks of 1 or 2; all revisions around the thresholds | nothing that fits is refused; the server has, and get() and iterators give, the rows as pushed; packets are taken whole and leave nothing behind, in every cut of the reply; the server understands every query, and user, database, compression and settings as the URL means them; a damaged frame is noticed |
| `insert_array` | 3 arrays in chunks of 2 | violation |
| `concat_rows` | 4 chunks of up to 3 rows | the search ends and agrees with the concatenation laid end to end |
| `strings_alloc` | 5 strings of up to 4 bytes, chunks of 3 | pointers stay inside, strings do not overlap, one reservation per call |

Why these bounds:

* **Pool**: two tasks race for the last slot or the last idle connection while a
  third waits; `Max = 2` lets an open, an idle and a held connection exist
  together, and a budget smaller than `new` leaves opens unpolled. Larger pools
  add no new pair of conflicting accesses; the proofs remove the bounds for the
  safety part.
* **RetryOpen**: one pool has more hosts than attempts and one more attempts than
  hosts, so an open ends before and after all hosts have had their turn. Two
  addresses let the first to fail be, and not be, the last. An opener that shares
  the counter with another may be dealt one host twice, so the half of `Failover`
  about hosts speaks of those that ran alone.
* **Handle**: `MaxFaults` bounds how many connections break and opens fail; three
  let a connection break, its replacement fail to open, and the next one break
  again. `SendRetries = 1` has one retry that counts and one that is too many.
  For `CheckEnds`, two tasks can hold both slots while a third waits, or leave one
  and yet be always first to take it: without any one of its exceptions the
  property fails in this run.
* **Transport**: six requests are an abandoned query with its ping, a query after
  it that is abandoned as well, and one more; two packets let a reply be
  abandoned before, between and after its blocks.
* **Blocks**: seven allocations are three columns, two of them composed, and two
  copies, or fewer columns and more copies.
* **InsertChunks**: four rows in chunks of two make two whole chunks, three a
  chunk that is not full, none the empty chunk. The result comes in all splits
  into blocks of one and two rows, after a header without rows. The first width
  of a dictionary's index ends at 1, so the second row widens it. Rows are
  chosen to tell right from wrong: strings longer and shorter than a FixedString,
  times between seconds, negative decimals, bytes in an order of their own, nulls
  first and last, empty and equal rows, equal keys. Revisions are the last before
  and the first after each threshold that differs. Frames hold five tokens, so
  that every block is split over several.
* **ConcatColumn, StringPool**: four chunks allow empty ones first, last and
  between; strings of four bytes exceed a chunk of three.

`MaxRequests` (Transport), `MaxFaults` (Handle), `MaxRows`, `MaxData` (Blocks),
`max` of a case (InsertChunks), `MaxStrings` (StringPool) and `MaxChunks`
(ConcatColumn) are bounds of the models and not of the code. Where reaching one
leaves nothing to do, the configuration says `CHECK_DEADLOCK FALSE`: the runs of
Blocks, InsertChunks, StringPool and ConcatColumn (where a panic also ends the
behaviour). The other runs check for deadlock.

## 4 Fairness

* **Pool** (`ExecutorFairness`): a scheduled task is polled and a running one
  goes on, which is what an executor promises; a pending open resolves, at the
  latest by `connection_timeout`. The first is strong fairness because on one
  thread a scheduled task is disabled while others run, the last because a poll
  takes the open out of the queue for a moment. Nothing is assumed of the holders
  of handles: `WaiterProgress` allows a task to wait while all are out.
* **Transport**: the client's task is polled while it has something to do; the
  server answers what it gets. Dropping, closing and failing are not fair:
  they may happen, and nothing relies on them.
* **Handle**: the loop of a check goes on until it waits for the pool. Of the pool
  no more is assumed than `WaiterProgress` says of it, on one thread and without
  cancellation as in `pool_single`: it starts an open when there is room, ends one
  that somebody waits for, and hands an idle connection to one of those who wait,
  each as weak fairness of the pool and not of a task. A waiter may be overtaken
  for ever: `return_conn` only wakes (`pool/mod.rs:449`), and whoever polls first is
  served (245). Nor is a handle ever dropped for certain. `CheckEnds` therefore
  names exhaustion by others and overtaking among its exceptions. On several
  threads a wake-up may be lost (`pool_lost_wakeup`), with cancellation too
  (`MCPool_cancelled`): there a check may wait for ever as any `GetHandle` may.
* **RetryOpen**: an opener is polled until it is done: `connection_timeout` bounds
  what it waits for, and the resolution of a name is a blocking call that returns.
  `OpenResolves` is claimed of behaviours in which non-retriable I/O errors do not
  go on for ever.
* **ConcatColumn**: a loop that can take its next turn takes it.

## 5 What is proved

TLAPS checks the theorems of eight modules for all values of the constants that
satisfy the assumptions stated beside them: any number of tasks, connections,
requests, hosts, columns, rows, URLs of any length. The assumptions are types and
signs (`pool_max` is positive, `send_retries` is a `usize`); what the theorems about
`Transport` and `Blocks` assume beyond that is said below. The modules about state
machines state their strengthening, `IInv`, before the proofs; TLC checked it on the
instances of section 3 before it was proved. What a theorem says that no run lists
(progress, `Answerable`, URLs) TLC checked too, before the proof: `CallProgress`,
`Answerable`, `OpenProgress` and `Narrows` as further properties of the runs of
their modules, the theorems about URLs on ten thousand URLs of up to two pairs.

| theorem | says |
|---|---|
| **`PoolProofs`** | |
| `TypeCorrect` | `Spec => []TypeOK` |
| `PoolAccounting` | no slot is lost or freed twice, in any interleaving |
| `PoolWithinMax`, `PoolNoFallback` | `pool_max` holds; the branches that only log are never taken |
| `PoolImplementsAbs` | `Spec => ImplementsAbs`: every step of the lock-free pool is one of `PoolAbs` or none |
| `PoolNoStranded` | on one thread, a waiter that could be served is scheduled whenever no task runs |
| **`HandleProofs`** | |
| `HandleTypeOK`, `HandleAccounting` | a connection is in one place; both counters are exact, whatever breaks, times out or is dropped |
| `HandleDetachedIsEmpty` | a detached handle has no transport between calls |
| `HandleReconnectsEmptyHanded` | a handle that waits for a connection holds none |
| **`TransportProofs`** | |
| `TransportTypeOK` | `Spec => []TypeOK`, with and without the ping, whatever fails to encode |
| `TransportCleanWhenIdle` | an unmarked transport at rest has nothing left over |
| `TransportOwnReply` | no loop reads a packet of another call's reply |
| `TransportCancelsOnlyAbandoned` | a Cancel hits no query but an abandoned one |
| `TransportInconsistentMeansUnread` | a marked transport has something for `clear()` to read |
| `TransportCallProgress`, `CallsFounded` | every step during a call ends it or leaves less to do (`[][...]_vars`), in a well-founded order: no call takes infinitely many steps |
| `TransportAnswerable` | a call that waits on an open connection has something to read, or the server something to do: nobody waits for nothing |
| **`RetryOpenProofs`** | |
| `RetryOpenTypeOK` | attempts stay within `send_retries`, hosts are those of the pool |
| `RetryOpenFailover` | alternative hosts and all addresses are tried before an open fails |
| `RetryOpenProgress`, `OpensFounded` | every step of an open leaves it less to do, but for the one after an I/O error that `retry_open` does not count (`[][...]_vars`) |
| **`OptionsProofs`** | |
| `UrlRefused` | `from_url` refuses exactly the URLs with a wrong scheme, host, port or path, or with any pair of an option that does not parse |
| `UrlOptions` | every option is what the last pair of its name parses to, or its default; the other names are the settings |
| `UrlMeaning` | user, password and settings are what the URL spells; the database too, unless it is escaped, and compression, unless it is escaped twice (section 6) |
| `UrlTypes` | every option is of the type of its field |
| `UrlSources` | of a URL's options, what `SourcesAssumption` takes for granted is so |
| **`BlocksProofs`** | |
| `BlocksTypeOK` | columns point to data that exists, with elements as their type has them |
| `BlocksIsolated` | what is pushed into a block never shows in its clone |
| `BlocksElementsMatch` | a nested column has the elements of its rows |
| `BlocksRectangular`, `BlocksAcceptsRows` | even rows leave columns of one length, and are never refused (`[][...]_vars`) |
| **`ConcatColumnProofs`** | |
| `ColumnTypes`, `ConcatExact` | the subtraction in `at()` does not wrap; the search answers for exactly the rows that exist |
| `ConcatEndToEnd` | the row it answers with is the one that the chunks laid end to end have at that number |
| `SearchNarrows` | every turn of `find_chunk` ends the search or leaves fewer chunks (`[][...]_vars`) |
| **`StringPoolProofs`** | |
| `PoolTypes`, `UncheckedReadsSafe`, `AllocateBounded` | the `unsafe` reads of `get_by_pointer` stay in their own bytes; the recursion of `allocate` has depth two |

### The arguments

**Pool, accounting.** `Accounting` alone is not inductive. The decrements of the
code are guarded (a release at zero only logs), and a failed push frees its slot,
so to show that a step keeps the counts exact one must know that guards never
bite and pushes never fail – which follows from the exact counts and from
`conn_slots <= Max`. The invariant is `TypeOK /\ Accounting /\ conn_slots <= Max`.
Both counters are sums over sets of tasks by program counter; `CountMove` says
what moving one task does to such a count and is the only lemma about
cardinalities the actions need.

**Pool, refinement.** A connection changes hands at one access: at `idle.pop()`
(`TakeConn`), at the reservation, at the push to `idle`, at the release of the
slot; the error of an open is reported at `CheckErr`. `AbsPhase`, `AbsOpening`
and `AbsFailed` map the state accordingly, and all other accesses stutter. Besides
`IInv` the proof needs that a task remembers an error only in the poll that saw
it (`ErrOwned`), or a later poll could report it a second time.

**Pool, waiters.** `NoStranded` speaks of moments at rest, and nothing about rest
is inductive. `RoomServed` says it of every moment: if there is room, waiters are
scheduled or a task is on its way to `wake_tasks`. A task that parks must not
undo it, so what it saw on its way (`Looked`: nothing idle, no slot) must still
be so when it parks – which holds because no other task is inside a call
(`OneRuns`), and is exactly what `pool_lost_wakeup` shows to fail on several
threads. Nothing is assumed about cancellation.

**Handle.** A slot is freed once because of where a connection may be at each step
of its user. `Stages` says, for the label of a task, whether it has a transport,
whether in the handle or taken, and what its binding may be; `Places`, that
nobody else has it; `Inside`, that the flag of `TransportStatus` is false exactly
for the connections whose end must free a slot; `Counts` is then the accounting.
One clause was found by a step that could not be proved: an operation never runs
on a *detached* handle, or its end would give a connection back that the pool
has already counted out.

**Transport.** No single queue says whose packets come next: a command may be in
`cmds`, in `wr` or on the wire, a packet on the wire or in `rd`, and a read may
end inside one. So the invariant (`Conversation`) looks at both directions whole,
`Out` and `In`, and at how far the one request in progress has got: `Asked`,
`Running`, `Answered`, `CutOff` by the end of the connection, or `Unsent`. A
stream given back half-read is still in that conversation (`Doing`). Only a ping
or a `clear()` may have stale commands before or after its own (`Ordered`).
`Steps`, `Plan` and `Fresh` tie it to what the call does next: for instance, that
an operation after the ping begins on a connection empty in both directions.
Two assumptions carry weight here, and the code needs them as much as the proof:
`PingBeforeQuery` (without it `MCTransport_no_ping` reads another query's reply),
and, for `TransportInconsistentMeansUnread` and `TransportAnswerable` only, that
queries can be encoded. Both are in section 6.

**Transport, progress.** That calls end (`CallsEnd`) takes three things. A step of a
call, whoever takes it, lowers `Measure` (`TransportCallProgress`, which needs none of
the two assumptions): most significant first, whether the connection is open, the
requests still allowed, the stages of the call, the commands on their way to the
server (three for one that waits, two for one in the write buffer, one on the wire),
the packets the server has still to send, the parts to read (two on the wire, one in
the buffer), the polls. Of such steps there is no endless sequence (`CallsFounded`).
And a call that has not ended is never stuck: sending steps are its own, and when it
waits there is something for it or for the server to do (`TransportAnswerable`). What
remains for TLC is the last inference, that under fairness what can be done is done.

**RetryOpen.** That a lone opener tries as many hosts as it has attempts is not
inductive: the shared counter must never come round to a host already tried
while another is left. `Turns` says which hosts were tried: those of the round
from some first host up to the counter, past the end of the list if need be, and
at least as many as attempts begun. `RoundGrows` is the arithmetic: the next host
is new, or all have been tried. `SourcesAssumption` says of any options that
`send_retries` is a natural number and `alt_hosts` a finite list, as a `usize`
and a `Vec` are; of the options that a URL makes, `UrlSources` proves it.

**RetryOpen, progress.** An attempt goes through its stages in one direction and hears
of each address once; a failed attempt that is retried counts. The exception is
stated in the theorem and real: the arm of `retry_open` for non-retriable I/O errors
goes round its loop without counting (`MCRetryOpen_reset`, section 6). `OpenResolves`
excludes behaviours in which that goes on for ever.

**Options.** `set_params` is a loop with an early return over pairs of which every
one may write any field. `After(options, query, n, x)` says what it must give after n
pairs: the error of the first bad pair, or for each option the last pair of its name
among the n, and for each other name a setting. `TurnOption` and `TurnSetting` are
the two kinds of turn, and the theorems follow at n = the number of pairs. That a
recursive function has at each argument the value its equation gives, and that a
statement holds after every turn, both need induction over the natural numbers: the
modules derive it (`Smallest`, `Induction`) from the library's well-founded order on
them, by looking at the smallest number for which the statement fails.

**Blocks.** Two arguments, kept apart. The first is about pointers: data that a
push changes in place is referred to by one column only, and the elements that go
with it by that data only (`Unshared`, `PutInPlace`); where data is copied, the
elements it still shares are those whose `Arc::get_mut` panics (`PutCopied`). So
columns keep pointing to what was put into them (`Pointers`, `Held`). The second
is about names: while a row is put, the columns it has still to reach are one
row short (`LevelAt`), so a row with the same columns, in any order, finds each of
them once (`Distinct`) and leaves none behind. `NamesAssumption` is about the
caller: a row names no column twice. `put_param` does not check that; such a row
puts two cells into one column, as one that leaves out a column puts none.

**ConcatColumn.** The row looked for, if it exists, lies between the boundaries
`lo` and `hi` (`Bracketed`), and no boundary is past the last one (`Within`): a
row found in a chunk exists, and a row past the end of the column is past the end
of the first chunk too, so the `0` that ends `find_chunk` makes `at()` panic there
instead of reading another row. That the offsets agree with the chunks laid end to
end (`ConcatEndToEnd`) goes by induction over the chunks: `LaidOut(rows, i)` says it of
the first i of them, and `Flattened` what `FlattenSeq` computes.

**StringPool.** Strings of the last chunk end at or before `position`
(`BeforePosition`). That a chunk just reserved has room for the string it was
reserved for is a matter of the one step (`RoomAfterReserve`).

### Only model-checked

* **Liveness** (`WaiterProgress`, `CallsEnd`, `CheckEnds`, `OpenResolves`,
  `SearchEnds`): TLAPS has no support for fairness and ENABLED. For `CallsEnd`,
  `OpenResolves` and `SearchEnds` all but that is proved: each step makes progress,
  in a well-founded order. `CheckEnds` has no such measure, since reconnects that
  succeed are not counted (section 6): with one fault in its run, only pings of
  working connections that time out can repeat them for ever, and the property
  names that. `WaiterProgress` and what `CheckEnds` says of waiting depend on what
  other tasks do with their connections, and name that.
* **`InsertChunks` and the modules below it but `Options`**: types, values and columns
  are nested, so their operators are `RECURSIVE`, which takes the provers their
  arithmetic. Its seven invariants are also not true of every constant: `Cases` are
  the inputs for which they are claimed, those outside are in section 6.

All other properties that a passing run checks are theorems.

## 6 Where the code and its documents disagree

Two have a run of their own in `PROJECT.json`:

| run | what happens |
|---|---|
| `pool_lost_wakeup` | a handle returned between a task's last look at the pool and its parking wakes nobody: the task waits beside an idle connection |
| `insert_array` | arrays and maps of a block with more than `INSERT_BLOCK_SIZE` rows are stored wrong from the second chunk on |

Others are found by the same models under other constants. Each line names the
configuration, which checks one property and ends with a counterexample, or what
to change in it.

| configuration | property | what happens |
|---|---|---|
| `MCPool_cancelled` | `WaiterProgress` | the open that everybody waits for wakes only the task that polled it last, which has given up: on one thread too, tasks wait for ever (`pool/mod.rs:360`) |
| `MCPool_safety`, with this invariant | `SocketsWithinMax` | the slot is free before the socket is closed: pool_max + 1 sockets (`pool/mod.rs:445`) |
| `MCTransport_no_ping` | `OwnReply` | with `ping_before_query=false` a query after an abandoned stream reads the older query's reply (`types/query_result/mod.rs:101`) |
| `MCTransport_calls`, with "query" among `Unencodable` | `InconsistentMeansUnread` | a query that cannot be encoded leaves a transport marked `inconsistent` with nothing to read: the next `clear()` waits (`io/transport.rs:271`) |
| `MCTransport_calls`, with this invariant | `NoUnwrapPanic` | a connection closed during execute or insert panics (`lib.rs:491`, `io/transport.rs:346`) |
| `MCHandle_slow_ping` | `CheckAlwaysEnds` | reconnects that succeed are not counted as attempts: a check may go on for ever (`retry_guard.rs:50`) |
| `MCHandle_unreachable` | `NoUnreachable` | after a failed check, or an exception in a stream, the next query on the handle panics (`pool/mod.rs:138`) |
| `MCHandle_unreachable`, with `Direct = TRUE` | `NoUnreachable` | handles of `Client::connect` panic at their first query |
| `MCHandle_unreachable`, with this invariant | `NoPoison` | after an I/O error in a stream the broken transport goes back to the pool (`types/query_result/stream_blocks.rs:102`) |
| `MCRetryOpen_reset` | `ResetResolves` | an I/O error that is "non-retriable" is retried for ever, without a pause (`pool/mod.rs:328`) |
| `MCRetryOpen_refused` | `RefusedRetried` | a refused connection is not retried, and alternative hosts are not tried (`pool/mod.rs:300`) |
| `MCBlocks_ragged` | `AlwaysRectangular` | a row that names some of the columns is accepted and leaves a block that cannot be written correctly (`types/block/builder.rs:113`) |
| `MCBlocks_shared` | `NeverShared` | a push of a new value into a block whose clone lives panics for composed columns (`types/column/low_cardinality.rs:322`) |
| `MCInsertChunks_rows` | `StoredAsPushed` | row by row, `Option<Decimal>` values after a None are stored with another scale (`types/column/decimal.rs:153`), and `[u8; 4]` as an address with its bytes reversed (`types/value.rs:450`) |
| `MCInsertChunks_refused` | `Accepted` | a fetched DateTime64 column cannot be inserted (`types/column/datetime64.rs:59`); dictionaries of DateTime64 and of strings from numbers panic (`types/column/mod.rs:249`); names of maps with enum keys and of aggregate functions over types with arguments are cut in the wrong place (`types/column/factory.rs:280`, `:294`); enum names with quotes are written without their backslash (`types/mod.rs:432`) |
| `MCInsertChunks_iter` | `IterRight` | maps below two arrays and keys of FixedString are read as cells of another type (`types/column/map.rs:122`, `types/column/iter/mod.rs:1282`); times below a Nullable panic in next() of a fetched block (`types/column/iter/mod.rs:1374`) |

The last three stop at one of several cases; leaving that case out of `Rows_`,
`Refusals` or `Iterators` in `MCInsertChunks` shows the next.

Four more follow from how a URL becomes options. They contradict no document,
but a reader would not expect them:

* The user and the password of a URL are decoded, its database is not
  (`types/options.rs:628`, `:641`): a database `my%20db` is asked for by that name.
  `Urls` in `MCInsertChunks` has escapes in the first two only.
* The value of an option is decoded twice, that of a setting once
  (`types/options.rs:618`, `:595`): `send_retries=%2532` is 2, and a setting
  `load_balancing=%2572andom` goes to the server as `%72andom`.
* A setting in a URL is a string, also when it is a number, and a server before
  revision 54429 reads a setting by its own type: it takes the text for a number
  and loses its place in the query. `NumbersByUrl` at revision 54400 is one of the
  `Refusals`.
* `alt_hosts` without a port do not get the port 9000 that the host of the URL
  gets (`types/options.rs:549`, `:694`): such a host cannot be resolved, and the
  attempt that draws it fails the open at once, whatever `send_retries` is.

## 7 What is not modelled

* **Bytes**: the bytes of a varint, of a length and of a number (`binary/uvarint.rs`,
  `types/marshal.rs`, `types/unmarshal.rs`), and invalid UTF-8. A read that ends
  inside a field is one that ends before it. LZ4 and CityHash are external.
* **Columns**: a LowCardinality inside an Array or a Nullable, a Nullable inside a
  LowCardinality, reading `Vec` of FixedString or LowCardinality, time zones kept for
  display, pre-1970 times with fractions (which panic in `to_datetime`), floats other
  than as numbers. Synonyms of type names, and blanks in them.
* **Blocks of several columns** are in `Blocks` (sharing, lengths) and `Wire`
  (loading, profile events), not in `InsertChunks`. Iteration over the rows of a
  block calls `at()` and has no logic of its own.
* **Iterators of NaiveDateTime** are those of `DateTime<Tz>` without the zone.
* **Totals and extremes** arrive as blocks like any other, also in the code.
* **Options**: `Options` takes a URL as the crate `url` has split it. Certificates
  are options that only the TLS connector looks at. `Pool` and `Handle` treat the
  options as constants; the error of `options.get()` is the immediate failure of
  a fresh open in `Pool` and an action of `RetryOpen`. `pool_max=0` in a URL,
  which the parser takes, makes `ArrayQueue::new(0)` panic when the pool is built;
  the models assume a positive maximum.
* **Query text, errors' wording, marshalling, Debug output**: no state.
* **Sockets, the inside of TLS, the async-std variant of sleep and timeouts**:
  external; a TLS handshake succeeds or fails. A timeout may strike at any moment in the models; its length plays no part.
* **Reference counts of the pool** (`Arc<Inner>`): a cycle through an idle
  handle may keep a pool alive. No property is about it.
* **Derive macro (a crate of its own), examples, benches**: not part of the client's logic.

## 8 The plan

Done: the pool with its abstraction; options, opening, handles, transport;
blocks, concatenation and the string pool; types, values, columns, iterators,
packets and frames, from the rows of a program to the server and back. All safety
properties of the components without recursive operators are proved, the pool's
refinement among them, and so is what a URL makes of the options and that calls,
opens and searches take finitely many steps.

Next:

1. `System` – `Handle` over the steps of `Pool`, for two tasks, in place of the
   pool's calls as atomic steps – and a proof that its handles implement `Handle`,
   by which the accounting of `Handle` holds over the lock-free pool.
2. What a connection keeps across handles: `Transport` as the refinement of the
   connections of `Handle`.
3. Blocks of several columns in `InsertChunks`.
4. Types as numbered nodes instead of nested values, so that `LeafColumns` and
   `Columns` need recursive functions only and their round trips can be proved.
