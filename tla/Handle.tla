------------------------------- MODULE Handle -------------------------------
(***************************************************************************)
(* Handles, their binding to the pool and the reconnection:                *)
(* ClientHandle in src/lib.rs, PoolBinding in src/pool/mod.rs,             *)
(* src/retry_guard.rs, the Drop of TransportStatus in src/io/transport.rs  *)
(* and BlockStream in src/types/query_result/stream_blocks.rs.             *)
(*                                                                         *)
(* A connection's slot in the pool is given back by whichever of two       *)
(* destructors the connection ends in: that of its handle, or that of the  *)
(* transport when an operation has taken it out of the handle.  The flag   *)
(* `inside` of the transport and the binding of the handle, passed around  *)
(* by take(), mem::swap and the destructors, decide which; here            *)
(* connections have an identity, so that each can be followed.             *)
(*                                                                         *)
(* Calls to the pool are atomic (Pool.tla has their steps), operations are *)
(* reduced to how they end (Transport.tla has their packets).              *)
(*                                                                         *)
(* An operator X_word is X with a mistake in it; it is used only to see    *)
(* that a property notices.                                                *)
(***************************************************************************)
EXTENDS Naturals, Sequences, FiniteSets, Functions

CONSTANTS Tasks,            \* each has at most one handle
          Conns, None,      \* connections
          Min, Max,         \* pool_min, pool_max
          SendRetries,      \* send_retries
          PingBeforeQuery,  \* values of ping_before_query to look at
          PingMayTimeOut,   \* a ping may fail although the connection works
          Direct,           \* Client::connect is used too
          Cancellation,     \* a future that waits for the pool may be dropped
          MaxFaults         \* bound: connections broken, and opens that fail

ASSUME SetsAssumption   == None \notin Conns /\ IsFiniteSet(Conns)
ASSUME LimitsAssumption == /\ Min \in Nat /\ Max \in Nat \ {0}
                           /\ SendRetries \in Nat /\ MaxFaults \in Nat
ASSUME SwitchAssumption == /\ PingBeforeQuery \subseteq BOOLEAN
                           /\ {PingMayTimeOut, Direct, Cancellation} \subseteq BOOLEAN

VARIABLES
  idle,      \* Inner.idle, oldest first
  opening,   \* opens in progress, in Inner.new
  n,         \* Inner.conn_slots and Inner.ongoing
  conn,      \* connections: TransportStatus.inside, broken, the client knows
  h,         \* ClientHandle of each task: inner, pool
  taken,     \* the transport that the running operation has taken
  pc,        \* what each task does
  retry,     \* locals of check_connection and retry_guard
  faults     \* connections broken and opens failed so far

vars == <<idle, opening, n, conn, h, taken, pc, retry, faults>>

-----------------------------------------------------------------------------
Calls    == {"check", "ping", "execute", "query"}
GuardPCs == {"guard", "pinging", "reconnecting", "sleeping"}
PCs      == {"out", "getting", "have", "begin", "running", "stream",
             "stream_finished", "stream_error", "panicked"} \cup GuardPCs

NewConn  == [inside |-> TRUE, broken |-> FALSE, failed |-> FALSE]
NoHandle == [inner |-> None, pool |-> "none"]
NoRetry  == [attempt |-> 0, skip_check |-> FALSE, call |-> "check"]

Goto(p, label) == pc' = [pc EXCEPT ![p] = label]

Hands == ({h[p].inner : p \in Tasks} \cup {taken[p] : p \in Tasks}) \ {None}
Alive == Range(idle) \cup Hands

Init ==
  /\ idle = <<>> /\ opening = 0
  /\ n = [slots |-> 0, ongoing |-> 0]
  /\ conn = [c \in Conns |-> NewConn]
  /\ h = [p \in Tasks |-> NoHandle]
  /\ taken = [p \in Tasks |-> None]
  /\ pc = [p \in Tasks |-> "out"]
  /\ retry = [p \in Tasks |-> NoRetry]
  /\ faults = 0

(* A connection and its data cease to be. *)
Forget(c) == conn' = [conn EXCEPT ![c] = NewConn]

(* Drop for TransportStatus: release_conn, unless the pool has the         *)
(* connection, or never had it.                                            *)
Releases_always(c) == n.ongoing > 0
Releases(c)        == ~conn[c].inside /\ n.ongoing > 0

DropTransport(c) ==
  /\ n' = IF Releases(c) THEN [slots |-> n.slots - 1, ongoing |-> n.ongoing - 1] ELSE n
  /\ Forget(c)

-----------------------------------------------------------------------------
(* The pool, as handles see it. *)

Waiting == {p \in Tasks : pc[p] \in {"getting", "reconnecting"}}

GetHandle(p) ==
  /\ pc[p] = "out"
  /\ Goto(p, "getting")
  /\ UNCHANGED <<idle, opening, n, conn, h, taken, retry, faults>>

(* The GetHandle is dropped where it waits; the opens it began stay in     *)
(* Inner.new.                                                              *)
AbandonGet(p) ==
  /\ Cancellation /\ pc[p] = "getting"
  /\ Goto(p, "out")
  /\ UNCHANGED <<idle, opening, n, conn, h, taken, retry, faults>>

StartOpen ==
  /\ Waiting # {} /\ idle = <<>> /\ n.slots < Max
  /\ opening' = opening + 1
  /\ n' = [n EXCEPT !.slots = @ + 1]
  /\ UNCHANGED <<idle, conn, h, taken, pc, retry, faults>>

OpenOk ==
  /\ Waiting # {} /\ opening > 0
  /\ \E c \in Conns \ Alive : idle' = Append(idle, c)
  /\ opening' = opening - 1
  /\ UNCHANGED <<n, conn, h, taken, pc, retry, faults>>

(* take_conn, for a new handle or for the one that replaces a broken one:  *)
(* reconnect() swaps them and drops the old, which has no transport left   *)
(* (ReconnectsEmptyHanded).                                                *)
TakeConn(p) ==
  /\ p \in Waiting /\ idle # <<>>
  /\ idle' = Tail(idle)
  /\ conn' = [conn EXCEPT ![Head(idle)].inside = FALSE]
  /\ n' = [n EXCEPT !.ongoing = @ + 1]
  /\ h' = [h EXCEPT ![p] = [inner |-> Head(idle), pool |-> "attached"]]
  /\ Goto(p, IF pc[p] = "getting" THEN "have" ELSE "guard")
  /\ UNCHANGED <<opening, taken, retry, faults>>

(* get_handle() gets the error of an open instead. *)
CanGiveUp_late(p) == retry[p].attempt > SendRetries
CanGiveUp(p)      == retry[p].attempt >= SendRetries

OpenFails(p) ==
  /\ faults < MaxFaults
  /\ p \in Waiting /\ opening > 0 /\ idle = <<>>
  /\ faults' = faults + 1
  /\ opening' = opening - 1
  /\ n' = [n EXCEPT !.slots = @ - 1]
  /\ IF pc[p] = "getting"
     THEN Goto(p, "out") /\ UNCHANGED retry
     ELSE IF CanGiveUp(p)
     THEN /\ Goto(p, "have")
          /\ retry' = [retry EXCEPT ![p] = NoRetry]
     ELSE /\ Goto(p, "sleeping")
          /\ retry' = [retry EXCEPT ![p].skip_check = TRUE]
  /\ UNCHANGED <<idle, conn, h, taken>>

(* Drop for ClientHandle: return_conn, unless it has no transport or no    *)
(* pool.                                                                   *)
KeepsInside_forgotten(c) == FALSE
KeepsInside(c)           == TRUE

ReturnConn(c, pool) ==
  IF n.ongoing = 0
  THEN Forget(c) /\ UNCHANGED <<idle, n>>
  ELSE IF Len(idle) < Min /\ Len(idle) < Max /\ pool = "attached"
  THEN /\ idle' = Append(idle, c)
       /\ conn' = [conn EXCEPT ![c].inside = KeepsInside(c)]
       /\ n' = [n EXCEPT !.ongoing = @ - 1]
  ELSE /\ Forget(c)
       /\ n' = [slots |-> n.slots - 1, ongoing |-> n.ongoing - 1]
       /\ UNCHANGED idle

DropHandle(p) ==
  /\ pc[p] \in {"have", "panicked"}
  /\ CASE h[p].inner = None   -> UNCHANGED <<idle, n, conn>>
       [] h[p].inner # None /\ h[p].pool = "none"
                              -> DropTransport(h[p].inner) /\ UNCHANGED idle
       [] OTHER               -> ReturnConn(h[p].inner, h[p].pool)
  /\ h' = [h EXCEPT ![p] = NoHandle]
  /\ Goto(p, "out")
  /\ UNCHANGED <<opening, taken, retry, faults>>

(* Client::connect: a handle of no pool. *)
ConnectDirect(p) ==
  /\ Direct /\ pc[p] = "out"
  /\ \E c \in Conns \ Alive : h' = [h EXCEPT ![p] = [inner |-> c, pool |-> "none"]]
  /\ Goto(p, "have")
  /\ UNCHANGED <<idle, opening, n, conn, taken, retry, faults>>

(* The server, or the network, breaks a connection. *)
Break(c) ==
  /\ faults < MaxFaults
  /\ c \in Alive /\ ~conn[c].broken
  /\ conn' = [conn EXCEPT ![c].broken = TRUE]
  /\ faults' = faults + 1
  /\ UNCHANGED <<idle, opening, n, h, taken, pc, retry>>

-----------------------------------------------------------------------------
(* Calls. *)

(* Takes the transport out of the handle, for an operation that runs at    *)
(* `label`. *)
Take(p, label) ==
  /\ taken' = [taken EXCEPT ![p] = h[p].inner]
  /\ h' = [h EXCEPT ![p].inner = None]
  /\ Goto(p, label)

(* wrap_future and wrap_stream check the connection before the operation.  *)
Checked(call, ping) == call = "check" \/ (ping /\ call # "ping")

(* detach() of a binding that is not attached is a panic, and leaves None. *)
Panic(p) ==
  /\ h' = [h EXCEPT ![p].pool = "none"]
  /\ Goto(p, "panicked")
  /\ UNCHANGED <<taken, retry>>

Call(p, call, ping) ==
  /\ pc[p] = "have"
  /\ IF Checked(call, ping)
     THEN IF h[p].pool = "attached"
          THEN /\ h' = [h EXCEPT ![p].pool = "detached"]
               /\ retry' = [retry EXCEPT ![p] = [NoRetry EXCEPT !.call = call]]
               /\ Goto(p, "guard")
               /\ UNCHANGED taken
          ELSE Panic(p)
     ELSE /\ retry' = [retry EXCEPT ![p] = [NoRetry EXCEPT !.call = call]]
          /\ Goto(p, "begin")
          /\ UNCHANGED <<h, taken>>
  /\ UNCHANGED <<idle, opening, n, conn, faults>>

(* The operation itself: get_inner fails on a handle without a transport.  *)
(* A query detaches the handle first.                                      *)
Begin(p) ==
  /\ pc[p] = "begin"
  /\ IF retry[p].call # "query"
     THEN /\ IF h[p].inner = None
             THEN Goto(p, "have") /\ UNCHANGED <<h, taken>>
             ELSE Take(p, "running")
          /\ retry' = [retry EXCEPT ![p] = NoRetry]
     ELSE IF h[p].pool # "attached"
     THEN Panic(p)
     ELSE /\ IF h[p].inner = None
             THEN /\ h' = [h EXCEPT ![p].pool = "detached"]
                  /\ Goto(p, "have")
                  /\ UNCHANGED taken
             ELSE /\ taken' = [taken EXCEPT ![p] = h[p].inner]
                  /\ h' = [h EXCEPT ![p] = [inner |-> None, pool |-> "detached"]]
                  /\ Goto(p, "stream")
          /\ retry' = [retry EXCEPT ![p] = NoRetry]
  /\ UNCHANGED <<idle, opening, n, conn, faults>>

(* ping, execute, insert: the transport comes back, or is dropped with the *)
(* future: an error, a timeout, or the future itself dropped.              *)
RunOk(p) ==
  /\ pc[p] = "running" /\ ~conn[taken[p]].broken
  /\ h' = [h EXCEPT ![p].inner = taken[p]]
  /\ taken' = [taken EXCEPT ![p] = None]
  /\ Goto(p, "have")
  /\ UNCHANGED <<idle, opening, n, conn, retry, faults>>

RunFails(p) ==
  /\ pc[p] = "running"
  /\ DropTransport(taken[p])
  /\ taken' = [taken EXCEPT ![p] = None]
  /\ Goto(p, "have")
  /\ UNCHANGED <<idle, opening, h, retry, faults>>

-----------------------------------------------------------------------------
(* BlockStream. *)

(* Attached again, if it is not: attach() panics on a handle of no pool,   *)
(* but such a handle never gets this far.                                  *)
Reattach_forgotten(pool) == pool
Reattach(pool)           == "attached"

GiveBack(p) ==
  /\ h' = [h EXCEPT ![p] = [inner |-> taken[p], pool |-> Reattach(@.pool)]]
  /\ taken' = [taken EXCEPT ![p] = None]
  /\ Goto(p, "have")
  /\ UNCHANGED <<idle, opening, n, retry, faults>>

StreamEof(p) ==
  /\ pc[p] = "stream" /\ ~conn[taken[p]].broken
  /\ GiveBack(p)
  /\ UNCHANGED conn

(* The server answers with an exception: Finished, the transport is still  *)
(* the stream's.  The connection ends: Error.                              *)
StreamEnds(p) ==
  /\ pc[p] = "stream"
  /\ Goto(p, IF conn[taken[p]].broken THEN "stream_error" ELSE "stream_finished")
  /\ UNCHANGED <<idle, opening, n, conn, h, taken, retry, faults>>

(* An I/O error is reported, and the stream stays in Reading. *)
StreamIoError(p) ==
  /\ pc[p] = "stream" /\ conn[taken[p]].broken
  /\ conn' = [conn EXCEPT ![taken[p]].failed = TRUE]
  /\ UNCHANGED <<idle, opening, n, h, taken, pc, retry, faults>>

DropReading(p) ==
  /\ pc[p] = "stream"
  /\ GiveBack(p)
  /\ UNCHANGED conn

DropEnded(p) ==
  /\ pc[p] \in {"stream_finished", "stream_error"}
  /\ DropTransport(taken[p])
  /\ taken' = [taken EXCEPT ![p] = None]
  /\ Goto(p, "have")
  /\ UNCHANGED <<idle, opening, h, retry, faults>>

-----------------------------------------------------------------------------
(* check_connection and retry_guard. *)

CheckFailed(p) ==
  IF CanGiveUp(p)
  THEN Goto(p, "have") /\ retry' = [retry EXCEPT ![p] = NoRetry]
  ELSE Goto(p, "reconnecting") /\ UNCHANGED retry

(* The head of the loop: check, or not after a reconnect that failed.      *)
Guard(p) ==
  /\ pc[p] = "guard"
  /\ CASE retry[p].skip_check ->
            /\ retry' = [retry EXCEPT ![p].skip_check = FALSE]
            /\ Goto(p, "reconnecting")
            /\ UNCHANGED <<h, taken>>
       [] ~retry[p].skip_check /\ h[p].inner = None ->
            CheckFailed(p) /\ UNCHANGED <<h, taken>>
       [] OTHER -> Take(p, "pinging") /\ UNCHANGED retry
  /\ UNCHANGED <<idle, opening, n, conn, faults>>

PingOk(p) ==
  /\ pc[p] = "pinging" /\ ~conn[taken[p]].broken
  /\ h' = [h EXCEPT ![p] = [inner |-> taken[p], pool |-> "attached"]]
  /\ taken' = [taken EXCEPT ![p] = None]
  /\ IF retry[p].call = "check"
     THEN Goto(p, "have") /\ retry' = [retry EXCEPT ![p] = NoRetry]
     ELSE Goto(p, "begin") /\ UNCHANGED retry
  /\ UNCHANGED <<idle, opening, n, conn, faults>>

(* The transport is gone, and its slot is free, before the reconnect asks  *)
(* the pool for another.                                                   *)
PingDrops_later(p) == UNCHANGED <<n, conn, taken>>
PingDrops(p)       == DropTransport(taken[p]) /\ taken' = [taken EXCEPT ![p] = None]

PingFails(p) ==
  /\ pc[p] = "pinging" /\ (conn[taken[p]].broken \/ PingMayTimeOut)
  /\ PingDrops(p)
  /\ CheckFailed(p)
  /\ UNCHANGED <<idle, opening, h, faults>>

WakeUp(p) ==
  /\ pc[p] = "sleeping"
  /\ retry' = [retry EXCEPT ![p].attempt = @ + 1]
  /\ Goto(p, "guard")
  /\ UNCHANGED <<idle, opening, n, conn, h, taken, faults>>

(* The future of the check is dropped, where it waits. *)
AbandonCheck(p) ==
  /\ pc[p] \in GuardPCs \ {"guard"}
  /\ pc[p] = "reconnecting" => Cancellation
  /\ IF taken[p] = None
     THEN UNCHANGED <<n, conn, taken>>
     ELSE DropTransport(taken[p]) /\ taken' = [taken EXCEPT ![p] = None]
  /\ Goto(p, "have")
  /\ retry' = [retry EXCEPT ![p] = NoRetry]
  /\ UNCHANGED <<idle, opening, h, faults>>

-----------------------------------------------------------------------------
StreamStep(p) == StreamEof(p) \/ StreamEnds(p) \/ DropReading(p) \/ DropEnded(p)
RunStep(p)    == RunOk(p) \/ RunFails(p) \/ StreamStep(p)
GuardStep(p)  == Guard(p) \/ PingOk(p) \/ PingFails(p) \/ WakeUp(p)

Next == \/ StartOpen \/ OpenOk
        \/ \E c \in Conns : Break(c)
        \/ \E p \in Tasks :
             \/ GetHandle(p) \/ AbandonGet(p) \/ TakeConn(p) \/ OpenFails(p)
             \/ ConnectDirect(p) \/ DropHandle(p)
             \/ \E call \in Calls, ping \in PingBeforeQuery : Call(p, call, ping)
             \/ Begin(p) \/ RunStep(p) \/ StreamIoError(p)
             \/ GuardStep(p) \/ AbandonCheck(p)

Spec == Init /\ [][Next]_vars

(* A task that checks its connection runs on, until it waits for the pool. *)
(* Of the pool no more than WaiterProgress of Pool.tla is assumed, which   *)
(* holds on one thread without cancellation: that it starts what it has    *)
(* room for, ends what it started while somebody waits, and hands an idle  *)
(* connection to one of those who wait.  A return only wakes them          *)
(* (mod.rs:449) and the first to poll is served (245), so nothing is       *)
(* assumed of any one of them; nor that a handle is ever dropped.          *)
Fairness == /\ WF_vars(StartOpen)
            /\ WF_vars(OpenOk \/ \E p \in Tasks : OpenFails(p))
            /\ WF_vars(\E p \in Tasks : TakeConn(p))
            /\ \A p \in Tasks : WF_vars(GuardStep(p))
FairSpec == Spec /\ Fairness

-----------------------------------------------------------------------------
(* PROPERTIES *)

(* Type correctness of the pool, the connections and the handles; attempts *)
(* are bounded by send_retries.                                            *)
TypeOK ==
  /\ idle \in Seq(Conns) /\ opening \in Nat
  /\ n \in [slots : Nat, ongoing : Nat]
  /\ conn \in [Conns -> [inside : BOOLEAN, broken : BOOLEAN, failed : BOOLEAN]]
  /\ h \in [Tasks -> [inner : Conns \cup {None}, pool : {"none", "attached", "detached"}]]
  /\ taken \in [Tasks -> Conns \cup {None}]
  /\ pc \in [Tasks -> PCs]
  /\ retry \in [Tasks -> [attempt : 0..SendRetries, skip_check : BOOLEAN, call : Calls]]
  /\ faults \in 0..MaxFaults

(* A connection is in one place: in the pool once, or in one handle, or    *)
(* with one operation.                                                     *)
OnePlace ==
  /\ \A i, j \in 1..Len(idle) : i # j => idle[i] # idle[j]
  /\ Range(idle) \cap Hands = {}
  /\ \A p \in Tasks :
       /\ h[p].inner # None => h[p].inner # taken[p]
       /\ \A q \in Tasks \ {p} :
            {h[p].inner, taken[p]} \cap {h[q].inner, taken[q]} \subseteq {None}

(* `inside` is right: set in the pool, cleared in the hands of a pool's    *)
(* user, so that each connection frees its slot exactly once, wherever it  *)
(* ends; and the counters say what is in use.                              *)
InUse == {c \in Hands : ~conn[c].inside}

Accounting ==
  /\ OnePlace
  /\ \A c \in Range(idle) : conn[c].inside
  /\ n.ongoing = Cardinality(InUse)
  /\ n.slots = opening + Len(idle) + Cardinality(InUse)
  /\ n.slots <= Max

(* A detached handle has no transport between calls, whatever was dropped  *)
(* or failed before: a handle with a working transport goes back to the    *)
(* pool when it is dropped.                                                *)
DetachedIsEmpty == \A p \in Tasks :
  pc[p] = "have" /\ h[p].pool = "detached" => h[p].inner = None

(* A handle that reconnects waits for no slot that it holds itself.        *)
ReconnectsEmptyHanded == \A p \in Tasks :
  pc[p] = "reconnecting" => h[p].inner = None /\ taken[p] = None

(* check_connection comes to an end, be it an error, in spite of           *)
(* connections that break and opens that fail.  It may go on for ever only *)
(* if, again and again, the others hold every connection that the pool may *)
(* have (one that p keeps to itself is no excuse), or take the connection  *)
(* that p waits for, or the ping of a working connection times out.        *)
OthersHoldAll(p) ==
  Cardinality({c \in InUse : \E q \in Tasks \ {p} : c \in {h[q].inner, taken[q]}}) = Max
PingTimesOut(p)  == PingFails(p) /\ ~conn[taken[p]].broken

CheckEnds == \A p \in Tasks :
  \/ []<>(pc[p] \notin GuardPCs)
  \/ []<>OthersHoldAll(p)
  \/ []<><<\E q \in Tasks \ {p} : TakeConn(q)>>_vars
  \/ []<><<PingTimesOut(p)>>_vars

(* The last excuse is needed: a task by itself may check for ever.         *)
CheckAlwaysEnds == \A p \in Tasks : pc[p] \in GuardPCs ~> pc[p] \notin GuardPCs

(* "drop broken transport; don't return it to pool to prevent pool         *)
(* poisoning" (stream_blocks.rs:53).                                       *)
NoPoison == \A c \in Range(idle) : ~conn[c].failed

(* unreachable!() of PoolBinding::detach (pool/mod.rs:138).                *)
NoUnreachable == \A p \in Tasks : pc[p] # "panicked"

=============================================================================
