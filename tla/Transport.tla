----------------------------- MODULE Transport -----------------------------
(***************************************************************************)
(* One connection and the operations run over it, one after another:       *)
(* src/io/transport.rs, src/io/read_to_end.rs, the operations of           *)
(* ClientHandle in src/lib.rs and BlockStream in                           *)
(* src/types/query_result/stream_blocks.rs.                                *)
(*                                                                         *)
(* The ClickHouse protocol has no request ids: the only thing that ties a  *)
(* reply to a request is that nothing of an earlier reply is left on the   *)
(* connection.  An operation that is abandoned half way drops the          *)
(* connection, except a block stream: it gives the transport back marked   *)
(* `inconsistent`, and the next user must cancel the query and read what   *)
(* is left.  Here requests do have ids, which no action of the client      *)
(* looks at: they say whose reply a packet really is.                      *)
(*                                                                         *)
(* Packets travel in two parts, so that a read may end inside one; what a  *)
(* packet carries, and how it is encoded, is left out.  The network is two *)
(* FIFO queues; the server is external, modelled from the packets the      *)
(* client expects of it.  A connection that is lost is replaced by a new   *)
(* one, which begins with the hello (who reconnects, and when, is in       *)
(* Handle.tla).                                                            *)
(*                                                                         *)
(* An operator X_word is X with a mistake in it; it is used only to see    *)
(* that a property notices.                                                *)
(***************************************************************************)
EXTENDS Naturals, Sequences, Functions

CONSTANTS MaxRequests,      \* bound: requests sent over one connection
          MaxReplies,       \* bound: packets of a reply before its last
          PingBeforeQuery,  \* options.ping_before_query
          Unencodable,      \* calls whose query cannot be sent (cmd.rs, parameters)
          ServerMayClose    \* the server may close the connection

ASSUME BoundsAssumption == MaxRequests \in Nat /\ MaxReplies \in Nat
ASSUME SwitchAssumption == /\ PingBeforeQuery \in BOOLEAN
                           /\ ServerMayClose \in BOOLEAN
ASSUME EncodeAssumption == Unencodable \subseteq {"execute", "insert", "query"}

VARIABLES
  t,        \* the ClickhouseTransport
  present,  \* whether the handle, or the operation it runs, has a transport
  op,       \* the loop that reads packets now, "idle", or "panicked"
  plan,     \* what the current call still has to do after `op`
  ps,       \* PacketStreamState: "ask" or "receive"
  rid,      \* id of the request `op` waits for; a hello is 0
  sent,     \* ids used on this connection
  c2s, s2c, \* the network
  srv,      \* what the server is doing
  closed    \* the server has closed the connection

client == <<t, present, op, plan, ps, rid, sent>>
net    == <<c2s, s2c, srv, closed>>
vars   == <<client, net>>

-----------------------------------------------------------------------------
Calls    == {"ping", "execute", "insert", "query"}
Readers  == {"hello", "clear", "ping", "execute", "header", "tail", "blocks"}
CmdKinds == {"hello", "addendum", "query", "insert", "data", "ping", "cancel"}
PktKinds == {"hello", "block", "progress", "columns", "exception", "eos", "pong"}
Cmd      == [k : CmdKinds, id : 0..MaxRequests]
Part     == [k : PktKinds, id : 0..MaxRequests, part : {1, 2}]

(* cmds: commands not encoded yet; wr: bytes not written yet; rd: bytes    *)
(* read and not parsed.                                                    *)
NewTransport == [cmds |-> <<>>, wr |-> <<>>, rd |-> <<>>,
                 buf_is_incomplete |-> FALSE, inconsistent |-> FALSE]
NewServer    == [st |-> "idle", id |-> 0, left |-> 0]

Init ==
  /\ t = NewTransport
  /\ present = FALSE
  /\ op = "idle" /\ plan = <<>> /\ ps = "ask"
  /\ rid = 0 /\ sent = 0
  /\ c2s = <<>> /\ s2c = <<>>
  /\ srv = NewServer
  /\ closed = FALSE

(* The transport is dropped, and with it the connection. *)
Lose(next_op) ==
  /\ t' = NewTransport
  /\ present' = FALSE
  /\ op' = next_op /\ plan' = <<>> /\ ps' = "ask"
  /\ rid' = 0 /\ sent' = 0
  /\ c2s' = <<>> /\ s2c' = <<>>
  /\ srv' = NewServer
  /\ closed' = FALSE

(* A connection is opened: hello() takes the new transport and calls it.   *)
(* After a panic it is the connection of another task.                     *)
Connect ==
  /\ ~present /\ op \in {"idle", "panicked"}
  /\ present' = TRUE
  /\ t' = [t EXCEPT !.cmds = <<[k |-> "hello", id |-> 0]>>]
  /\ op' = "hello" /\ ps' = "ask"
  /\ UNCHANGED <<plan, rid, sent, net>>

(* A handle that is done with is dropped, not to be used again. *)
CloseHandle ==
  /\ present /\ op = "idle" /\ plan = <<>>
  /\ Lose("idle")

-----------------------------------------------------------------------------
(* The calls of ClientHandle. *)

(* wrap_future and wrap_stream ping first when the options ask for it. *)
PlanOf(c) == IF PingBeforeQuery /\ c # "ping" THEN <<"ping", c>> ELSE <<c>>

Call(c) ==
  /\ present /\ op = "idle" /\ plan = <<>>
  /\ sent + Len(PlanOf(c)) <= MaxRequests
  /\ plan' = PlanOf(c)
  /\ UNCHANGED <<t, present, op, ps, rid, sent, net>>

(* The calls that begin with clear(). *)
Clearing_hasty == {"execute", "insert"}
Clearing       == {"ping", "execute", "insert"}

(* get_inner()?.clear(): an inconsistent transport is first cancelled. *)
BeginClear_nowait ==
  /\ op = "idle" /\ plan # <<>>
  /\ Head(plan) \in Clearing /\ t.inconsistent
  /\ t' = [t EXCEPT !.cmds = Append(@, [k |-> "cancel", id |-> 0]), !.inconsistent = FALSE]
  /\ UNCHANGED <<present, op, plan, ps, rid, sent, net>>
BeginClear ==
  /\ op = "idle" /\ plan # <<>>
  /\ Head(plan) \in Clearing /\ t.inconsistent
  /\ t' = [t EXCEPT !.cmds = Append(@, [k |-> "cancel", id |-> 0])]
  /\ op' = "clear" /\ ps' = "ask"
  /\ UNCHANGED <<present, plan, rid, sent, net>>

(* transport.call(cmd), for the four calls. *)
FirstReader == [ping |-> "ping", execute |-> "execute",
                insert |-> "header", query |-> "blocks"]
FirstCmd    == [ping |-> "ping", execute |-> "query",
                insert |-> "insert", query |-> "query"]

BeginCall ==
  /\ op = "idle" /\ plan # <<>>
  /\ ~(Head(plan) \in Clearing /\ t.inconsistent)
  /\ sent' = sent + 1 /\ rid' = sent + 1
  /\ t' = [t EXCEPT !.cmds = Append(@, [k |-> FirstCmd[Head(plan)], id |-> sent + 1])]
  /\ op' = FirstReader[Head(plan)] /\ plan' = Tail(plan) /\ ps' = "ask"
  /\ UNCHANGED <<present, net>>

(* The future of a call is dropped, times out, or gets an I/O error: the   *)
(* transport it had taken out of the handle is dropped with it.            *)
Abandon ==
  /\ op \in (Readers \cup {"addendum"}) \ {"blocks"}
  /\ Lose("idle")

(* Drop for BlockStream in state Reading: after an I/O error, a timeout of *)
(* fetch_all, or because its user has read enough.                         *)
AfterDrop_clean == [t EXCEPT !.inconsistent = FALSE]
AfterDrop       == [t EXCEPT !.inconsistent = TRUE]

DropStream ==
  /\ op = "blocks"
  /\ t' = AfterDrop
  /\ op' = "idle"
  /\ UNCHANGED <<present, plan, ps, rid, sent, net>>

-----------------------------------------------------------------------------
(* PacketStreamState::Ask: send. *)

Pack_eager ==
  /\ op \in Readers /\ ps = "ask"
  /\ t.cmds # <<>>
  /\ t' = [t EXCEPT !.cmds = Tail(@), !.wr = Append(@, Head(t.cmds))]
  /\ UNCHANGED <<present, op, plan, ps, rid, sent, net>>
Pack ==
  /\ op \in Readers /\ ps = "ask"
  /\ t.wr = <<>> /\ t.cmds # <<>>
  /\ t' = [t EXCEPT !.cmds = Tail(@), !.wr = <<Head(t.cmds)>>]
  /\ UNCHANGED <<present, op, plan, ps, rid, sent, net>>

(* get_packed_command fails: the command is gone from the queue, and every *)
(* reader but the block stream gives up the transport.                     *)
PackFails ==
  /\ \E c \in Unencodable : op = FirstReader[c]
  /\ ps = "ask"
  /\ t.wr = <<>> /\ t.cmds # <<>>
  /\ IF op = "blocks"
     THEN /\ t' = [t EXCEPT !.cmds = Tail(@)]
          /\ UNCHANGED <<present, op, plan, ps, rid, sent, net>>
     ELSE Lose("idle")

Flush ==
  /\ op \in Readers /\ ps = "ask"
  /\ t.wr # <<>>
  /\ c2s' = IF closed THEN c2s ELSE c2s \o t.wr
  /\ t' = [t EXCEPT !.wr = <<>>]
  /\ UNCHANGED <<present, op, plan, ps, rid, sent, s2c, srv, closed>>

(* hello() is over once the addendum is flushed. *)
FlushAddendum ==
  /\ op = "addendum"
  /\ c2s' = IF closed THEN c2s ELSE c2s \o t.wr
  /\ t' = [t EXCEPT !.wr = <<>>]
  /\ op' = "idle"
  /\ UNCHANGED <<present, plan, ps, rid, sent, s2c, srv, closed>>

AllSent ==
  /\ op \in Readers /\ ps = "ask"
  /\ t.wr = <<>> /\ t.cmds = <<>>
  /\ ps' = "receive"
  /\ UNCHANGED <<t, present, op, plan, rid, sent, net>>

-----------------------------------------------------------------------------
(* PacketStreamState::Receive: poll_next of the transport, and what the    *)
(* reading loop does with the packet.                                      *)

(* Packets a loop reads past. *)
Skipped_errors == [hello   |-> {},
                   clear   |-> {"block", "progress", "columns"},
                   ping    |-> {},
                   execute |-> {"block", "progress", "exception"},
                   header  |-> {"progress", "columns"},
                   tail    |-> {"progress", "columns"},
                   blocks  |-> {"block", "progress"}]
Skipped == [hello   |-> {},
            clear   |-> {"block", "progress", "columns"},
            ping    |-> {},
            execute |-> {"block", "progress"},
            header  |-> {"progress", "columns"},
            tail    |-> {"progress", "columns"},
            blocks  |-> {"block", "progress"}]

(* Packets a loop ends well on, keeping the transport. *)
Last == [hello   |-> {"hello"},
         clear   |-> {"eos", "pong"},
         ping    |-> {"pong"},
         execute |-> {"eos"},
         header  |-> {"block"},
         tail    |-> {"eos", "block"},
         blocks  |-> {"eos"}]

(* On any other packet the transport is dropped; insert unwraps the block  *)
(* that the header must have had.                                          *)
Refused(u) == Head(u.rd).k \notin Skipped[op] \cup Last[op]
Refuse(u)  == Lose(IF op = "header" /\ Head(u.rd).k = "eos" THEN "panicked" ELSE "idle")

HasPacket(rd) == Len(rd) >= 2

Skip(v) ==
  /\ t' = v
  /\ UNCHANGED <<present, op, plan, ps, rid, sent, c2s, srv, closed>>

(* The call, or the part of it that `op` is, is over. *)
Finish(v, next_op) ==
  /\ t' = v /\ op' = next_op
  /\ UNCHANGED <<present, plan, ps, rid, sent, c2s, srv, closed>>

(* The call goes on with another command over the same transport.          *)
Continue(v, next_op, cmd) ==
  /\ t' = [v EXCEPT !.cmds = Append(@, cmd)]
  /\ op' = next_op /\ ps' = "ask"
  /\ UNCHANGED <<present, plan, c2s, srv, closed>>

Cleared_still(v) == v
Cleared(v)       == [v EXCEPT !.inconsistent = FALSE]

(* The packet at the front of the buffer of transport u goes to the loop.  *)
(* An insert of several chunks starts over for each of them.               *)
Deliver(u) ==
  LET k == Head(u.rd).k
      v == [u EXCEPT !.rd = SubSeq(@, 3, Len(@))]
  IN \/ k \in Skipped[op] /\ Skip(v)
     \/ /\ k \in Last[op]
        /\ CASE op = "hello"  -> Finish([v EXCEPT !.wr = <<[k |-> "addendum", id |-> 0]>>],
                                        "addendum")
             [] op = "clear"  -> Finish(Cleared(v), "idle")
             [] op = "header" -> /\ Continue(v, "tail", [k |-> "data", id |-> rid])
                                 /\ UNCHANGED <<rid, sent>>
             [] OTHER         -> Finish(v, "idle")
     \/ /\ op = "tail" /\ k \in Last[op] /\ sent < MaxRequests
        /\ Continue(v, "header", [k |-> "insert", id |-> sent + 1])
        /\ rid' = sent + 1 /\ sent' = sent + 1

(* What a loop does when its stream ends without a packet that ends it.    *)
OnEnd(reader) == IF reader \in {"execute", "header", "tail"} THEN "panicked" ELSE "idle"

(* Enough is buffered: no read. *)
PollBuffered ==
  /\ op \in Readers /\ ps = "receive"
  /\ ~t.buf_is_incomplete /\ HasPacket(t.rd)
  /\ IF Refused(t) THEN Refuse(t) ELSE Deliver(t) /\ UNCHANGED s2c

(* The socket is read until it would block: n parts have arrived by then.  *)
PollRead ==
  /\ op \in Readers /\ ps = "receive"
  /\ ~(~t.buf_is_incomplete /\ HasPacket(t.rd))
  /\ \E n \in 0..Len(s2c) :
       LET got == [t EXCEPT !.rd = @ \o SubSeq(s2c, 1, n)]
           u   == [got EXCEPT !.buf_is_incomplete = ~HasPacket(got.rd)]
       IN IF HasPacket(u.rd) /\ Refused(u)
          THEN Refuse(u)
          ELSE /\ s2c' = SubSeq(s2c, n + 1, Len(s2c))
               /\ IF HasPacket(u.rd) THEN Deliver(u) ELSE Skip(u)

(* The read that meets the end of the stream also drops what it has read   *)
(* since the last poll: `done` is looked at before the buffer.             *)
PollEof ==
  /\ op \in Readers /\ ps = "receive"
  /\ ~(~t.buf_is_incomplete /\ HasPacket(t.rd))
  /\ closed
  /\ Lose(OnEnd(op))

-----------------------------------------------------------------------------
(* The server. *)

Packets(k, id) == <<[k |-> k, id |-> id, part |-> 1], [k |-> k, id |-> id, part |-> 2]>>

Answer(k, id) == s2c' = s2c \o Packets(k, id)
Idle          == srv' = NewServer

(* Idle, it takes the next command; a Cancel with nothing to cancel is     *)
(* ignored.                                                                *)
ServerTake ==
  /\ ~closed /\ srv.st = "idle" /\ c2s # <<>>
  /\ c2s' = Tail(c2s)
  /\ LET c == Head(c2s) IN
       \/ /\ c.k = "query"
          /\ srv' = [st |-> "select", id |-> c.id, left |-> MaxReplies]
          /\ UNCHANGED s2c
       \/ /\ c.k = "insert"
          /\ srv' = [st |-> "insert", id |-> c.id, left |-> 0]
          /\ s2c' = s2c \o Packets("columns", c.id) \o Packets("block", c.id)
       \/ c.k = "ping" /\ Answer("pong", c.id) /\ UNCHANGED srv
       \/ c.k \in {"cancel", "addendum"} /\ UNCHANGED <<s2c, srv>>
       \/ c.k = "hello" /\ Answer("hello", 0) /\ UNCHANGED srv
  /\ UNCHANGED <<client, closed>>

(* A hello it does not like is answered with an exception and a close. *)
ServerReject ==
  /\ ~closed /\ c2s # <<>> /\ Head(c2s).k = "hello"
  /\ Answer("exception", 0)
  /\ c2s' = <<>> /\ closed' = TRUE
  /\ UNCHANGED <<client, srv>>

ServerReply ==
  /\ ~closed /\ srv.st = "select" /\ srv.left > 0
  /\ \E k \in {"block", "progress"} : Answer(k, srv.id)
  /\ srv' = [srv EXCEPT !.left = @ - 1]
  /\ UNCHANGED <<client, c2s, closed>>

(* The reply ends: all sent, failed, cancelled, or the data is inserted. *)
ServerEnd ==
  /\ ~closed
  /\ \/ /\ srv.st = "select"
        /\ \E k \in {"eos", "exception"} : Answer(k, srv.id)
        /\ UNCHANGED c2s
     \/ /\ srv.st = "select" /\ c2s # <<>> /\ Head(c2s).k = "cancel"
        /\ Answer("eos", srv.id)
        /\ c2s' = Tail(c2s)
     \/ /\ srv.st = "insert" /\ c2s # <<>> /\ Head(c2s).k = "data"
        /\ \E k \in {"eos", "exception"} : Answer(k, srv.id)
        /\ c2s' = Tail(c2s)
  /\ Idle
  /\ UNCHANGED <<client, closed>>

ServerClose ==
  /\ ServerMayClose /\ present /\ ~closed
  /\ closed' = TRUE
  /\ c2s' = <<>>
  /\ Idle
  /\ UNCHANGED <<client, s2c>>

-----------------------------------------------------------------------------
ClientStep == \/ BeginClear \/ BeginCall
              \/ Pack \/ Flush \/ AllSent \/ FlushAddendum
              \/ PollBuffered \/ PollRead \/ PollEof

ServerStep == ServerTake \/ ServerReject \/ ServerReply \/ ServerEnd

Next == \/ \E c \in Calls : Call(c)
        \/ ClientStep \/ PackFails \/ Abandon \/ DropStream
        \/ Connect \/ CloseHandle
        \/ ServerStep \/ ServerClose

Spec == Init /\ [][Next]_vars

(* The client's task is polled while it has something to do, and the       *)
(* server answers what it gets.                                            *)
FairSpec == Spec /\ WF_vars(ClientStep) /\ WF_vars(ServerStep)

-----------------------------------------------------------------------------
(* PROPERTIES *)

(* Type correctness of the transport, the call in progress and the network. *)
TypeOK ==
  /\ t \in [cmds : Seq(Cmd), wr : Seq(Cmd), rd : Seq(Part),
            buf_is_incomplete : BOOLEAN, inconsistent : BOOLEAN]
  /\ Len(t.wr) <= 1
  /\ present \in BOOLEAN
  /\ op \in Readers \cup {"idle", "addendum", "panicked"}
  /\ plan \in Seq(Calls) /\ Len(plan) <= 2
  /\ ps \in {"ask", "receive"}
  /\ rid \in 0..MaxRequests /\ sent \in 0..MaxRequests
  /\ c2s \in Seq(Cmd) /\ s2c \in Seq(Part)
  /\ srv \in [st : {"idle", "select", "insert"}, id : 0..MaxRequests, left : 0..MaxReplies]
  /\ closed \in BOOLEAN

(* Everything the connection still carries of some request. *)
Commands == {c \in Range(t.cmds \o t.wr \o c2s) : c.k \notin {"cancel", "addendum"}}
Replies  == Range(t.rd \o s2c)
Pending  == {c.id : c \in Commands} \cup {r.id : r \in Replies}
              \cup (IF srv.st = "idle" THEN {} ELSE {srv.id})

(* Between calls, a transport that is not marked inconsistent is clean:    *)
(* no command, reply or running query is left over for the next user of    *)
(* the connection to trip on.                                              *)
CleanWhenIdle == op = "idle" /\ ~t.inconsistent => Pending = {}

(* A call only ever reads packets of its own request; what another request *)
(* left is only ever read by clear().                                      *)
OwnReply == op \in Readers \ {"clear"} => Pending \subseteq {rid}

(* `inconsistent`: "Whether there are unread packets" (transport.rs:56). A *)
(* transport so marked, on a connection still open, has a reply to read:   *)
(* clear() will not wait for an answer that never comes.                   *)
InconsistentMeansUnread == op = "idle" /\ t.inconsistent /\ ~closed => Pending # {}

(* A Cancel never reaches the server while a query runs that the client    *)
(* has not abandoned.                                                      *)
CancelsOnlyAbandoned ==
  srv.st # "idle" /\ c2s # <<>> /\ Head(c2s).k = "cancel" => op = "clear"

(* Every call ends, however its reply is cut into reads: clear() gets the  *)
(* end it waits for, whether the Cancel comes before or after the end of   *)
(* the query, and no loop waits past the last packet it will get.          *)
CallsEnd == (plan # <<>> \/ op \in Readers) ~> (op \in {"idle", "panicked"} /\ plan = <<>>)

(* h.unwrap() of execute (lib.rs:491) and of read_block (transport.rs:346) *)
(* never meets a reply that ended early.                                   *)
NoUnwrapPanic == op # "panicked"

=============================================================================
