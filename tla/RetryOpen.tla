----------------------------- MODULE RetryOpen -----------------------------
(***************************************************************************)
(* Opening a connection: Pool::retry_open and Pool::get_addr in            *)
(* src/pool/mod.rs, Client::open and ClientHandle::hello in src/lib.rs,    *)
(* ConnectingStream in src/connecting_stream.rs, with options from         *)
(* Options.tla.                                                            *)
(*                                                                         *)
(* Several openers, the futures of Inner.new, share the counter that deals *)
(* out the hosts.  An attempt ends in one of a few ways; how it ends       *)
(* decides, through the conversions between error types, whether it is     *)
(* tried again.                                                            *)
(*                                                                         *)
(* An operator X_word is X with a mistake in it; it is used only to see    *)
(* that a property notices.                                                *)
(***************************************************************************)
EXTENDS Options, FiniteSets

CONSTANTS Openers,      \* open futures
          Sources,      \* what a pool may be given as its options
          Addresses,    \* what the name of a host may resolve to
          Faults        \* how an attempt may fail

(* refused: no TCP connection.      closed: the server closes before it    *)
(* reset: I/O error on the socket.  answers the hello.                     *)
(* rejected: exception or another packet.  timeout: connection_timeout.    *)
(* unresolved: the host has no address, or the certificates of the options *)
(* cannot be loaded.                untrusted: the TLS handshake fails.    *)
(* A host without a port is unresolved, and without options no attempt is  *)
(* made (misconfigured), whatever Faults are.                              *)
AllFaults == {"unresolved", "refused", "untrusted", "reset", "closed", "rejected", "timeout"}

ASSUME OpenersAssumption == IsFiniteSet(Openers)
ASSUME AddressesAssumption == IsFiniteSet(Addresses)
ASSUME FaultsAssumption  == Faults \subseteq AllFaults

(* What options are built from: a usize and a Vec (options.rs).            *)
ASSUME SourcesAssumption ==
  \A source \in Sources : \/ Wrong(get(source))
                          \/ /\ get(source).send_retries \in Nat
                             /\ Len(get(source).alt_hosts) \in Nat

VARIABLES
  pool,             \* what is the same for all openers, see PoolOf
  connections_num,  \* Inner.connections_num, modulo the number of hosts
  pc,               \* where each opener is
  attempt,          \* local of retry_open
  waiting,          \* select_ok: addresses whose connect has not ended
  tried,            \* hosts tried in this open
  result,           \* how the last attempt ended
  alone             \* history, for Failover: openers since whose start no
                    \* other has been dealt a host

vars == <<pool, connections_num, pc, attempt, waiting, tried, result, alone>>

(* Pool::new, and what the openers of the pool find in its options; no     *)
(* retries without options.                                                *)
PoolOf(options) ==
  [hosts         |-> pool_hosts(options),
   misconfigured |-> Wrong(options),
   secure        |-> ~Wrong(options) /\ options.secure,
   send_retries  |-> IF Wrong(options) THEN 0 ELSE options.send_retries]

NoOptions   == pool.misconfigured
Hosts       == 0..Len(pool.hosts) - 1
HasPort(h)  == pool.hosts[h + 1].port # Absent
SendRetries == pool.send_retries

PCs   == {"new", "loop", "connect", "tls", "hello", "decide", "sleep", "opened", "failed"}

Init ==
  /\ pool \in {PoolOf(get(source)) : source \in Sources}
  /\ connections_num = 0
  /\ pc = [o \in Openers |-> "new"]
  /\ attempt = [o \in Openers |-> 0]
  /\ waiting = [o \in Openers |-> {}]
  /\ tried = [o \in Openers |-> {}]
  /\ result = [o \in Openers |-> "ok"]
  /\ alone = {}

Goto(o, label) == pc' = [pc EXCEPT ![o] = label]

(* Pool::new_connection. *)
Start(o) ==
  /\ pc[o] = "new"
  /\ Goto(o, "loop")
  /\ alone' = alone \cup {o}
  /\ UNCHANGED <<pool, connections_num, attempt, waiting, tried, result>>

(* get_addr: the hosts in turn. *)
NextHost_first == 0
NextHost       == connections_num

(* ConnectingStream::new, in the same breath: one connect for each address *)
(* of the host, or it fails.                                               *)
Resolved(o, r, found, label) ==
  /\ result' = [result EXCEPT ![o] = r]
  /\ waiting' = [waiting EXCEPT ![o] = found]
  /\ Goto(o, label)
Resolve(o, h) ==
  \/ \E found \in SUBSET Addresses \ {{}} : HasPort(h) /\ Resolved(o, "ok", found, "connect")
  \/ ("unresolved" \in Faults \/ ~HasPort(h)) /\ Resolved(o, "unresolved", {}, "decide")

Dial(o) ==
  /\ pc[o] = "loop" /\ ~NoOptions
  /\ connections_num' = (connections_num + 1) % Len(pool.hosts)
  /\ tried' = [tried EXCEPT ![o] = @ \cup {NextHost}]
  /\ alone' = alone \cap {o}
  /\ Resolve(o, NextHost)
  /\ UNCHANGED <<pool, attempt>>

(* The attempt is over; the connects still in flight are dropped. *)
Ends(o, r, left) ==
  /\ result' = [result EXCEPT ![o] = r]
  /\ waiting' = [waiting EXCEPT ![o] = left]
  /\ Goto(o, "decide")
  /\ UNCHANGED <<pool, connections_num, attempt, tried, alone>>

GoesOn(o, label, left) ==
  /\ waiting' = [waiting EXCEPT ![o] = left]
  /\ Goto(o, label)
  /\ UNCHANGED <<pool, connections_num, attempt, tried, result, alone>>

(* Client::open asks for the options before it asks for a host.            *)
Misconfigured(o) == pc[o] = "loop" /\ NoOptions /\ Ends(o, "misconfigured", {})

(* Client::open has its stream: set_nodelay, and on to the hello. *)
Established(o) == \/ GoesOn(o, "hello", {})
                  \/ "reset" \in Faults /\ Ends(o, "reset", {})

(* select_ok: the first connect that succeeds is the connection; a failure *)
(* is the answer when it is the last one's.                                *)
Connected(o) ==
  /\ pc[o] = "connect"
  /\ IF pool.secure THEN GoesOn(o, "tls", {}) ELSE Established(o)

AllFailed_any(o, a) == TRUE
AllFailed(o, a)     == waiting[o] = {a}

ConnectFails(o) ==
  /\ pc[o] = "connect" /\ "refused" \in Faults
  /\ \E a \in waiting[o] :
       IF AllFailed(o, a) THEN Ends(o, "refused", waiting[o] \ {a})
                          ELSE GoesOn(o, "connect", waiting[o] \ {a})

(* The TLS connector: the handshake, or a name that no certificate can be  *)
(* checked against.                                                        *)
Handshake(o) ==
  /\ pc[o] = "tls"
  /\ \/ Established(o)
     \/ "untrusted" \in Faults /\ Ends(o, "untrusted", {})

(* with_timeout, over the whole of the attempt that waits.                 *)
TimesOut(o) ==
  /\ pc[o] \in {"connect", "tls", "hello"} /\ "timeout" \in Faults
  /\ Ends(o, "timeout", {})

(* hello, and the addendum after it. *)
HelloEnds(o) ==
  /\ pc[o] = "hello"
  /\ \E r \in {"ok"} \cup (Faults \cap {"reset", "closed", "rejected"}) : Ends(o, r, {})

(* What retry_open sees.  An error of the TCP connect has become an        *)
(* Error::Connection by then, and is not an Error::Io.                     *)
IsIo      == {"reset", "closed"}
Retriable == {"closed"}  \* BrokenPipe; no attempt ends in Io(ConnectionRefused)

GivesUp_late(o) == attempt[o] > SendRetries
GivesUp(o)      == attempt[o] >= SendRetries

Return(o) ==
  /\ pc[o] = "decide"
  /\ result[o] \in IsIo => result[o] \in Retriable /\ GivesUp(o)
  /\ Goto(o, IF result[o] = "ok" THEN "opened" ELSE "failed")
  /\ UNCHANGED <<pool, connections_num, attempt, waiting, tried, result, alone>>

Counted_never(o) == attempt
Counted(o)       == [attempt EXCEPT ![o] = @ + 1]

Retry(o) ==
  /\ pc[o] = "decide" /\ result[o] \in Retriable /\ ~GivesUp(o)
  /\ attempt' = Counted(o)
  /\ Goto(o, "sleep")
  /\ UNCHANGED <<pool, connections_num, waiting, tried, result, alone>>

Awake(o) ==
  /\ pc[o] = "sleep"
  /\ Goto(o, "loop")
  /\ UNCHANGED <<pool, connections_num, attempt, waiting, tried, result, alone>>

(* Any other I/O error is logged, and the loop goes round. *)
TryAgain(o) ==
  /\ pc[o] = "decide" /\ result[o] \in IsIo \ Retriable
  /\ Goto(o, "loop")
  /\ UNCHANGED <<pool, connections_num, attempt, waiting, tried, result, alone>>

(* The pool takes the result, and will open another connection some time.  *)
Taken(o) ==
  /\ pc[o] \in {"opened", "failed"}
  /\ Goto(o, "new")
  /\ attempt' = [attempt EXCEPT ![o] = 0]
  /\ tried' = [tried EXCEPT ![o] = {}]
  /\ result' = [result EXCEPT ![o] = "ok"]
  /\ waiting' = [waiting EXCEPT ![o] = {}]
  /\ UNCHANGED <<pool, connections_num, alone>>

Step(o) == \/ Start(o) \/ Dial(o) \/ Misconfigured(o) \/ Connected(o) \/ ConnectFails(o)
           \/ Handshake(o) \/ HelloEnds(o) \/ TimesOut(o) \/ Return(o) \/ Retry(o) \/ Awake(o) \/ TryAgain(o)

Next == \E o \in Openers : Step(o) \/ Taken(o)

Spec == Init /\ [][Next]_vars

(* The opener is polled until it is done: connection_timeout bounds each   *)
(* wait.                                                                   *)
FairSpec == Spec /\ \A o \in Openers : WF_vars(Step(o))

-----------------------------------------------------------------------------
(* PROPERTIES *)

(* Type correctness; the attempts counted stay within send_retries.        *)
TypeOK ==
  /\ connections_num \in Hosts \cup {0}
  /\ pc \in [Openers -> PCs]
  /\ attempt \in [Openers -> 0..SendRetries]
  /\ Len(pool.hosts) > 0 \/ NoOptions
  /\ waiting \in [Openers -> SUBSET Addresses]
  /\ tried \in [Openers -> SUBSET Hosts]
  /\ result \in [Openers -> {"ok", "misconfigured", "unresolved"} \cup Faults]

(* An open that gives up on servers that closed on it has tried as many    *)
(* hosts as it has attempts, if no other opener takes hosts in between:    *)
(* the alternative hosts are really tried.                                 *)
HostsTried == \A o \in alone :
  pc[o] = "failed" /\ result[o] = "closed" =>
    tried[o] = Hosts \/ Cardinality(tried[o]) > SendRetries

(* A host is given up as refusing connections only when none of its        *)
(* addresses can still take the connection.                                *)
AddressesTried == \A o \in Openers : result[o] = "refused" => waiting[o] = {}

(* What is configured for a failure is used before the open fails: the     *)
(* other hosts of the pool, and the other addresses of a host.             *)
Failover == HostsTried /\ AddressesTried

(* Every open comes to an end, whatever the others do, unless its attempts *)
(* go on failing with an I/O error that is not retriable.                  *)
OpenResolves == \A o \in Openers :
  \/ []<>(result[o] = "reset")
  \/ pc[o] = "loop" ~> pc[o] \in {"opened", "failed"}

(* "Failed to connect to ClickHouse due to non-retriable IO error"         *)
(* (pool/mod.rs:330): such an error ends the open.                         *)
ResetResolves == \A o \in Openers :
  pc[o] = "loop" ~> pc[o] \in {"opened", "failed"}

(* send_retries is "Count of retry to send request to server"              *)
(* (README.md:56): an open that fails because the server refuses the       *)
(* connection, which retry_open names as a reason to retry, has used them. *)
RefusedRetried == \A o \in Openers :
  pc[o] = "failed" /\ result[o] = "refused" => attempt[o] = SendRetries

=============================================================================
