-------------------------- MODULE RetryOpenProofs --------------------------
(***************************************************************************)
(* Failover and progress of RetryOpen.tla, for every number of openers,    *)
(* hosts, addresses and attempts.                                          *)
(*                                                                         *)
(* That a lone opener tries as many hosts as it has attempts is not        *)
(* inductive: the counter must never come round to a host already tried    *)
(* while one is left.  So the invariant says which hosts those are: the    *)
(* ones from some first host on, round the end of the list, up to the one  *)
(* that is next.                                                           *)
(***************************************************************************)
EXTENDS RetryOpen, FiniteSetTheorems, WellFoundedInduction, TLAPS

(* A pool has hosts unless its options are wrong.                          *)
PoolOK ==
  /\ Len(pool.hosts) \in Nat /\ SendRetries \in Nat /\ NoOptions \in BOOLEAN
  /\ Len(pool.hosts) = 0 <=> NoOptions

(* The hosts from `first` on, up to the one before `next`.                 *)
Round(first, next, size) ==
  IF first <= next THEN first..next - 1 ELSE (first..size - 1) \cup (0..next - 1)

(* The attempts of an opener at `label` that has counted `counted`: one    *)
(* more, unless it is about to begin the next.                             *)
Begun(label, counted) == counted + IF label \in {"new", "loop", "sleep"} THEN 0 ELSE 1

Turn(o) ==
  \/ tried[o] = Hosts
  \/ /\ \E first \in Hosts : tried[o] = Round(first, connections_num, Len(pool.hosts))
     /\ Cardinality(tried[o]) >= Begun(pc[o], attempt[o])

Turns == alone \subseteq Openers /\ \A o \in alone : Turn(o)

(* An opener begins with nothing, and gives up on an I/O error only after  *)
(* its last attempt.                                                       *)
Ended == \A o \in Openers :
  /\ pc[o] = "new" => tried[o] = {} /\ attempt[o] = 0
  /\ pc[o] = "failed" /\ result[o] \in IsIo => attempt[o] >= SendRetries

IInv == TypeOK /\ PoolOK /\ Turns /\ Ended /\ AddressesTried

-----------------------------------------------------------------------------
(* Whose options they are.                                                 *)

(* The first host and its alternatives, if the options are right.          *)
LEMMA PoolOfOptions ==
  ASSUME NEW source \in Sources, pool = PoolOf(get(source))
  PROVE  PoolOK
<1> DEFINE options == get(source)
<1>1. /\ pool.hosts = pool_hosts(options) /\ NoOptions = Wrong(options)
      /\ SendRetries = IF Wrong(options) THEN 0 ELSE options.send_retries
  BY DEF PoolOf, NoOptions, SendRetries
<1>2. Wrong(options) \in BOOLEAN
  BY DEF Wrong
<1>3. CASE Wrong(options)
  <2>1. pool.hosts = <<>> /\ SendRetries = 0
    BY <1>1, <1>3 DEF pool_hosts
  <2> QED
    BY <1>1, <1>2, <1>3, <2>1 DEF PoolOK
<1>4. CASE ~Wrong(options)
  <2>1. options.send_retries \in Nat /\ Len(options.alt_hosts) \in Nat
    BY <1>4, SourcesAssumption
  <2>2. pool.hosts = <<options.addr>> \o options.alt_hosts /\ SendRetries = options.send_retries
    BY <1>1, <1>4 DEF pool_hosts
  <2>3. Len(pool.hosts) = 1 + Len(options.alt_hosts)
    BY <2>2
  <2> QED
    BY <1>1, <1>2, <1>4, <2>1, <2>2, <2>3 DEF PoolOK
<1> QED
  BY <1>3, <1>4

-----------------------------------------------------------------------------
(* One opener's step.                                                      *)

(* What an opener knows, given with the step that changes it.              *)
Own(o, l, a, w, d, r) ==
  /\ pc' = [pc EXCEPT ![o] = l] /\ attempt' = [attempt EXCEPT ![o] = a]
  /\ waiting' = [waiting EXCEPT ![o] = w] /\ tried' = [tried EXCEPT ![o] = d]
  /\ result' = [result EXCEPT ![o] = r]

(* Nothing else of it changes.                                             *)
LEMMA Kept ==
  ASSUME TypeOK, NEW o \in Openers
  PROVE  /\ UNCHANGED pc => pc' = [pc EXCEPT ![o] = pc[o]]
         /\ UNCHANGED attempt => attempt' = [attempt EXCEPT ![o] = attempt[o]]
         /\ UNCHANGED waiting => waiting' = [waiting EXCEPT ![o] = waiting[o]]
         /\ UNCHANGED tried => tried' = [tried EXCEPT ![o] = tried[o]]
         /\ UNCHANGED result => result' = [result EXCEPT ![o] = result[o]]
BY DEF TypeOK

(* The steps that deal no host: where they go, from where, and with what.  *)
Quiet(o) ==
  \/ pc[o] = "new" /\ Own(o, "loop", attempt[o], waiting[o], tried[o], result[o])
  \/ pc[o] = "loop" /\ NoOptions /\ Own(o, "decide", attempt[o], {}, tried[o], "misconfigured")
  \/ /\ pc[o] \in {"connect", "tls"}
     /\ \E l \in {"tls", "hello"} \ {pc[o]} : Own(o, l, attempt[o], {}, tried[o], result[o])
  \/ /\ pc[o] = "connect" /\ \E a \in waiting[o] :
          Own(o, "connect", attempt[o], waiting[o] \ {a}, tried[o], result[o])
  \/ /\ pc[o] \in {"connect", "tls", "hello"}
     /\ \E r \in {"ok"} \cup Faults : Own(o, "decide", attempt[o], {}, tried[o], r)
  \/ /\ pc[o] = "decide"
     /\ result[o] \in IsIo => attempt[o] >= SendRetries
     /\ \E l \in {"opened", "failed"} : Own(o, l, attempt[o], waiting[o], tried[o], result[o])
  \/ /\ pc[o] = "decide" /\ ~(attempt[o] >= SendRetries)
     /\ Own(o, "sleep", attempt[o] + 1, waiting[o], tried[o], result[o])
  \/ /\ pc[o] = "sleep" \/ (pc[o] = "decide" /\ result[o] \in IsIo \ Retriable)
     /\ Own(o, "loop", attempt[o], waiting[o], tried[o], result[o])
  \/ pc[o] \in {"opened", "failed"} /\ Own(o, "new", 0, {}, {}, "ok")

(* There are no other steps, and only a start changes `alone`.             *)
LEMMA QuietSteps ==
  ASSUME TypeOK, NEW o \in Openers, Step(o) \/ Taken(o), ~Dial(o)
  PROVE  /\ Quiet(o) /\ UNCHANGED <<pool, connections_num>>
         /\ UNCHANGED alone \/ (pc[o] = "new" /\ alone' = alone \cup {o})
<1>1. ASSUME NEW r, NEW left, Ends(o, r, left)
      PROVE  /\ Own(o, "decide", attempt[o], left, tried[o], r)
             /\ UNCHANGED <<pool, connections_num, alone>>
  BY <1>1, Kept DEF Ends, Own, Goto
<1>2. ASSUME NEW l, NEW left, GoesOn(o, l, left)
      PROVE  /\ Own(o, l, attempt[o], left, tried[o], result[o])
             /\ UNCHANGED <<pool, connections_num, alone>>
  BY <1>2, Kept DEF GoesOn, Own, Goto
<1>3. ASSUME pc[o] \in {"connect", "tls"}, Established(o)
      PROVE  Quiet(o) /\ UNCHANGED <<pool, connections_num, alone>>
  BY <1>1, <1>2, <1>3 DEF Established, Quiet
<1>4. CASE Start(o)
  <2>1. Own(o, "loop", attempt[o], waiting[o], tried[o], result[o])
    BY <1>4, Kept DEF Start, Own, Goto
  <2> QED
    BY <1>4, <2>1 DEF Start, Quiet
<1>5. CASE Misconfigured(o)
  BY <1>1, <1>5 DEF Misconfigured, Quiet
<1>6. CASE Connected(o)
  BY <1>2, <1>3, <1>6 DEF Connected, Quiet
<1>7. CASE ConnectFails(o)
  <2>1. PICK a \in waiting[o] : IF AllFailed(o, a) THEN Ends(o, "refused", waiting[o] \ {a})
                                                   ELSE GoesOn(o, "connect", waiting[o] \ {a})
    BY <1>7 DEF ConnectFails
  <2>2. pc[o] = "connect" /\ "refused" \in Faults
    BY <1>7 DEF ConnectFails
  <2>3. CASE AllFailed(o, a)
    <3>1. waiting[o] \ {a} = {}
      BY <2>3 DEF AllFailed
    <3> QED
      BY <1>1, <2>1, <2>2, <2>3, <3>1 DEF Quiet
  <2>4. CASE ~AllFailed(o, a)
    BY <1>2, <2>1, <2>2, <2>4 DEF Quiet
  <2> QED
    BY <2>3, <2>4
<1>8. CASE Handshake(o)
  BY <1>1, <1>3, <1>8 DEF Handshake, Quiet
<1>9. CASE HelloEnds(o)
  BY <1>1, <1>9 DEF HelloEnds, Quiet
<1>10. CASE TimesOut(o)
  BY <1>1, <1>10 DEF TimesOut, Quiet
<1>11. CASE Return(o)
  <2>1. \E l \in {"opened", "failed"} : Own(o, l, attempt[o], waiting[o], tried[o], result[o])
    BY <1>11, Kept DEF Return, Own, Goto
  <2> QED
    BY <1>11, <2>1 DEF Return, Quiet, GivesUp
<1>12. CASE Retry(o)
  <2>1. Own(o, "sleep", attempt[o] + 1, waiting[o], tried[o], result[o])
    BY <1>12, Kept DEF Retry, Own, Goto, Counted
  <2> QED
    BY <1>12, <2>1 DEF Retry, Quiet, GivesUp
<1>13. CASE Awake(o) \/ TryAgain(o)
  <2>1. Own(o, "loop", attempt[o], waiting[o], tried[o], result[o])
    BY <1>13, Kept DEF Awake, TryAgain, Own, Goto
  <2> QED
    BY <1>13, <2>1 DEF Awake, TryAgain, Quiet
<1>14. CASE Taken(o)
  <2>1. Own(o, "new", 0, {}, {}, "ok")
    BY <1>14 DEF Taken, Own, Goto
  <2> QED
    BY <1>14, <2>1 DEF Taken, Quiet
<1> QED
  BY <1>4, <1>5, <1>6, <1>7, <1>8, <1>9, <1>10, <1>11, <1>12, <1>13, <1>14 DEF Step


(* The step of the opener that deals a host.                               *)
LEMMA DialStep ==
  ASSUME TypeOK, NEW o \in Openers, Dial(o)
  PROVE  /\ pc[o] = "loop" /\ ~NoOptions /\ UNCHANGED pool /\ alone' = alone \cap {o}
         /\ connections_num' = (connections_num + 1) % Len(pool.hosts)
         /\ \E l \in {"connect", "decide"}, w \in SUBSET Addresses, r \in {"ok", "unresolved"} :
              Own(o, l, attempt[o], w, tried[o] \cup {connections_num}, r)
<1>1. /\ pc[o] = "loop" /\ ~NoOptions /\ UNCHANGED <<pool, attempt>> /\ alone' = alone \cap {o}
      /\ connections_num' = (connections_num + 1) % Len(pool.hosts)
      /\ tried' = [tried EXCEPT ![o] = tried[o] \cup {connections_num}]
      /\ Resolve(o, connections_num)
  BY DEF Dial, NextHost
<1>2. \E l \in {"connect", "decide"}, w \in SUBSET Addresses, r \in {"ok", "unresolved"} :
        Resolved(o, r, w, l)
  BY <1>1 DEF Resolve
<1>3. attempt' = [attempt EXCEPT ![o] = attempt[o]]
  BY <1>1, Kept
<1> QED
  BY <1>1, <1>2, <1>3 DEF Resolved, Goto, Own

(* What is known of an opener is what was known, or what its step says.    *)
LEMMA Owned ==
  ASSUME TypeOK, NEW o \in Openers, NEW l, NEW a, NEW w, NEW d, NEW r, Own(o, l, a, w, d, r)
  PROVE  /\ pc'[o] = l /\ attempt'[o] = a /\ waiting'[o] = w /\ tried'[o] = d /\ result'[o] = r
         /\ \A p \in Openers \ {o} : /\ pc'[p] = pc[p] /\ attempt'[p] = attempt[p]
                                     /\ waiting'[p] = waiting[p] /\ tried'[p] = tried[p]
                                     /\ result'[p] = result[p]
BY DEF TypeOK, Own

(* The types of what an opener knows.                                      *)
OwnOK(l, a, w, d, r) ==
  /\ l \in PCs /\ a \in 0..SendRetries /\ w \in SUBSET Addresses /\ d \in SUBSET Hosts
  /\ r \in {"ok", "misconfigured", "unresolved"} \cup Faults

(* They make the step well typed.                                          *)
LEMMA OwnType ==
  ASSUME TypeOK, NEW o \in Openers, NEW l, NEW a, NEW w, NEW d, NEW r,
         Own(o, l, a, w, d, r), OwnOK(l, a, w, d, r), UNCHANGED pool,
         connections_num' \in Hosts \cup {0}
  PROVE  TypeOK'
<1>1. Hosts' = Hosts /\ SendRetries' = SendRetries /\ NoOptions' = NoOptions
  BY DEF Hosts, SendRetries, NoOptions
<1>2. pc' \in [Openers -> PCs] /\ attempt' \in [Openers -> 0..SendRetries]
  BY DEF TypeOK, Own, OwnOK
<1>3. /\ waiting' \in [Openers -> SUBSET Addresses]
      /\ tried' \in [Openers -> SUBSET Hosts]
  BY DEF TypeOK, Own, OwnOK
<1>4. result' \in [Openers -> {"ok", "misconfigured", "unresolved"} \cup Faults]
  BY DEF TypeOK, Own, OwnOK
<1> QED
  BY <1>1, <1>2, <1>3, <1>4 DEF TypeOK


-----------------------------------------------------------------------------
(* The steps that deal no host.                                            *)

(* What one of them leaves an opener with is well typed, keeps Ended and   *)
(* AddressesTried, and needs no host that was not tried before.            *)
Fine(o, l, a, w, d, r) ==
  /\ OwnOK(l, a, w, d, r)
  /\ l = "new" => d = {} /\ a = 0
  /\ l = "failed" /\ r \in IsIo => a >= SendRetries
  /\ r = "refused" => w = {}
  /\ \/ NoOptions
     \/ d = {} /\ Begun(l, a) = 0
     \/ pc[o] # "new" /\ d = tried[o] /\ Begun(l, a) <= Begun(pc[o], attempt[o])

(* Each of them is such a step.                                            *)
LEMMA QuietFine ==
  ASSUME IInv, NEW o \in Openers, Quiet(o)
  PROVE  \E l, a, w, d, r : Own(o, l, a, w, d, r) /\ Fine(o, l, a, w, d, r)
<1>1. /\ attempt[o] \in 0..SendRetries /\ SendRetries \in Nat /\ waiting[o] \in SUBSET Addresses
      /\ tried[o] \in SUBSET Hosts
      /\ result[o] \in {"ok", "misconfigured", "unresolved"} \cup Faults
  BY DEF IInv, TypeOK, PoolOK
<1>2. /\ pc[o] = "new" => tried[o] = {} /\ attempt[o] = 0
      /\ result[o] = "refused" => waiting[o] = {}
  BY DEF IInv, Ended, AddressesTried
<1>3. CASE pc[o] = "new" /\ Own(o, "loop", attempt[o], waiting[o], tried[o], result[o])
  <2>1. Fine(o, "loop", attempt[o], waiting[o], tried[o], result[o])
    BY <1>1, <1>2, <1>3 DEF Fine, OwnOK, PCs, Begun
  <2> QED
    BY <1>3, <2>1
<1>4. CASE /\ pc[o] = "loop" /\ NoOptions
           /\ Own(o, "decide", attempt[o], {}, tried[o], "misconfigured")
  <2>1. Fine(o, "decide", attempt[o], {}, tried[o], "misconfigured")
    BY <1>1, <1>4 DEF Fine, OwnOK, PCs
  <2> QED
    BY <1>4, <2>1
<1>5. ASSUME pc[o] \in {"connect", "tls"}, NEW l \in {"tls", "hello"},
             Own(o, l, attempt[o], {}, tried[o], result[o])
      PROVE  Fine(o, l, attempt[o], {}, tried[o], result[o])
  BY <1>1, <1>5 DEF Fine, OwnOK, PCs, Begun
<1>6. ASSUME pc[o] = "connect", NEW x \in waiting[o],
             Own(o, "connect", attempt[o], waiting[o] \ {x}, tried[o], result[o])
      PROVE  Fine(o, "connect", attempt[o], waiting[o] \ {x}, tried[o], result[o])
  BY <1>1, <1>2, <1>6 DEF Fine, OwnOK, PCs, Begun
<1>7. ASSUME pc[o] \in {"connect", "tls", "hello"}, NEW r \in {"ok"} \cup Faults,
             Own(o, "decide", attempt[o], {}, tried[o], r)
      PROVE  Fine(o, "decide", attempt[o], {}, tried[o], r)
  BY <1>1, <1>7 DEF Fine, OwnOK, PCs, Begun
<1>8. ASSUME pc[o] = "decide", result[o] \in IsIo => attempt[o] >= SendRetries,
             NEW l \in {"opened", "failed"},
             Own(o, l, attempt[o], waiting[o], tried[o], result[o])
      PROVE  Fine(o, l, attempt[o], waiting[o], tried[o], result[o])
  BY <1>1, <1>2, <1>8 DEF Fine, OwnOK, PCs, Begun
<1>9. CASE /\ pc[o] = "decide" /\ ~(attempt[o] >= SendRetries)
           /\ Own(o, "sleep", attempt[o] + 1, waiting[o], tried[o], result[o])
  <2>1. Fine(o, "sleep", attempt[o] + 1, waiting[o], tried[o], result[o])
    BY <1>1, <1>2, <1>9 DEF Fine, OwnOK, PCs, Begun
  <2> QED
    BY <1>9, <2>1
<1>10. CASE /\ pc[o] \in {"sleep", "decide"}
            /\ Own(o, "loop", attempt[o], waiting[o], tried[o], result[o])
  <2>1. Fine(o, "loop", attempt[o], waiting[o], tried[o], result[o])
    BY <1>1, <1>2, <1>10 DEF Fine, OwnOK, PCs, Begun
  <2> QED
    BY <1>10, <2>1
<1>11. CASE pc[o] \in {"opened", "failed"} /\ Own(o, "new", 0, {}, {}, "ok")
  <2>1. Fine(o, "new", 0, {}, {}, "ok")
    BY <1>1, <1>11 DEF Fine, OwnOK, PCs, Begun
  <2> QED
    BY <1>11, <2>1
<1>12. CASE pc[o] \in {"connect", "tls"} /\ \E l \in {"tls", "hello"} :
              Own(o, l, attempt[o], {}, tried[o], result[o])
  BY <1>5, <1>12
<1>13. CASE pc[o] = "connect" /\ \E x \in waiting[o] :
              Own(o, "connect", attempt[o], waiting[o] \ {x}, tried[o], result[o])
  BY <1>6, <1>13
<1>14. CASE pc[o] \in {"connect", "tls", "hello"} /\ \E r \in {"ok"} \cup Faults :
              Own(o, "decide", attempt[o], {}, tried[o], r)
  BY <1>7, <1>14
<1>15. CASE /\ pc[o] = "decide" /\ (result[o] \in IsIo => attempt[o] >= SendRetries)
            /\ \E l \in {"opened", "failed"} :
                 Own(o, l, attempt[o], waiting[o], tried[o], result[o])
  BY <1>8, <1>15
<1> QED
  BY <1>3, <1>4, <1>9, <1>10, <1>11, <1>12, <1>13, <1>14, <1>15 DEF Quiet

(* The hosts of a pool, and where the counter is among them.               *)
LEMMA HostsOfPool ==
  ASSUME TypeOK, PoolOK
  PROVE  \E size \in Nat : /\ size = Len(pool.hosts) /\ Hosts = 0..size - 1
                           /\ NoOptions => Hosts = {}
                           /\ ~NoOptions => size > 0 /\ connections_num \in 0..size - 1
<1>1. PICK size \in Nat : size = Len(pool.hosts) /\ Hosts = 0..size - 1
  BY DEF PoolOK, Hosts
<1>2. CASE NoOptions
  <2>1. size = 0
    BY <1>1, <1>2 DEF PoolOK
  <2> QED
    BY <1>1, <1>2, <2>1
<1>3. CASE ~NoOptions
  <2>1. size > 0
    BY <1>1, <1>3 DEF PoolOK
  <2>2. connections_num \in 0..size - 1
    BY <1>1, <2>1 DEF TypeOK
  <2> QED
    BY <1>1, <1>3, <2>1, <2>2
<1> QED
  BY <1>2, <1>3

(* Each of these steps preserves the invariant.                            *)
LEMMA QuietStep ==
  ASSUME IInv, NEW o \in Openers, Step(o) \/ Taken(o), ~Dial(o)
  PROVE  IInv'
<1>1. /\ Quiet(o) /\ UNCHANGED <<pool, connections_num>>
      /\ UNCHANGED alone \/ (pc[o] = "new" /\ alone' = alone \cup {o})
  BY QuietSteps DEF IInv
<1>2. PICK l, a, w, d, r : Own(o, l, a, w, d, r) /\ Fine(o, l, a, w, d, r)
  BY <1>1, QuietFine
<1>3. TypeOK /\ PoolOK /\ Turns /\ Ended /\ AddressesTried
  BY DEF IInv
<1>4. /\ pc'[o] = l /\ attempt'[o] = a /\ waiting'[o] = w /\ tried'[o] = d /\ result'[o] = r
      /\ \A p \in Openers \ {o} : /\ pc'[p] = pc[p] /\ attempt'[p] = attempt[p]
                                  /\ waiting'[p] = waiting[p] /\ tried'[p] = tried[p]
                                  /\ result'[p] = result[p]
  BY <1>2, <1>3, Owned
<1>5. Hosts' = Hosts /\ SendRetries' = SendRetries /\ NoOptions' = NoOptions
  BY <1>1 DEF Hosts, SendRetries, NoOptions
<1>6. TypeOK' /\ PoolOK'
  <2>1. connections_num' \in Hosts \cup {0}
    BY <1>1, <1>3 DEF TypeOK
  <2>2. OwnOK(l, a, w, d, r)
    BY <1>2 DEF Fine
  <2>3. TypeOK'
    BY <1>1, <1>2, <1>3, <2>1, <2>2, OwnType
  <2> QED
    BY <1>1, <1>3, <1>5, <2>3 DEF PoolOK
<1>7. Ended'
  <2>1. /\ l = "new" => d = {} /\ a = 0
        /\ l = "failed" /\ r \in IsIo => a >= SendRetries
    BY <1>2 DEF Fine
  <2> QED
    BY <1>3, <1>4, <1>5, <2>1 DEF Ended, IsIo
<1>8. AddressesTried'
  <2>1. r = "refused" => w = {}
    BY <1>2 DEF Fine
  <2> QED
    BY <1>3, <1>4, <2>1 DEF AddressesTried
<1>9. Turns'
  <2>1. alone' \subseteq Openers
    BY <1>1, <1>3 DEF Turns
  <2>2. ASSUME NEW p \in alone', p # o
        PROVE  Turn(p)'
    <3>1. Turn(p) /\ p \in Openers \ {o}
      BY <1>1, <1>3, <2>1, <2>2 DEF Turns
    <3>2. pc'[p] = pc[p] /\ attempt'[p] = attempt[p] /\ tried'[p] = tried[p]
      BY <1>4, <3>1
    <3> QED
      BY <1>1, <1>5, <3>1, <3>2 DEF Turn, Begun
  <2>3. ASSUME o \in alone'
        PROVE  Turn(o)'
    <3>1. PICK size \in Nat : /\ size = Len(pool.hosts) /\ Hosts = 0..size - 1
                              /\ NoOptions => Hosts = {}
                              /\ ~NoOptions => size > 0 /\ connections_num \in 0..size - 1
      BY <1>3, HostsOfPool
    <3>2. d \in SUBSET Hosts
      BY <1>2 DEF Fine, OwnOK
    <3>3. CASE NoOptions
      BY <1>4, <1>5, <3>1, <3>2, <3>3 DEF Turn
    <3>4. CASE ~NoOptions /\ d = {} /\ Begun(l, a) = 0
      <4>1. Round(connections_num, connections_num, size) = {}
        BY <3>1, <3>4 DEF Round
      <4>2. Cardinality({}) = 0
        BY FS_EmptySet
      <4>3. connections_num \in Hosts
        BY <3>1, <3>4
      <4> QED
        BY <1>1, <1>4, <1>5, <3>1, <3>4, <4>1, <4>2, <4>3 DEF Turn, Begun
    <3>5. CASE pc[o] # "new" /\ d = tried[o] /\ Begun(l, a) <= Begun(pc[o], attempt[o])
      <4>1. Turn(o)
        BY <1>1, <1>3, <2>3, <3>5 DEF Turns
      <4>2. IsFiniteSet(tried[o])
        <5>1. tried[o] \subseteq 0..size - 1 /\ size - 1 \in Int
          BY <3>1, <3>2, <3>5
        <5>2. IsFiniteSet(0..size - 1)
          BY <5>1, FS_Interval
        <5> QED
          BY <5>1, <5>2, FS_Subset
      <4>3. Cardinality(tried[o]) \in Nat
        BY <4>2, FS_CardinalityType
      <4>4. Begun(l, a) \in Int /\ Begun(pc[o], attempt[o]) \in Int
        BY <1>2, <1>3 DEF Fine, OwnOK, Begun, TypeOK, PoolOK
      <4>5. Cardinality(tried[o]) >= Begun(pc[o], attempt[o])
            => Cardinality(tried[o]) >= Begun(l, a)
        BY <3>5, <4>3, <4>4
      <4> QED
        BY <1>1, <1>4, <1>5, <3>5, <4>1, <4>5 DEF Turn, Begun
    <3> QED
      BY <1>2, <3>3, <3>4, <3>5 DEF Fine
  <2> QED
    BY <2>1, <2>2, <2>3 DEF Turns
<1> QED
  BY <1>6, <1>7, <1>8, <1>9 DEF IInv


-----------------------------------------------------------------------------
(* The step that deals a host.                                             *)

(* The counter goes round.                                                 *)
LEMMA Modulus ==
  ASSUME NEW size \in Nat, NEW c \in 0..size - 1
  PROVE  /\ (c + 1) % size \in 0..size - 1
         /\ c + 1 < size => (c + 1) % size = c + 1
         /\ c + 1 = size => (c + 1) % size = 0
<1>1. (c + 1) % size \in 0..size - 1
  OBVIOUS
<1>2. c + 1 < size => (c + 1) % size = c + 1
  OBVIOUS
<1>3. size % size = 0
  OBVIOUS
<1> QED
  BY <1>1, <1>2, <1>3

(* The next host is not among those already gone round, and after it they  *)
(* are all the hosts, or as many as before and this one.                   *)
LEMMA RoundGrows ==
  ASSUME NEW size \in Nat, NEW c \in 0..size - 1, NEW first \in 0..size - 1
  PROVE  /\ c \notin Round(first, c, size)
         /\ Round(first, c, size) \subseteq 0..size - 1
         /\ \/ Round(first, c, size) \cup {c} = 0..size - 1
            \/ Round(first, c, size) \cup {c} = Round(first, (c + 1) % size, size)
<1>1. c \notin Round(first, c, size) /\ Round(first, c, size) \subseteq 0..size - 1
  BY DEF Round
<1>2. CASE c + 1 < size /\ first <= c
  <2>1. Round(first, c, size) = first..c - 1 /\ Round(first, c + 1, size) = first..c
    BY <1>2 DEF Round
  <2>2. (first..c - 1) \cup {c} = first..c
    BY <1>2
  <2> QED
    BY <1>1, <1>2, <2>1, <2>2, Modulus
<1>3. CASE c + 1 < size /\ first > c + 1
  <2>1. /\ Round(first, c, size) = (first..size - 1) \cup (0..c - 1)
        /\ Round(first, c + 1, size) = (first..size - 1) \cup (0..c)
    BY <1>3 DEF Round
  <2>2. (0..c - 1) \cup {c} = 0..c
    OBVIOUS
  <2> QED
    BY <1>1, <1>3, <2>1, <2>2, Modulus
<1>4. CASE first = c + 1
  <2>1. Round(first, c, size) = (first..size - 1) \cup (0..c - 1)
    BY <1>4 DEF Round
  <2>2. (first..size - 1) \cup (0..c - 1) \cup {c} = 0..size - 1
    BY <1>4
  <2> QED
    BY <1>1, <2>1, <2>2
<1>5. CASE c + 1 = size
  <2>1. Round(first, c, size) = first..c - 1 /\ (first..c - 1) \cup {c} = first..c
    BY <1>5 DEF Round
  <2>2. CASE first = 0
    <3>1. first..c = 0..size - 1
      BY <1>5, <2>2
    <3> QED
      BY <1>1, <2>1, <3>1
  <2>3. CASE first > 0
    <3>1. Round(first, 0, size) = (first..size - 1) \cup (0..-1)
      BY <2>3 DEF Round
    <3>2. (first..size - 1) \cup (0..-1) = first..c
      BY <1>5
    <3> QED
      BY <1>1, <1>5, <2>1, <3>1, <3>2, Modulus
  <2> QED
    BY <2>2, <2>3
<1> QED
  BY <1>2, <1>3, <1>4, <1>5

(* It preserves the invariant: the opener has begun one attempt more, and  *)
(* tried one host more unless it has tried them all.                       *)
LEMMA DialTurn ==
  ASSUME IInv, NEW o \in Openers, Dial(o)
  PROVE  IInv'
<1>1. /\ pc[o] = "loop" /\ ~NoOptions /\ UNCHANGED pool /\ alone' = alone \cap {o}
      /\ connections_num' = (connections_num + 1) % Len(pool.hosts)
  BY DialStep DEF IInv
<1>2. PICK l \in {"connect", "decide"}, w \in SUBSET Addresses, r \in {"ok", "unresolved"} :
        Own(o, l, attempt[o], w, tried[o] \cup {connections_num}, r)
  BY DialStep DEF IInv
<1>3. TypeOK /\ PoolOK /\ Turns /\ Ended /\ AddressesTried
  BY DEF IInv
<1>4. PICK d : d = tried[o] \cup {connections_num}
  OBVIOUS
<1>5. /\ pc'[o] = l /\ attempt'[o] = attempt[o] /\ waiting'[o] = w /\ tried'[o] = d
      /\ result'[o] = r
      /\ \A p \in Openers \ {o} : /\ pc'[p] = pc[p] /\ attempt'[p] = attempt[p]
                                  /\ waiting'[p] = waiting[p] /\ tried'[p] = tried[p]
                                  /\ result'[p] = result[p]
  BY <1>2, <1>3, <1>4, Owned
<1>6. Hosts' = Hosts /\ SendRetries' = SendRetries /\ NoOptions' = NoOptions
  BY <1>1 DEF Hosts, SendRetries, NoOptions
<1>7. PICK size \in Nat : /\ size = Len(pool.hosts) /\ Hosts = 0..size - 1
                          /\ size > 0 /\ connections_num \in 0..size - 1
  BY <1>1, <1>3, HostsOfPool
<1>8. PICK c \in 0..size - 1 : c = connections_num
  BY <1>7
<1>9. connections_num' = (c + 1) % size /\ (c + 1) % size \in 0..size - 1
  BY <1>1, <1>7, <1>8, Modulus
<1>10. attempt[o] \in 0..SendRetries /\ SendRetries \in Nat /\ tried[o] \in SUBSET Hosts
  BY <1>3 DEF TypeOK, PoolOK
<1>11. TypeOK' /\ PoolOK'
  <2>1. OwnOK(l, attempt[o], w, d, r)
    BY <1>4, <1>7, <1>10 DEF OwnOK, PCs
  <2>2. TypeOK'
    BY <1>1, <1>2, <1>3, <1>4, <1>7, <1>9, <2>1, OwnType
  <2> QED
    BY <1>1, <1>3, <1>6, <2>2 DEF PoolOK
<1>12. Ended' /\ AddressesTried'
  BY <1>3, <1>5, <1>6 DEF Ended, AddressesTried, IsIo
<1>13. Turns'
  <2>1. alone' \subseteq Openers /\ \A p \in alone' : p = o /\ o \in alone
    BY <1>1
  <2>2. ASSUME o \in alone
        PROVE  Turn(o)'
    <3>1. Turn(o)
      BY <1>3, <2>2 DEF Turns
    <3>2. CASE tried[o] = Hosts
      <4>1. d = Hosts
        BY <1>4, <1>7, <3>2
      <4> QED
        BY <1>5, <1>6, <4>1 DEF Turn
    <3>3. ASSUME NEW first \in 0..size - 1, tried[o] = Round(first, c, size),
                 Cardinality(tried[o]) >= Begun(pc[o], attempt[o])
          PROVE  Turn(o)'
      <4>1. /\ c \notin tried[o]
            /\ d = 0..size - 1 \/ d = Round(first, (c + 1) % size, size)
        BY <1>4, <1>8, <3>3, RoundGrows
      <4>2. IsFiniteSet(tried[o])
        <5>1. tried[o] \subseteq 0..size - 1 /\ size - 1 \in Int
          BY <1>7, <1>10
        <5>2. IsFiniteSet(0..size - 1)
          BY <5>1, FS_Interval
        <5> QED
          BY <5>1, <5>2, FS_Subset
      <4>3. Cardinality(tried[o]) \in Nat /\ Cardinality(d) = Cardinality(tried[o]) + 1
        BY <1>4, <1>8, <4>1, <4>2, FS_CardinalityType, FS_AddElement
      <4>4. Begun(pc[o], attempt[o]) = attempt[o] /\ Begun(l, attempt[o]) = attempt[o] + 1
        BY <1>1, <1>10 DEF Begun
      <4>5. Cardinality(d) >= Begun(l, attempt[o])
        BY <1>10, <3>3, <4>3, <4>4
      <4> QED
        BY <1>1, <1>5, <1>6, <1>7, <1>9, <4>1, <4>5 DEF Turn, Begun
    <3> QED
      BY <1>7, <1>8, <3>1, <3>2, <3>3 DEF Turn
  <2> QED
    BY <2>1, <2>2 DEF Turns
<1> QED
  BY <1>11, <1>12, <1>13 DEF IInv

-----------------------------------------------------------------------------
(* The theorems.                                                           *)

(* The invariant holds at the start, when nobody has opened anything.      *)
LEMMA IInvInit == Init => IInv
<1> SUFFICES ASSUME Init PROVE IInv
  OBVIOUS
<1>1. PICK source \in Sources : pool = PoolOf(get(source))
  BY DEF Init
<1>2. PoolOK
  BY <1>1, PoolOfOptions
<1>3. TypeOK
  <2>1. Len(pool.hosts) > 0 \/ NoOptions
    BY <1>2 DEF PoolOK
  <2>2. attempt \in [Openers -> 0..SendRetries]
    BY <1>2 DEF Init, PoolOK
  <2> QED
    BY <2>1, <2>2 DEF Init, TypeOK, PCs
<1>4. Turns /\ Ended /\ AddressesTried
  BY DEF Init, Turns, Ended, AddressesTried
<1> QED
  BY <1>2, <1>3, <1>4 DEF IInv

(* Every step preserves it.                                                *)
LEMMA IInvStep == IInv /\ [Next]_vars => IInv'
<1> SUFFICES ASSUME IInv, [Next]_vars PROVE IInv'
  OBVIOUS
<1>1. ASSUME NEW o \in Openers, Step(o) \/ Taken(o)
      PROVE  IInv'
  BY <1>1, DialTurn, QuietStep
<1>2. CASE UNCHANGED vars
  BY <1>2 DEF vars, IInv, TypeOK, PoolOK, Turns, Turn, Ended, AddressesTried, Begun, IsIo,
              Hosts, SendRetries, NoOptions
<1> QED
  BY <1>1, <1>2 DEF Next

(* So it is invariant.                                                     *)
LEMMA IInvHolds == Spec => []IInv
BY IInvInit, IInvStep, PTL DEF Spec

(* Type correctness: among others, an opener never counts more attempts    *)
(* than send_retries allows, and is never dealt a host the pool does not   *)
(* have.                                                                   *)
THEOREM RetryOpenTypeOK == Spec => []TypeOK
<1>1. IInv => TypeOK
  BY DEF IInv
<1> QED
  BY <1>1, IInvHolds, PTL

(* The hosts of the pool and the addresses of a host are tried before an   *)
(* open fails, for any number of each: a lone opener that servers closed   *)
(* on has tried every host, or one for each of its 1 + send_retries        *)
(* attempts, and a host refused connections at every one of its addresses. *)
THEOREM RetryOpenFailover == Spec => []Failover
<1>1. IInv => Failover
  <2> SUFFICES ASSUME IInv PROVE Failover
    OBVIOUS
  <2>1. ASSUME NEW o \in alone, pc[o] = "failed", result[o] = "closed", tried[o] # Hosts
        PROVE  Cardinality(tried[o]) > SendRetries
    <3>1. TypeOK /\ PoolOK /\ Turn(o) /\ o \in Openers
      BY <2>1 DEF IInv, Turns
    <3>2. attempt[o] >= SendRetries
      BY <2>1, <3>1 DEF IInv, Ended, IsIo
    <3>3. Cardinality(tried[o]) >= attempt[o] + 1
      BY <2>1, <3>1 DEF Turn, Begun
    <3>4. IsFiniteSet(tried[o])
      <4>1. PICK size \in Nat : Hosts = 0..size - 1
        BY <3>1, HostsOfPool
      <4>2. tried[o] \subseteq 0..size - 1 /\ size - 1 \in Int
        BY <3>1, <4>1 DEF TypeOK
      <4>3. IsFiniteSet(0..size - 1)
        BY <4>2, FS_Interval
      <4> QED
        BY <4>2, <4>3, FS_Subset
    <3>5. Cardinality(tried[o]) \in Nat
      BY <3>4, FS_CardinalityType
    <3>6. attempt[o] \in 0..SendRetries /\ SendRetries \in Nat
      BY <3>1 DEF TypeOK, PoolOK
    <3> QED
      BY <3>2, <3>3, <3>5, <3>6
  <2> QED
    BY <2>1 DEF Failover, HostsTried, IInv
<1> QED
  BY <1>1, IInvHolds, PTL

-----------------------------------------------------------------------------
(* Progress.  What an open has left to do: attempts, stages of the         *)
(* attempt, addresses to hear of.                                          *)
Stage == [new |-> 8, sleep |-> 7, loop |-> 6, connect |-> 5, tls |-> 4, hello |-> 3,
          decide |-> 2, opened |-> 1, failed |-> 1]
Measure(o)   == <<SendRetries - attempt[o], Stage[pc[o]], Cardinality(waiting[o])>>
Decreases(o) == \E i \in 1..3 : /\ Measure(o)'[i] < Measure(o)[i]
                                /\ \A j \in 1..i - 1 : Measure(o)'[j] = Measure(o)[j]
Idle(o) == UNCHANGED <<pc[o], attempt[o], waiting[o], tried[o], result[o]>>

OpenSteps == \A o \in Openers :
  \/ Idle(o) \/ Taken(o)
  \/ pc[o] = "decide" /\ result[o] = "reset"
  \/ Decreases(o)
OpenProgress == [][OpenSteps]_vars

(* One number less, and those before it the same.                          *)
LEMMA Lowers ==
  ASSUME NEW o
  PROVE  /\ SendRetries' - attempt'[o] < SendRetries - attempt[o] => Decreases(o)
         /\ SendRetries' - attempt'[o] = SendRetries - attempt[o] =>
            /\ Stage[pc'[o]] < Stage[pc[o]] => Decreases(o)
            /\ Stage[pc'[o]] = Stage[pc[o]] =>
               (Cardinality(waiting'[o]) < Cardinality(waiting[o]) => Decreases(o))
<1>1. /\ Measure(o)[1] = SendRetries - attempt[o] /\ Measure(o)[2] = Stage[pc[o]]
      /\ Measure(o)[3] = Cardinality(waiting[o])
      /\ Measure(o)'[1] = SendRetries' - attempt'[o] /\ Measure(o)'[2] = Stage[pc'[o]]
      /\ Measure(o)'[3] = Cardinality(waiting'[o])
  BY DEF Measure
<1>2. /\ \A j \in 1..1 - 1 : FALSE
      /\ \A j \in 1..2 - 1 : j = 1
      /\ \A j \in 1..3 - 1 : j = 1 \/ j = 2
  OBVIOUS
<1>3. \A i \in 1..3 :
        Measure(o)'[i] < Measure(o)[i] /\ (\A j \in 1..i - 1 : Measure(o)'[j] = Measure(o)[j])
        => Decreases(o)
  BY DEF Decreases
<1>4. 1 \in 1..3 /\ 2 \in 1..3 /\ 3 \in 1..3
  OBVIOUS
<1>5. SendRetries' - attempt'[o] < SendRetries - attempt[o] => Decreases(o)
  BY <1>1, <1>2, <1>3, <1>4
<1>6. ASSUME SendRetries' - attempt'[o] = SendRetries - attempt[o], Stage[pc'[o]] < Stage[pc[o]]
      PROVE  Decreases(o)
  <2>1. Measure(o)'[2] < Measure(o)[2] /\ \A j \in 1..2 - 1 : Measure(o)'[j] = Measure(o)[j]
    BY <1>1, <1>2, <1>6
  <2> QED
    BY <1>3, <1>4, <2>1
<1>7. ASSUME SendRetries' - attempt'[o] = SendRetries - attempt[o], Stage[pc'[o]] = Stage[pc[o]],
             Cardinality(waiting'[o]) < Cardinality(waiting[o])
      PROVE  Decreases(o)
  <2>1. Measure(o)'[3] < Measure(o)[3] /\ \A j \in 1..3 - 1 : Measure(o)'[j] = Measure(o)[j]
    BY <1>1, <1>2, <1>7
  <2> QED
    BY <1>3, <1>4, <2>1
<1> QED
  BY <1>5, <1>6, <1>7

(* An opener's step lowers what it has left to do, but for the return of   *)
(* its result and an attempt that was reset.                               *)
LEMMA StepLowers ==
  ASSUME TypeOK, PoolOK, NEW o \in Openers, Quiet(o) \/ Dial(o), UNCHANGED pool
  PROVE  \/ pc[o] \in {"opened", "failed"}
         \/ pc[o] = "decide" /\ result[o] = "reset"
         \/ Decreases(o)
<1>1. SendRetries' = SendRetries /\ SendRetries \in Nat /\ attempt[o] \in 0..SendRetries
  BY DEF SendRetries, PoolOK, TypeOK
<1>2. ASSUME NEW l, NEW w, NEW d, NEW r, Own(o, l, attempt[o], w, d, r), Stage[l] < Stage[pc[o]]
      PROVE  Decreases(o)
  BY <1>1, <1>2, Owned, Lowers
<1>3. IsIo \ Retriable = {"reset"}
  BY DEF IsIo, Retriable
<1>4. CASE Dial(o)
  <2>1. PICK l \in {"connect", "decide"}, w \in SUBSET Addresses, r \in {"ok", "unresolved"} :
          pc[o] = "loop" /\ Own(o, l, attempt[o], w, tried[o] \cup {connections_num}, r)
    BY <1>4, DialStep
  <2>2. Stage[l] < Stage[pc[o]]
    BY <2>1 DEF Stage
  <2> QED
    BY <1>2, <2>1, <2>2
<1>5. CASE pc[o] = "connect" /\ \E a \in waiting[o] :
             Own(o, "connect", attempt[o], waiting[o] \ {a}, tried[o], result[o])
  <2>1. PICK a \in waiting[o] :
          Own(o, "connect", attempt[o], waiting[o] \ {a}, tried[o], result[o])
    BY <1>5
  <2>2. pc'[o] = pc[o] /\ attempt'[o] = attempt[o] /\ waiting'[o] = waiting[o] \ {a}
    BY <1>5, <2>1, Owned
  <2>3. IsFiniteSet(waiting[o])
    BY AddressesAssumption, FS_Subset DEF TypeOK
  <2>4. Cardinality(waiting[o] \ {a}) = Cardinality(waiting[o]) - 1 /\ Cardinality(waiting[o]) \in Nat
    BY <2>1, <2>3, FS_RemoveElement, FS_CardinalityType
  <2>5. Cardinality(waiting'[o]) < Cardinality(waiting[o])
    BY <2>2, <2>4
  <2> QED
    BY <1>1, <2>2, <2>5, Lowers
<1>6. CASE /\ pc[o] = "decide" /\ ~(attempt[o] >= SendRetries)
           /\ Own(o, "sleep", attempt[o] + 1, waiting[o], tried[o], result[o])
  <2>1. attempt'[o] = attempt[o] + 1
    BY <1>6, Owned
  <2>2. SendRetries' - attempt'[o] < SendRetries - attempt[o]
    BY <1>1, <2>1
  <2> QED
    BY <2>2, Lowers
<1>7. CASE pc[o] = "new" /\ Own(o, "loop", attempt[o], waiting[o], tried[o], result[o])
  BY <1>2, <1>7 DEF Stage
<1>8. CASE /\ pc[o] = "loop" /\ NoOptions
           /\ Own(o, "decide", attempt[o], {}, tried[o], "misconfigured")
  BY <1>2, <1>8 DEF Stage
<1>9. CASE /\ pc[o] \in {"connect", "tls", "hello"}
           /\ \E r \in {"ok"} \cup Faults : Own(o, "decide", attempt[o], {}, tried[o], r)
  <2>1. Stage["decide"] < Stage[pc[o]]
    BY <1>9 DEF Stage
  <2> QED
    BY <1>2, <1>9, <2>1
<1>10. CASE pc[o] = "decide" /\ \E l \in {"opened", "failed"} :
              Own(o, l, attempt[o], waiting[o], tried[o], result[o])
  <2>1. \A l \in {"opened", "failed"} : Stage[l] < Stage[pc[o]]
    BY <1>10 DEF Stage
  <2> QED
    BY <1>2, <1>10, <2>1
<1>11. CASE pc[o] = "sleep" /\ Own(o, "loop", attempt[o], waiting[o], tried[o], result[o])
  BY <1>2, <1>11 DEF Stage
<1>12. CASE /\ pc[o] \in {"connect", "tls"}
            /\ \E l \in {"tls", "hello"} \ {pc[o]} :
                 Own(o, l, attempt[o], {}, tried[o], result[o])
  <2>1. \A l \in {"tls", "hello"} \ {pc[o]} : Stage[l] < Stage[pc[o]]
    BY <1>12 DEF Stage
  <2> QED
    BY <1>2, <1>12, <2>1
<1> QED
  BY <1>3, <1>4, <1>5, <1>6, <1>7, <1>8, <1>9, <1>10, <1>11, <1>12 DEF Quiet

(* Every step of an open leaves it less to do, of attempts, of stages of   *)
(* the attempt or of addresses to hear of, whatever the others do; but for *)
(* an attempt that ends in an I/O error that is not retriable, which is    *)
(* the one way round the loop of retry_open that is not counted.           *)
THEOREM RetryOpenProgress == Spec => OpenProgress
<1>1. IInv /\ [Next]_vars => [OpenSteps]_vars
  <2>1. SUFFICES ASSUME IInv, Next, NEW o \in Openers
                 PROVE  \/ Idle(o) \/ Taken(o) \/ Decreases(o)
                        \/ pc[o] = "decide" /\ result[o] = "reset"
    BY DEF OpenSteps
  <2>2. TypeOK /\ PoolOK
    BY <2>1 DEF IInv
  <2>3. PICK p \in Openers : Step(p) \/ Taken(p)
    BY <2>1 DEF Next
  <2>4. Quiet(p) \/ Dial(p)
    BY <2>2, <2>3, QuietSteps
  <2>5. UNCHANGED pool
    BY <2>2, <2>3, QuietSteps, DialStep
  <2>6. CASE p = o
    <3>1. CASE Taken(o)
      BY <3>1
    <3>2. CASE Step(o) /\ pc[o] \in {"opened", "failed"}
      BY <3>2 DEF Step, Start, Dial, Misconfigured, Connected, ConnectFails, Handshake, HelloEnds,
                  TimesOut, Return, Retry, Awake, TryAgain
    <3> QED
      BY <2>2, <2>3, <2>4, <2>5, <2>6, <3>1, <3>2, StepLowers
  <2>7. CASE p # o
    <3>1. \E l, a, w, d, r : Own(p, l, a, w, d, r)
      BY <2>2, <2>4, DialStep DEF Quiet
    <3> QED
      BY <2>2, <2>7, <3>1, Owned DEF Idle
  <2> QED
    BY <2>6, <2>7
<1> QED
  BY <1>1, IInvHolds, PTL DEF Spec, OpenProgress

(* The order of the numbers of a measure.                                  *)
Below == OpToRel(<, Nat)

(* What an open has left to do cannot become less for ever: it is three    *)
(* numbers, compared by the first that differs, so apart from the resets   *)
(* the loop of retry_open (pool/mod.rs) and the pass over the addresses    *)
(* in connect end.                                                         *)
THEOREM OpensFounded ==
  /\ IsWellFoundedOn(LexProductOrdering(Below, Nat, 3), [1..3 -> Nat])
  /\ TypeOK /\ PoolOK => \A o \in Openers : Measure(o) \in [1..3 -> Nat]
  /\ \A less, more \in [1..3 -> Nat] :
       (\E i \in 1..3 : less[i] < more[i] /\ \A j \in 1..i - 1 : less[j] = more[j])
         => <<less, more>> \in LexProductOrdering(Below, Nat, 3)
<1>1. IsWellFoundedOn(LexProductOrdering(Below, Nat, 3), [1..3 -> Nat])
  BY NatLessThanWellFounded, WFLexProductOrdering DEF Below
<1>2. ASSUME TypeOK, PoolOK, NEW o \in Openers  PROVE Measure(o) \in [1..3 -> Nat]
  <2>1. SendRetries - attempt[o] \in Nat
    BY <1>2 DEF TypeOK, PoolOK
  <2>2. Stage[pc[o]] \in Nat
    BY <1>2 DEF TypeOK, PCs, Stage
  <2>3. Cardinality(waiting[o]) \in Nat
    BY <1>2, AddressesAssumption, FS_Subset, FS_CardinalityType DEF TypeOK
  <2>4. \A a, b, c \in Nat : <<a, b, c>> \in [1..3 -> Nat]
    OBVIOUS
  <2> QED
    BY <2>1, <2>2, <2>3, <2>4 DEF Measure
<1>3. ASSUME NEW less \in [1..3 -> Nat], NEW more \in [1..3 -> Nat], NEW i \in 1..3,
             less[i] < more[i], \A j \in 1..i - 1 : less[j] = more[j]
      PROVE  <<less, more>> \in LexProductOrdering(Below, Nat, 3)
  <2>1. <<less[i], more[i]>> \in Below
    BY <1>3 DEF Below, OpToRel
  <2> QED
    BY <1>3, <2>1 DEF LexProductOrdering
<1> QED
  BY <1>1, <1>2, <1>3

=============================================================================
