-------------------------- MODULE TransportProofs --------------------------
(***************************************************************************)
(* Safety of Transport.tla for every number of requests and replies, with  *)
(* ping_before_query as the properties need it (README, 5).                *)
(*                                                                         *)
(* No single queue says whose packets are next: a command is in `cmds`, in *)
(* `wr` or on the wire, a reply on the wire or in `rd`, and a read may end *)
(* inside a packet.  So the invariant looks at the two directions whole,   *)
(* Out and In, and at how far the one request in progress has got: asked,  *)
(* running, answered, cut off by the end of the connection, or unsent.     *)
(*                                                                         *)
(* That a call ends is liveness, which is left to TLC; but what it rests   *)
(* on is shown at the end: each step of a call leaves it less to do, of    *)
(* which there is no endless descent, and a call that waits is answered.   *)
(***************************************************************************)
EXTENDS Transport, SequenceTheorems, WellFoundedInduction, TLAPS

Out == c2s \o t.wr \o t.cmds
In  == t.rd \o s2c

(* A transport given back by a block stream is still in that conversation. *)
Doing == IF op = "idle" /\ t.inconsistent THEN "blocks" ELSE op

(* What is asked for a reader, and the packets it may get and end on.      *)
Asks == [hello |-> "hello", ping |-> "ping", execute |-> "query", blocks |-> "query",
         clear |-> "query", header |-> "insert", tail |-> "data"]
Kinds(r) == CASE r = "hello"  -> {"hello", "exception"}
              [] r = "ping"   -> {"pong"}
              [] r = "header" -> {"columns", "block"}
              [] r = "tail"   -> {"eos", "exception"}
              [] OTHER        -> {"block", "progress", "eos", "exception"}
Ends(r)  == CASE r = "header" -> {"block"}
              [] r \in {"hello", "ping", "tail"} -> Kinds(r)
              [] OTHER -> {"eos", "exception"}

Stale(c)   == c.k \in {"cancel", "addendum"}
AllStale   == \A i \in 1..Len(Out) : Stale(Out[i])
Request(r) == [k |-> Asks[r], id |-> rid]

(* In which order commands leave: the request is the last of them, but for *)
(* the cancel of clear(); it follows what is stale only if it is a ping.   *)
Ordered(r) ==
  /\ Len(Out) <= 2 \/ r = "ping"
  /\ Len(Out) <= 1 \/ r \in {"ping", "clear"}
  /\ \A i \in 1..Len(Out) : Out[i] = Request(r) \/ Stale(Out[i])
  /\ r # "clear" => \A i \in 1..Len(Out) : Stale(Out[i]) <=> i < Len(Out)
  /\ r = "clear" /\ Len(Out) = 2 => Stale(Out[2])

Asked(r)    == /\ ~AllStale /\ In = <<>>
               /\ srv.st = IF r = "tail" THEN "insert" ELSE "idle"
Running(r)  == /\ AllStale /\ srv.st = "select" /\ Asks[r] = "query"
               /\ \A i \in 1..Len(In) : In[i].k \notin Ends(r)
Answered(r) == /\ AllStale /\ Len(In) >= 2
               /\ srv.st = IF r = "header" THEN "insert" ELSE "idle"
               /\ \A i \in 1..Len(In) : In[i].k \in Ends(r) <=> i >= Len(In) - 1
CutOff(r)   == /\ closed /\ srv.st = "idle"
               /\ ~AllStale => In = <<>>
               /\ \A i \in 1..Len(In) : In[i].k \in Ends(r) => i >= Len(In) - 1
Unsent(r)   == /\ r \in {"blocks", "clear"} /\ "query" \in Unencodable
               /\ AllStale /\ In = <<>> /\ srv.st = "idle"

Talk(r) ==
  /\ Len(In) % 2 = 0
  /\ \A i \in 1..Len(In) : In[i].id = rid /\ In[i].k \in Kinds(r)
  /\ srv.st # "idle" => srv.id = rid
  /\ Ordered(r)
  /\ Asked(r) \/ Running(r) \/ Answered(r) \/ CutOff(r) \/ Unsent(r)

Silent == AllStale /\ In = <<>> /\ srv.st = "idle"

Conversation ==
  IF Doing \in Readers THEN Talk(Doing) ELSE Silent

(* How far a call has got through its plan, and that the plan fits.        *)
Steps ==
  /\ Len(plan) = 2 => plan[1] = "ping" /\ op \in {"idle", "clear"}
  /\ op \notin {"idle", "clear", "ping"} => plan = <<>>
  /\ ~present => plan = <<>>
  /\ sent + Len(plan) <= MaxRequests

(* When a call but a ping begins, the ping before it has emptied the       *)
(* connection in both directions.                                          *)
Plan ==
  /\ plan # <<>> /\ plan[1] = "ping" => op \in {"idle", "clear"}
  /\ plan # <<>> /\ plan[1] # "ping" =>
       op = "ping" \/ (op = "idle" /\ ~t.inconsistent /\ Out = <<>>)
  /\ Len(plan) = 2 => plan[2] # "ping"
  /\ op = "clear" => t.inconsistent /\ plan # <<>>
  /\ op \notin {"idle", "clear"} => ~t.inconsistent
  /\ rid = sent

Fresh ==
  /\ closed => c2s = <<>> /\ srv.st = "idle"
  /\ ~present => /\ op \in {"idle", "panicked"}
                 /\ t = NewTransport /\ c2s = <<>> /\ s2c = <<>>
                 /\ srv = NewServer /\ ~closed
  /\ op = "panicked" => ~present
  /\ ~present \/ op = "hello" => sent = 0

IInv == TypeOK /\ Steps /\ Conversation /\ Plan /\ Fresh

-----------------------------------------------------------------------------
(* Sequences.                                                              *)

(* Only the empty queue holds nothing.                                     *)
LEMMA Nothing ==
  ASSUME NEW S, NEW s \in Seq(S), NEW n \in Nat, n = Len(s)
  PROVE  s = <<>> <=> n = 0
BY EmptySeq

(* Moving the border between two queues does not change what is in them.   *)
LEMMA Borders ==
  ASSUME NEW S, NEW a \in Seq(S), NEW b \in Seq(S), NEW c \in Seq(S)
  PROVE  /\ c # <<>> => a \o <<Head(c)>> \o Tail(c) = a \o <<>> \o c
         /\ (a \o b) \o <<>> \o c = a \o b \o c
         /\ \A x \in S : a \o b \o Append(c, x) = Append(a \o b \o c, x)
<1>1. ASSUME c # <<>>  PROVE a \o <<Head(c)>> \o Tail(c) = a \o <<>> \o c
  <2>1. Head(c) \in S /\ Tail(c) \in Seq(S) /\ <<Head(c)>> \in Seq(S)
    BY <1>1, HeadTailProperties
  <2>2. <<Head(c)>> \o Tail(c) = c
    <3>1. /\ <<Head(c)>> \o Tail(c) \in Seq(S) /\ Len(<<Head(c)>> \o Tail(c)) = Len(c)
          /\ \A i \in 1..Len(c) : (<<Head(c)>> \o Tail(c))[i] = c[i]
      BY <1>1, <2>1, ConcatProperties, HeadTailProperties, LenProperties
    <3> QED
      BY <3>1, SeqEqual
  <2> QED
    BY SMTT(30), <2>1, <2>2, ConcatAssociative, ConcatEmptySeq
<1>2. (a \o b) \o <<>> \o c = a \o b \o c
  BY ConcatProperties, ConcatEmptySeq
<1>3. ASSUME NEW x \in S  PROVE a \o b \o Append(c, x) = Append(a \o b \o c, x)
  <2>1. a \o b \in Seq(S) /\ a \o b \o c \in Seq(S) /\ <<x>> \in Seq(S)
    BY ConcatProperties
  <2> QED
    BY <2>1, ConcatAssociative, AppendIsConcat
<1> QED
  BY <1>1, <1>2, <1>3

(* Nor does a read, of as many packets as have arrived.                    *)
LEMMA ReadBorder ==
  ASSUME NEW S, NEW a \in Seq(S), NEW b \in Seq(S), NEW n \in 0..Len(b)
  PROVE  (a \o SubSeq(b, 1, n)) \o SubSeq(b, n + 1, Len(b)) = a \o b
<1>1. Len(b) \in Nat /\ \A i \in 1..Len(b) : b[i] \in S
  BY LenProperties, ElementOfSeq
<1>2. SubSeq(b, 1, n) \in Seq(S) /\ SubSeq(b, n + 1, Len(b)) \in Seq(S)
  BY <1>1
<1>3. SubSeq(b, 1, n) \o SubSeq(b, n + 1, Len(b)) = SubSeq(b, 1, Len(b))
  <2>1. 1 \in 1..Len(b) + 1 /\ n \in 1 - 1..Len(b) /\ Len(b) \in n..Len(b)
    BY <1>1
  <2> QED
    BY <2>1, ConcatAdjacentSubSeq
<1>4. SubSeq(b, 1, n) \o SubSeq(b, n + 1, Len(b)) = b
  BY <1>3, SubSeqFull
<1>5. ASSUME NEW s \in Seq(S), NEW u \in Seq(S), s \o u = b  PROVE (a \o s) \o u = a \o b
  <2>1. (a \o s) \o u = a \o (s \o u)
    BY SMTT(30), ConcatAssociative
  <2> QED
    BY <1>5, <2>1
<1> QED
  BY <1>2, <1>4, <1>5

(* The front of a queue, and what is left of the whole when it is taken.   *)
LEMMA Fronts ==
  ASSUME NEW S, NEW a \in Seq(S), NEW b \in Seq(S), a # <<>>
  PROVE  /\ (a \o b)[1] = Head(a) /\ Head(a) = a[1] /\ Head(a) \in S
         /\ Len(a \o b) \in Nat \ {0} /\ a \o b \in Seq(S)
         /\ Tail(a) \in Seq(S) /\ Tail(a) \o b = Tail(a \o b)
<1>1. Len(a) \in Nat \ {0} /\ Len(b) \in Nat
  BY EmptySeq, LenProperties
<1>2. /\ a \o b \in Seq(S) /\ Len(a \o b) = Len(a) + Len(b)
      /\ \A i \in 1..Len(a) + Len(b) : (a \o b)[i] = IF i <= Len(a) THEN a[i] ELSE b[i - Len(a)]
  BY ConcatProperties
<1>3. a \o b # <<>>
  BY <1>1, <1>2, EmptySeq
<1>4. Tail(a) \in Seq(S) /\ Len(Tail(a)) = Len(a) - 1 /\ \A i \in 1..Len(a) - 1 : Tail(a)[i] = a[i + 1]
  BY HeadTailProperties
<1>5. /\ Tail(a \o b) \in Seq(S) /\ Len(Tail(a \o b)) = Len(a) + Len(b) - 1
      /\ \A i \in 1..Len(a) + Len(b) - 1 : Tail(a \o b)[i] = (a \o b)[i + 1]
  BY <1>2, <1>3, HeadTailProperties
<1>6. /\ Tail(a) \o b \in Seq(S) /\ Len(Tail(a) \o b) = Len(a) - 1 + Len(b)
      /\ \A i \in 1..Len(a) - 1 + Len(b) :
           (Tail(a) \o b)[i] = IF i <= Len(a) - 1 THEN Tail(a)[i] ELSE b[i - (Len(a) - 1)]
  BY <1>4, ConcatProperties
<1>7. \A i \in 1..Len(a) - 1 + Len(b) : (Tail(a) \o b)[i] = Tail(a \o b)[i]
  <2> TAKE i \in 1..Len(a) - 1 + Len(b)
  <2>1. CASE i <= Len(a) - 1
    BY <1>1, <1>2, <1>4, <1>5, <1>6, <2>1
  <2>2. CASE i > Len(a) - 1
    <3>1. (Tail(a) \o b)[i] = b[i - (Len(a) - 1)]
      BY <1>1, <1>6, <2>2
    <3>2. Tail(a \o b)[i] = b[(i + 1) - Len(a)]
      BY <1>1, <1>2, <1>5, <2>2
    <3> QED
      BY <1>1, <3>1, <3>2
  <2> QED
    BY <1>1, <2>1, <2>2
<1>8. Tail(a) \o b = Tail(a \o b)
  BY <1>1, <1>5, <1>6, <1>7, SeqEqual
<1> QED
  BY <1>1, <1>2, <1>4, <1>8, HeadTailProperties

(* Joining under a name of its own, so that a queue joined is one queue.   *)
Then(a, b) == a \o b

(* The front of a queue is the front of all that is joined to it.          *)
LEMMA Front ==
  ASSUME NEW S, NEW a \in Seq(S), NEW b \in Seq(S), a # <<>>
  PROVE  /\ Then(a, b)[1] = a[1] /\ Head(a) = a[1] /\ Then(a, b) # <<>>
         /\ Then(a, b) \in Seq(S) /\ Then(Tail(a), b) = Tail(Then(a, b))
<1>1. a \o b # <<>>
  <2>1. Len(a \o b) \in Nat \ {0} /\ a \o b \in Seq(S)
    BY Fronts
  <2> QED
    BY <2>1, Nothing
<1> QED
  BY SMTT(30), <1>1, Fronts DEF Then

(* The same of three queues in a row.                                      *)
LEMMA FrontOfThree ==
  ASSUME NEW S, NEW a \in Seq(S), NEW b \in Seq(S), NEW c \in Seq(S), a # <<>>
  PROVE  /\ Then(Then(a, b), c)[1] = Head(a) /\ Then(Then(a, b), c) # <<>>
         /\ Then(Then(Tail(a), b), c) = Tail(Then(Then(a, b), c))
<1>1. PICK d \in Seq(S) : d = Then(a, b) /\ d # <<>> /\ d[1] = a[1] /\ Then(Tail(a), b) = Tail(d)
  BY Front
<1>2. Then(d, c)[1] = d[1] /\ Then(d, c) # <<>> /\ Then(Tail(d), c) = Tail(Then(d, c))
  BY <1>1, Front
<1> QED
  BY <1>1, <1>2, Front

(* A packet is taken from the front, two parts at once.                    *)
LEMMA TakesTwo ==
  ASSUME NEW S, NEW a \in Seq(S), NEW b \in Seq(S), 2 <= Len(a)
  PROVE  /\ SubSeq(a, 3, Len(a)) \in Seq(S)
         /\ SubSeq(a, 3, Len(a)) \o b = SubSeq(a \o b, 3, Len(a \o b))
         /\ Len(a \o b) >= 2 /\ Head(a) = (a \o b)[1]
<1>1. Len(a) \in Nat /\ Len(b) \in Nat
  BY LenProperties
<1>2. /\ a \o b \in Seq(S) /\ Len(a \o b) = Len(a) + Len(b)
      /\ \A i \in 1..Len(a) + Len(b) : (a \o b)[i] = IF i <= Len(a) THEN a[i] ELSE b[i - Len(a)]
  BY ConcatProperties
<1>3. ASSUME NEW s \in Seq(S), 2 <= Len(s)
      PROVE  /\ SubSeq(s, 3, Len(s)) \in Seq(S) /\ Len(SubSeq(s, 3, Len(s))) = Len(s) - 2
             /\ \A i \in 1..Len(s) - 2 : SubSeq(s, 3, Len(s))[i] = s[i + 2]
  <2>1. Len(s) \in Nat /\ \A i \in 3..Len(s) : s[i] \in S
    BY LenProperties, ElementOfSeq
  <2>2. SubSeq(s, 3, Len(s)) \in Seq(S)
    BY <2>1
  <2>3. Len(SubSeq(s, 3, Len(s))) = Len(s) - 2
    <3>1. PICK n \in Nat : n = Len(s)
      BY <2>1
    <3>2. n \in Int /\ 3 \in Int /\ 2 <= n
      BY <1>3, <3>1
    <3>3. Len(SubSeq(s, 3, n)) = IF 3 <= n THEN n - 3 + 1 ELSE 0
      BY <2>1, <3>1, <3>2, SubSeqProperties
    <3> QED
      BY <3>1, <3>2, <3>3
  <2>4. \A i \in 1..Len(s) - 2 : SubSeq(s, 3, Len(s))[i] = s[i + 2]
    BY <1>3, <2>1
  <2> QED
    BY <2>2, <2>3, <2>4
<1>4. Len(a \o b) >= 2 /\ Head(a) = (a \o b)[1]
  BY <1>1, <1>2
<1>5. /\ SubSeq(a, 3, Len(a)) \in Seq(S) /\ Len(SubSeq(a, 3, Len(a))) = Len(a) - 2
      /\ \A i \in 1..Len(a) - 2 : SubSeq(a, 3, Len(a))[i] = a[i + 2]
  BY <1>3
<1>6. /\ SubSeq(a, 3, Len(a)) \o b \in Seq(S)
      /\ Len(SubSeq(a, 3, Len(a)) \o b) = Len(a) - 2 + Len(b)
      /\ \A i \in 1..Len(a) - 2 + Len(b) : (SubSeq(a, 3, Len(a)) \o b)[i] =
            IF i <= Len(a) - 2 THEN SubSeq(a, 3, Len(a))[i] ELSE b[i - (Len(a) - 2)]
  BY <1>5, ConcatProperties
<1>7. /\ SubSeq(a \o b, 3, Len(a \o b)) \in Seq(S)
      /\ Len(SubSeq(a \o b, 3, Len(a \o b))) = Len(a) - 2 + Len(b)
      /\ \A i \in 1..Len(a) - 2 + Len(b) : SubSeq(a \o b, 3, Len(a \o b))[i] = (a \o b)[i + 2]
  BY <1>1, <1>2, <1>3, <1>4
<1>8. \A i \in 1..Len(a) - 2 + Len(b) :
        (SubSeq(a, 3, Len(a)) \o b)[i] = SubSeq(a \o b, 3, Len(a \o b))[i]
  <2> TAKE i \in 1..Len(a) - 2 + Len(b)
  <2>1. CASE i <= Len(a) - 2
    BY <1>1, <1>2, <1>5, <1>6, <1>7, <2>1
  <2>2. CASE i > Len(a) - 2
    <3>1. (SubSeq(a, 3, Len(a)) \o b)[i] = b[i - (Len(a) - 2)]
      BY <1>1, <1>6, <2>2
    <3>2. SubSeq(a \o b, 3, Len(a \o b))[i] = b[(i + 2) - Len(a)]
      BY <1>1, <1>2, <1>7, <2>2
    <3> QED
      BY <1>1, <3>1, <3>2
  <2> QED
    BY <1>1, <2>1, <2>2
<1> QED
  BY <1>1, <1>4, <1>5, <1>6, <1>7, <1>8, SeqEqual

(* What is left of a queue whose front is dropped is its end.              *)
Suffix(s, u) == \E n \in Nat : /\ Len(u) = n + Len(s)
                               /\ \A i \in 1..Len(s) : s[i] = u[n + i]

(* The first queue dropped, nothing dropped, and the second of three when  *)
(* the first is empty.                                                     *)
LEMMA Dropped ==
  ASSUME NEW S, NEW a \in Seq(S), NEW b \in Seq(S), NEW c \in Seq(S)
  PROVE  /\ Suffix(<<>> \o b \o c, a \o b \o c)
         /\ Suffix(a, a)
         /\ a = <<>> => Suffix(a \o <<>> \o c, a \o b \o c)
<1>1. /\ a \o b \in Seq(S) /\ b \o c \in Seq(S) /\ a \o b \o c = a \o (b \o c)
      /\ <<>> \o b \o c = b \o c
  BY ConcatProperties, ConcatAssociative, ConcatEmptySeq
<1>2. ASSUME NEW s \in Seq(S), NEW u \in Seq(S)  PROVE Suffix(u, s \o u)
  <2>1. /\ Len(s) \in Nat /\ Len(u) \in Nat /\ Len(s \o u) = Len(s) + Len(u)
        /\ \A i \in 1..Len(s) + Len(u) : (s \o u)[i] = IF i <= Len(s) THEN s[i] ELSE u[i - Len(s)]
    BY LenProperties, ConcatProperties
  <2>2. \A i \in 1..Len(u) : u[i] = (s \o u)[Len(s) + i]
    BY <2>1
  <2> QED
    BY <2>1, <2>2 DEF Suffix
<1>3. Suffix(a, a)
  <2>1. Len(a) \in Nat /\ \A i \in 1..Len(a) : a[i] = a[0 + i]
    BY LenProperties
  <2> QED
    BY <2>1 DEF Suffix
<1>4. ASSUME a = <<>>  PROVE Suffix(a \o <<>> \o c, a \o b \o c)
  <2>1. a \o <<>> \o c = c /\ a \o b \o c = b \o c
    BY <1>1, <1>4, ConcatEmptySeq
  <2> QED
    BY <1>2, <2>1
<1> QED
  BY <1>1, <1>2, <1>3, <1>4

(* A front that is taken leaves the end.                                   *)
LEMMA TailSuffix ==
  ASSUME NEW S, NEW a \in Seq(S), a # <<>>
  PROVE  Suffix(Tail(a), a)
<1>1. PICK n \in Nat : n = Len(a) /\ n > 0
  BY LenProperties, EmptySeq
<1>2. PICK m \in Nat : m = Len(Tail(a)) /\ m = n - 1
  BY <1>1, HeadTailProperties
<1>3. n = 1 + m /\ \A i \in 1..m : Tail(a)[i] = a[1 + i]
  BY <1>1, <1>2, HeadTailProperties
<1> QED
  BY <1>1, <1>2, <1>3 DEF Suffix

(* Nothing leaves nothing.                                                 *)
LEMMA SuffixOfNone ==
  ASSUME NEW S, NEW a \in Seq(S), NEW b, b = <<>>, Suffix(a, b)
  PROVE  a = <<>>
<1>1. PICK n \in Nat : n = Len(a)
  BY LenProperties
<1>2. Len(b) = 0
  OBVIOUS
<1>3. PICK d \in Nat : Len(b) = d + n
  BY <1>1 DEF Suffix
<1> QED
  BY <1>1, <1>2, <1>3, Nothing


-----------------------------------------------------------------------------
(* The conversation, whatever action moves its packets.                    *)

(* Joining queues gives a queue.                                           *)
LEMMA Joined ==
  ASSUME NEW S, NEW a \in Seq(S), NEW b \in Seq(S), NEW c \in Seq(S)
  PROVE  /\ a \o b \in Seq(S) /\ Len(a \o b) \in Nat
         /\ a \o b \o c \in Seq(S) /\ Len(a \o b \o c) \in Nat
BY ConcatProperties, LenProperties

(* The types of the queues, and of both directions whole.                  *)
LEMMA Queues ==
  ASSUME TypeOK
  PROVE  /\ t.cmds \in Seq(Cmd) /\ t.wr \in Seq(Cmd) /\ c2s \in Seq(Cmd)
         /\ t.rd \in Seq(Part) /\ s2c \in Seq(Part)
         /\ Out \in Seq(Cmd) /\ In \in Seq(Part) /\ Len(Out) \in Nat /\ Len(In) \in Nat
BY Joined DEF TypeOK, Out, In

(* The same after a step.                                                  *)
LEMMA QueuesNext ==
  ASSUME TypeOK'
  PROVE  Out' \in Seq(Cmd) /\ In' \in Seq(Part) /\ Len(Out') \in Nat /\ Len(In') \in Nat
BY Joined DEF TypeOK, Out, In

(* The words of the protocol, reader by reader.                            *)
LEMMA Words ==
  ASSUME NEW r \in Readers
  PROVE  /\ Ends(r) \subseteq Kinds(r)
         /\ Asks[r] = "query" => /\ r \in {"execute", "blocks", "clear"}
                                 /\ Kinds(r) = {"block", "progress", "eos", "exception"}
                                 /\ Ends(r) = {"eos", "exception"}
         /\ Asks[r] \notin {"cancel", "addendum"} /\ Asks[r] \in CmdKinds
         /\ Skipped[r] \cap Ends(r) = {} /\ Last[r] \cap Kinds(r) \subseteq Ends(r)
BY DEF Readers, Ends, Kinds, Asks, Skipped, Last, CmdKinds

(* A step that touches neither the directions nor the server.              *)
LEMMA Undisturbed ==
  ASSUME NEW r \in Readers, Talk(r), Out' = Out, In' = In, UNCHANGED <<srv, closed, rid>>
  PROVE  Talk(r)'
BY DEF Talk, Ordered, Request, Stale, AllStale, Asked, Running, Answered, CutOff, Unsent

(* Commands taken from the front, or lost, leave the others in order.      *)
LEMMA StaysOrdered ==
  ASSUME TypeOK, TypeOK', NEW r \in Readers, Ordered(r), Suffix(Out', Out), rid' = rid
  PROVE  Ordered(r)' /\ (AllStale => AllStale')
<1>1. PICK n \in Nat : n = Len(Out)
  BY Queues
<1>2. PICK n1 \in Nat : n1 = Len(Out')
  BY QueuesNext
<1>3. PICK d \in Nat : n = d + n1 /\ \A i \in 1..n1 : Out'[i] = Out[d + i]
  BY <1>1, <1>2 DEF Suffix
<1>4. \A i \in 1..n1 : d + i \in 1..n /\ (d + i < n <=> i < n1)
  BY <1>3
<1>5. \A i \in 1..n1 : Stale(Out'[i]) <=> Stale(Out[d + i])
  BY <1>3 DEF Stale
<1>6. /\ n <= 2 \/ r = "ping"
      /\ n <= 1 \/ r \in {"ping", "clear"}
      /\ \A i \in 1..n : Out[i] = Request(r) \/ Stale(Out[i])
      /\ r # "clear" => \A i \in 1..n : Stale(Out[i]) <=> i < n
      /\ r = "clear" /\ n = 2 => Stale(Out[2])
  BY <1>1 DEF Ordered
<1>7. n1 <= n
  BY <1>3
<1>8. \A i \in 1..n1 : Out'[i] = Request(r)' \/ Stale(Out'[i])
  BY <1>3, <1>4, <1>5, <1>6 DEF Request
<1>9. r # "clear" => \A i \in 1..n1 : Stale(Out'[i]) <=> i < n1
  BY <1>4, <1>5, <1>6
<1>10. r = "clear" /\ n1 = 2 => Stale(Out'[2])
  <2>1. r = "clear" /\ n1 = 2 => n <= 2 /\ d = 0 /\ n = 2
    BY <1>3, <1>6
  <2> QED
    BY <1>3, <1>6, <2>1
<1>11. Ordered(r)'
  BY <1>2, <1>6, <1>7, <1>8, <1>9, <1>10 DEF Ordered
<1>12. AllStale => AllStale'
  BY <1>1, <1>2, <1>4, <1>5 DEF AllStale
<1> QED
  BY <1>11, <1>12

(* Nothing new to say is left by taking commands away.                     *)
LEMMA StaysStale ==
  ASSUME TypeOK, TypeOK', AllStale, Suffix(Out', Out)
  PROVE  AllStale'
<1>1. PICK n \in Nat, n1 \in Nat : n = Len(Out) /\ n1 = Len(Out')
  BY Queues, QueuesNext
<1>2. PICK d \in Nat : n = d + n1 /\ \A i \in 1..n1 : Out'[i] = Out[d + i]
  BY <1>1 DEF Suffix
<1>3. \A i \in 1..n1 : d + i \in 1..n
  BY <1>2
<1> QED
  BY <1>1, <1>2, <1>3 DEF AllStale

(* The connection ends, and with it what is on its way to the server.      *)
LEMMA Cut ==
  ASSUME TypeOK, TypeOK', NEW r \in Readers, Talk(r), closed => srv.st = "idle",
         Suffix(Out', Out), In' = In, rid' = rid, closed', srv'.st = "idle"
  PROVE  Talk(r)'
<1>1. Ordered(r)' /\ (AllStale => AllStale')
  BY StaysOrdered DEF Talk
<1>2. CutOff(r)'
  BY <1>1 DEF Talk, Asked, Running, Answered, CutOff, Unsent
<1> QED
  BY <1>1, <1>2 DEF Talk

(* The server drops a command that says nothing to it.                     *)
LEMMA Ignored ==
  ASSUME TypeOK, TypeOK', NEW r \in Readers, Talk(r), Out # <<>>, Stale(Out[1]),
         Out' = Tail(Out), In' = In, UNCHANGED <<srv, closed, rid>>
  PROVE  Talk(r)'
<1>1. PICK n \in Nat : n = Len(Out) /\ Out \in Seq(Cmd)
  BY Queues
<1>2. n > 0 /\ Len(Out') = n - 1 /\ \A i \in 1..n - 1 : Out'[i] = Out[i + 1]
  BY <1>1, HeadTailProperties, EmptySeq
<1>3. Suffix(Out', Out)
  <2>1. PICK n1 \in Nat : n1 = Len(Out')
    BY QueuesNext
  <2>2. n = 1 + n1 /\ \A i \in 1..n1 : Out'[i] = Out[1 + i]
    BY <1>2, <2>1
  <2> QED
    BY <1>1, <2>1, <2>2 DEF Suffix
<1>4. Ordered(r)' /\ (AllStale => AllStale')
  BY <1>3, StaysOrdered DEF Talk
<1>5. ~AllStale => ~AllStale'
  <2>1. SUFFICES ASSUME AllStale'  PROVE AllStale
    OBVIOUS
  <2>2. \A i \in 1..n - 1 : Stale(Out'[i])
    BY <1>2, <2>1 DEF AllStale
  <2>3. \A i \in 1..n : i = 1 \/ (i - 1 \in 1..n - 1 /\ Out[i] = Out'[i - 1])
    BY <1>1, <1>2
  <2>4. \A i \in 1..n : Stale(Out[i])
    BY <2>2, <2>3 DEF Stale
  <2> QED
    BY <1>1, <2>4 DEF AllStale
<1> QED
  BY <1>4, <1>5 DEF Talk, Asked, Running, Answered, CutOff, Unsent

(* The server takes the request: nothing has been said in reply so far.    *)
LEMMA Heard ==
  ASSUME TypeOK, TypeOK', NEW r \in Readers, Talk(r), Out # <<>>, ~Stale(Out[1]),
         Out' = Tail(Out), rid' = rid
  PROVE  /\ Out[1] = Request(r) /\ ~AllStale /\ In = <<>>
         /\ ~closed => srv.st = IF r = "tail" THEN "insert" ELSE "idle"
         /\ Ordered(r)' /\ AllStale' /\ (r # "clear" => Out' = <<>>)
<1>1. PICK n \in Nat : n = Len(Out) /\ Out \in Seq(Cmd)
  BY Queues
<1>2. n > 0 /\ Len(Out') = n - 1 /\ \A i \in 1..n - 1 : Out'[i] = Out[i + 1]
  BY <1>1, HeadTailProperties, EmptySeq
<1>3. PICK n1 \in Nat : n1 = Len(Out') /\ Out' \in Seq(Cmd)
  BY QueuesNext
<1>4. Suffix(Out', Out)
  <2>2. n = 1 + n1 /\ \A i \in 1..n1 : Out'[i] = Out[1 + i]
    BY <1>2, <1>3
  <2> QED
    BY <1>1, <1>3, <2>2 DEF Suffix
<1>5. Ordered(r)'
  BY <1>4, StaysOrdered DEF Talk
<1>6. /\ n <= 2 \/ r = "ping"
      /\ \A i \in 1..n : Out[i] = Request(r) \/ Stale(Out[i])
      /\ r # "clear" => \A i \in 1..n : Stale(Out[i]) <=> i < n
      /\ r = "clear" /\ n = 2 => Stale(Out[2])
  BY <1>1 DEF Talk, Ordered
<1>7. Out[1] = Request(r) /\ ~AllStale
  BY <1>1, <1>2, <1>6 DEF AllStale
<1>8. In = <<>> /\ (~closed => srv.st = IF r = "tail" THEN "insert" ELSE "idle")
  BY <1>7 DEF Talk, Asked, Running, Answered, CutOff, Unsent
<1>9. r # "clear" => n1 = 0
  BY <1>2, <1>3, <1>6
<1>10. r # "clear" => Out' = <<>>
  BY <1>3, <1>9, EmptySeq
<1>11. AllStale'
  <2>1. r # "clear" => \A i \in 1..n1 : Stale(Out'[i])
    BY <1>9
  <2>3. ASSUME NEW i \in 1..n1, r = "clear"  PROVE Stale(Out'[i])
    <3>1. n <= 2
      BY <1>6, <2>3
    <3>2. n1 = n - 1
      BY <1>2, <1>3
    <3>3. i = 1 /\ n = 2
      BY <3>1, <3>2
    <3>4. Stale(Out[2])
      BY <1>6, <2>3, <3>3
    <3>5. Out'[1] = Out[2]
      <4>1. 1 \in 1..n - 1 /\ 1 + 1 = 2
        BY <3>3
      <4> QED
        BY ONLY <1>2, <4>1
    <3> QED
      BY <3>3, <3>4, <3>5
  <2>4. \A i \in 1..n1 : Stale(Out'[i])
    BY <2>1, <2>3
  <2> QED
    BY <1>3, <2>4 DEF AllStale
<1> QED
  BY <1>5, <1>7, <1>8, <1>10, <1>11


(* A packet is read: one that does not end the reply leaves the            *)
(* conversation where it is, one that does is the last of it.              *)
LEMMA Delivered ==
  ASSUME TypeOK, TypeOK', NEW r \in Readers, Talk(r), 2 <= Len(In),
         In' = SubSeq(In, 3, Len(In))
  PROVE  /\ In[1].k \in Kinds(r)
         /\ In[1].k \notin Ends(r) /\ Out' = Out /\ UNCHANGED <<srv, closed, rid>> => Talk(r)'
         /\ In[1].k \in Ends(r) =>
              /\ AllStale /\ In' = <<>>
              /\ srv.st = "idle" \/ (r = "header" /\ srv.st = "insert")
              /\ r = "header" => srv.st = "insert" \/ closed
<1>1. PICK m \in Nat : m = Len(In) /\ In \in Seq(Part)
  BY Queues
<1>2. PICK m1 \in Nat : m1 = Len(In') /\ In' \in Seq(Part)
  BY QueuesNext
<1>3. 2 <= m /\ m = m1 + 2 /\ \A i \in 1..m1 : In'[i] = In[i + 2]
  <2>1. 2 <= m /\ m \in Int /\ \A i \in 3..m : In[i] \in Part
    BY <1>1, ElementOfSeq
  <2>2. Len(SubSeq(In, 3, m)) = IF 3 <= m THEN m - 3 + 1 ELSE 0
    BY <1>1, <2>1, SubSeqProperties
  <2>3. \A i \in 1..m - 3 + 1 : SubSeq(In, 3, m)[i] = In[3 + i - 1]
    BY <1>1, <2>1, SubSeqProperties
  <2>4. m = m1 + 2
    BY <1>1, <1>2, <2>1, <2>2
  <2> QED
    BY <1>1, <2>1, <2>3, <2>4
<1>4. m % 2 = 0 /\ m1 % 2 = 0
  BY <1>1, <1>3 DEF Talk
<1>5. In # <<>> /\ \A i \in 1..m : In[i].id = rid /\ In[i].k \in Kinds(r)
  <2>1. In # <<>>
    <3>1. m \in Nat /\ m # 0
      BY <1>3
    <3> QED
      BY ONLY <1>1, <3>1, Nothing
  <2> QED
    BY <1>1, <2>1 DEF Talk
<1>6. \/ Running(r) /\ \A i \in 1..m : In[i].k \notin Ends(r)
      \/ Answered(r) /\ \A i \in 1..m : In[i].k \in Ends(r) <=> i >= m - 1
      \/ CutOff(r) /\ AllStale /\ \A i \in 1..m : In[i].k \in Ends(r) => i >= m - 1
  BY <1>1, <1>5 DEF Talk, Asked, Running, Answered, CutOff, Unsent
<1>7. \A i \in 1..m1 : i + 2 \in 1..m /\ (i + 2 >= m - 1 <=> i >= m1 - 1)
  BY <1>3
<1>8. ASSUME In[1].k \notin Ends(r), Out' = Out, UNCHANGED <<srv, closed, rid>>
      PROVE  Talk(r)'
  <2>1. \A i \in 1..m1 : In'[i].id = rid' /\ In'[i].k \in Kinds(r)
    BY <1>3, <1>5, <1>7, <1>8
  <2>2. Ordered(r)' /\ AllStale' = AllStale
    BY <1>8 DEF Talk, Ordered, Request, AllStale
  <2>3. CASE Running(r) /\ \A i \in 1..m : In[i].k \notin Ends(r)
    <3>1. \A i \in 1..m1 : In'[i].k \notin Ends(r)
      BY <1>3, <1>7, <2>3
    <3>2. Running(r)'
      BY <1>2, <1>8, <2>2, <2>3, <3>1 DEF Running
    <3> QED
      BY <1>2, <1>4, <1>8, <2>1, <2>2, <3>2 DEF Talk
  <2>4. CASE Answered(r) /\ \A i \in 1..m : In[i].k \in Ends(r) <=> i >= m - 1
    <3>1. \A i \in 1..m1 : In'[i].k \in Ends(r) <=> i >= m1 - 1
      BY <1>3, <1>7, <2>4
    <3>2. m1 >= 2
      BY <1>3, <1>4, <1>8, <2>4
    <3>3. Answered(r)'
      BY <1>2, <1>8, <2>2, <2>4, <3>1, <3>2 DEF Answered
    <3> QED
      BY <1>2, <1>4, <1>8, <2>1, <2>2, <3>3 DEF Talk
  <2>5. CASE CutOff(r) /\ AllStale /\ \A i \in 1..m : In[i].k \in Ends(r) => i >= m - 1
    <3>1. \A i \in 1..m1 : In'[i].k \in Ends(r) => i >= m1 - 1
      BY <1>3, <1>7, <2>5
    <3>2. CutOff(r)'
      BY <1>2, <1>8, <2>2, <2>5, <3>1 DEF CutOff
    <3> QED
      BY <1>2, <1>4, <1>8, <2>1, <2>2, <3>2 DEF Talk
  <2> QED
    BY <1>6, <2>3, <2>4, <2>5
<1>9. ASSUME In[1].k \in Ends(r)
      PROVE  /\ AllStale /\ In' = <<>>
             /\ srv.st = "idle" \/ (r = "header" /\ srv.st = "insert")
             /\ r = "header" => srv.st = "insert" \/ closed
  <2>1. 1 \in 1..m
    BY <1>3
  <2>2. m <= 2
    BY <1>6, <1>9, <2>1
  <2>3. In' = <<>>
    BY <1>2, <1>3, <2>2, EmptySeq
  <2>4. Answered(r) \/ (CutOff(r) /\ AllStale)
    BY <1>6, <1>9, <2>1
  <2> QED
    BY <2>3, <2>4 DEF Answered, CutOff
<1>10. In[1].k \in Kinds(r)
  BY <1>3, <1>5
<1> QED
  BY <1>8, <1>9, <1>10


-----------------------------------------------------------------------------
(* Type correctness, and the bound on what is planned.                     *)
Transports == [cmds : Seq(Cmd), wr : Seq(Cmd), rd : Seq(Part),
               buf_is_incomplete : BOOLEAN, inconsistent : BOOLEAN]

(* A packet in two parts, at the end of a queue.                           *)
LEMMA Packet ==
  ASSUME NEW a \in Seq(Part), NEW k \in PktKinds, NEW id \in 0..MaxRequests
  PROVE  /\ a \o Packets(k, id) \in Seq(Part) /\ Len(a \o Packets(k, id)) = Len(a) + 2
         /\ Packets(k, id) \in Seq(Part)
         /\ \A i \in 1..Len(a) : (a \o Packets(k, id))[i] = a[i]
         /\ \A i \in {Len(a) + 1, Len(a) + 2} :
              (a \o Packets(k, id))[i].k = k /\ (a \o Packets(k, id))[i].id = id
<1>1. [k |-> k, id |-> id, part |-> 1] \in Part /\ [k |-> k, id |-> id, part |-> 2] \in Part
  BY DEF Part
<1>2. /\ Packets(k, id) \in Seq(Part) /\ Len(Packets(k, id)) = 2
      /\ Packets(k, id)[1] = [k |-> k, id |-> id, part |-> 1]
      /\ Packets(k, id)[2] = [k |-> k, id |-> id, part |-> 2]
  BY <1>1 DEF Packets
<1>3. PICK n \in Nat : n = Len(a)
  BY LenProperties
<1>4. /\ a \o Packets(k, id) \in Seq(Part) /\ Len(a \o Packets(k, id)) = n + 2
      /\ \A i \in 1..n + 2 :
           (a \o Packets(k, id))[i] = IF i <= n THEN a[i] ELSE Packets(k, id)[i - n]
  <2>1. /\ a \o Packets(k, id) \in Seq(Part)
        /\ Len(a \o Packets(k, id)) = Len(a) + Len(Packets(k, id))
        /\ \A i \in 1..Len(a) + Len(Packets(k, id)) :
             (a \o Packets(k, id))[i] = IF i <= Len(a) THEN a[i] ELSE Packets(k, id)[i - Len(a)]
    BY ONLY <1>2, <1>3, ConcatProperties, a \in Seq(Part)
  <2> QED
    BY ONLY <1>2, <1>3, <2>1
<1>5. \A i \in 1..n : (a \o Packets(k, id))[i] = a[i]
  BY <1>4
<1>6. n + 1 \in 1..n + 2 /\ n + 2 \in 1..n + 2 /\ n + 1 - n = 1 /\ n + 2 - n = 2
      /\ ~(n + 1 <= n) /\ ~(n + 2 <= n)
  OBVIOUS
<1>7. /\ (a \o Packets(k, id))[n + 1] = [k |-> k, id |-> id, part |-> 1]
      /\ (a \o Packets(k, id))[n + 2] = [k |-> k, id |-> id, part |-> 2]
  BY ONLY SMTT(30), <1>2, <1>4, <1>6
<1> QED
  BY <1>2, <1>3, <1>4, <1>5, <1>7

(* What an assignment to a part of a transport does to the rest.           *)
LEMMA SetTransport ==
  ASSUME NEW v \in Transports, NEW c \in Seq(Cmd), NEW w \in Seq(Cmd), NEW p \in Seq(Part),
         NEW b \in BOOLEAN
  PROVE  /\ v = [cmds |-> v.cmds, wr |-> v.wr, rd |-> v.rd,
                 buf_is_incomplete |-> v.buf_is_incomplete, inconsistent |-> v.inconsistent]
         /\ [v EXCEPT !.cmds = c] \in Transports /\ [v EXCEPT !.wr = w] \in Transports
         /\ [v EXCEPT !.rd = p] \in Transports /\ [v EXCEPT !.inconsistent = b] \in Transports
         /\ [v EXCEPT !.cmds = c, !.wr = w] \in Transports
         /\ [v EXCEPT !.buf_is_incomplete = b] \in Transports
BY DEF Transports

Finishes(v, next) == t' = v /\ op' = next /\ UNCHANGED <<ps, rid, sent>>
Continues(v, next, cmd) == t' = [v EXCEPT !.cmds = Append(@, cmd)] /\ op' = next /\ ps' = "ask"

(* What may come of a packet.                                              *)
LEMMA Outcomes ==
  ASSUME op \in Readers, NEW u \in Transports, Deliver(u),
         NEW v, v = [u EXCEPT !.rd = SubSeq(u.rd, 3, Len(u.rd))]
  PROVE  /\ UNCHANGED <<present, plan, c2s, srv, closed>>
         /\ \/ Head(u.rd).k \in Skipped[op] /\ Finishes(v, op)
            \/ /\ Head(u.rd).k \in Last[op]
               /\ \/ /\ op = "hello"
                     /\ Finishes([v EXCEPT !.wr = <<[k |-> "addendum", id |-> 0]>>], "addendum")
                  \/ op = "clear" /\ Finishes([v EXCEPT !.inconsistent = FALSE], "idle")
                  \/ op \in {"ping", "execute", "tail", "blocks"} /\ Finishes(v, "idle")
                  \/ /\ op = "header" /\ UNCHANGED <<rid, sent>>
                     /\ Continues(v, "tail", [k |-> "data", id |-> rid])
                  \/ /\ op = "tail" /\ sent < MaxRequests /\ rid' = sent + 1 /\ sent' = sent + 1
                     /\ Continues(v, "header", [k |-> "insert", id |-> sent + 1])
<1>1. CASE Head(u.rd).k \in Skipped[op] /\ Skip(v)
  BY <1>1 DEF Skip, Finishes
<1>2. CASE /\ op = "tail" /\ Head(u.rd).k \in Last[op] /\ sent < MaxRequests
           /\ Continue(v, "header", [k |-> "insert", id |-> sent + 1])
           /\ rid' = sent + 1 /\ sent' = sent + 1
  BY <1>2 DEF Continue, Continues
<1>3. CASE /\ Head(u.rd).k \in Last[op]
           /\ CASE op = "hello"  -> Finish([v EXCEPT !.wr = <<[k |-> "addendum", id |-> 0]>>],
                                           "addendum")
                [] op = "clear"  -> Finish(Cleared(v), "idle")
                [] op = "header" -> /\ Continue(v, "tail", [k |-> "data", id |-> rid])
                                    /\ UNCHANGED <<rid, sent>>
                [] OTHER         -> Finish(v, "idle")
  <2>1. CASE op = "hello"
    BY <1>3, <2>1 DEF Finish, Finishes
  <2>2. CASE op = "clear"
    BY <1>3, <2>2 DEF Finish, Finishes, Cleared
  <2>3. CASE op = "header"
    BY <1>3, <2>3 DEF Continue, Continues
  <2>4. CASE op \in {"ping", "execute", "tail", "blocks"}
    BY <1>3, <2>4 DEF Finish, Finishes
  <2> QED
    BY <2>1, <2>2, <2>3, <2>4 DEF Readers
<1> QED
  BY <1>1, <1>2, <1>3 DEF Deliver


Ops == Readers \cup {"idle", "addendum", "panicked"}

(* A delivered packet leaves the client well typed.                        *)
LEMMA DeliverType ==
  ASSUME TypeOK, Steps, op \in Readers, NEW u \in Transports, Len(u.wr) <= 1, Deliver(u)
  PROVE  /\ t' \in Transports /\ Len(t'.wr) <= 1 /\ op' \in Ops /\ ps' \in {"ask", "receive"}
         /\ rid' \in 0..MaxRequests /\ sent' \in 0..MaxRequests
         /\ UNCHANGED <<present, plan, c2s, srv, closed>> /\ Steps'
<1> DEFINE v == [u EXCEPT !.rd = SubSeq(u.rd, 3, Len(u.rd))]
<1>1. /\ MaxRequests \in Nat /\ rid \in 0..MaxRequests /\ sent \in 0..MaxRequests
      /\ ps \in {"ask", "receive"} /\ plan \in Seq(Calls) /\ op \in Ops
  BY BoundsAssumption DEF TypeOK, Ops
<1>2. u.rd \in Seq(Part) /\ u.cmds \in Seq(Cmd) /\ u.wr \in Seq(Cmd)
  BY DEF Transports
<1>3. SubSeq(u.rd, 3, Len(u.rd)) \in Seq(Part)
  <2>1. \A i \in 3..Len(u.rd) : u.rd[i] \in Part
    BY <1>2, ElementOfSeq
  <2>2. Len(u.rd) \in Int
    BY <1>2, LenProperties
  <2> QED
    BY <1>2, <2>1, <2>2, SubSeqProperties
<1>4. v \in Transports /\ v.cmds = u.cmds /\ v.wr = u.wr
  BY <1>2, <1>3, SetTransport DEF Transports
<1>5. \A c \in Cmd : Append(v.cmds, c) \in Seq(Cmd) /\ <<c>> \in Seq(Cmd) /\ Len(<<c>>) = 1
  BY <1>2, <1>4, AppendProperties
<1>6. \A c \in Cmd : [v EXCEPT !.cmds = Append(@, c)] \in Transports
                      /\ [v EXCEPT !.cmds = Append(@, c)].wr = v.wr
                      /\ [v EXCEPT !.wr = <<c>>] \in Transports
                      /\ [v EXCEPT !.wr = <<c>>].wr = <<c>>
  BY <1>4, <1>5 DEF Transports
<1>7. [v EXCEPT !.inconsistent = FALSE] \in Transports /\ [v EXCEPT !.inconsistent = FALSE].wr = v.wr
  BY <1>4 DEF Transports
<1>8. /\ [k |-> "addendum", id |-> 0] \in Cmd /\ [k |-> "data", id |-> rid] \in Cmd
      /\ sent < MaxRequests => [k |-> "insert", id |-> sent + 1] \in Cmd
  BY <1>1 DEF Cmd, CmdKinds
<1>9. Len(v.wr) <= 1
  BY <1>4
<1> HIDE DEF v
<1>10. /\ UNCHANGED <<present, plan, c2s, srv, closed>>
       /\ \/ Finishes(v, op)
          \/ /\ op = "hello"
             /\ Finishes([v EXCEPT !.wr = <<[k |-> "addendum", id |-> 0]>>], "addendum")
          \/ op = "clear" /\ Finishes([v EXCEPT !.inconsistent = FALSE], "idle")
          \/ Finishes(v, "idle")
          \/ /\ op = "header" /\ UNCHANGED <<rid, sent>>
             /\ Continues(v, "tail", [k |-> "data", id |-> rid])
          \/ /\ op = "tail" /\ sent < MaxRequests /\ rid' = sent + 1 /\ sent' = sent + 1
             /\ Continues(v, "header", [k |-> "insert", id |-> sent + 1])
  BY Outcomes DEF v
<1>11. /\ t' \in Transports /\ Len(t'.wr) <= 1
  <2>1. \/ t' = v \/ t' = [v EXCEPT !.inconsistent = FALSE]
        \/ \E c \in Cmd : t' = [v EXCEPT !.wr = <<c>>] \/ t' = [v EXCEPT !.cmds = Append(@, c)]
    BY <1>8, <1>10 DEF Finishes, Continues
  <2>2. CASE t' = v \/ t' = [v EXCEPT !.inconsistent = FALSE]
    BY <1>4, <1>7, <1>9, <2>2
  <2>3. ASSUME NEW c \in Cmd,
               t' = [v EXCEPT !.wr = <<c>>] \/ t' = [v EXCEPT !.cmds = Append(@, c)]
        PROVE  t' \in Transports /\ Len(t'.wr) <= 1
    <3>1. t' \in Transports /\ (t'.wr = <<c>> \/ t'.wr = v.wr)
      BY <1>6, <2>3
    <3>2. t'.wr = <<c>> => Len(t'.wr) <= 1
      OBVIOUS
    <3>3. t'.wr = v.wr => Len(t'.wr) <= 1
      BY <1>9
    <3> QED
      BY ONLY <3>1, <3>2, <3>3
  <2> QED
    BY <2>1, <2>2, <2>3
<1>12. op' \in Ops /\ ps' \in {"ask", "receive"} /\ rid' \in 0..MaxRequests /\ sent' \in 0..MaxRequests
  BY <1>1, <1>10 DEF Finishes, Continues, Ops, Readers
<1>13. Steps'
  <2>1. PICK n \in Nat : n = Len(plan)
    BY <1>1, LenProperties
  <2>2. /\ n = 2 => plan[1] = "ping" /\ op \in {"idle", "clear"}
        /\ op \notin {"idle", "clear", "ping"} => plan = <<>> /\ n = 0
        /\ sent + n <= MaxRequests
    BY <1>1, <2>1, Nothing DEF Steps
  <2>3. n = 2 => op' \in {"idle", "clear"}
    BY <1>10, <2>2 DEF Finishes, Continues, Readers
  <2>4. op' \notin {"idle", "clear", "ping"} => plan = <<>>
    BY <1>10, <2>2 DEF Finishes, Continues, Readers
  <2>5. sent' + n <= MaxRequests
    BY <1>1, <1>10, <2>2 DEF Finishes, Continues
  <2> QED
    BY <1>10, <2>1, <2>2, <2>3, <2>4, <2>5 DEF Steps
<1> QED
  BY <1>10, <1>11, <1>12, <1>13


Started == /\ t' = NewTransport /\ op' \in {"idle", "panicked"} /\ plan' = <<>> /\ ps' = "ask"
           /\ rid' = 0 /\ sent' = 0 /\ c2s' = <<>> /\ s2c' = <<>> /\ srv' = NewServer
           /\ present' = FALSE /\ closed' = FALSE

(* A connection that is lost leaves everything as it was in the beginning. *)
LEMMA StartsOver == Started => TypeOK' /\ Steps'
<1>1. SUFFICES ASSUME Started  PROVE TypeOK' /\ Steps'
  OBVIOUS
<1>2. NewTransport \in Transports /\ NewTransport.wr = <<>> /\ Len(<<>>) = 0
  BY DEF NewTransport, Transports
<1>3. NewServer \in [st : {"idle", "select", "insert"}, id : 0..MaxRequests, left : 0..MaxReplies]
  BY BoundsAssumption DEF NewServer
<1>4. \A S : <<>> \in Seq(S)
  BY EmptySeq
<1>5. 0 \in 0..MaxRequests /\ 0 + 0 <= MaxRequests
  BY BoundsAssumption
<1>6. TypeOK'
  <2>1. t' \in Transports /\ Len(t'.wr) <= 1 /\ op' \in Ops
    BY <1>1, <1>2 DEF Started, Ops
  <2>2. /\ plan' \in Seq(Calls) /\ c2s' \in Seq(Cmd) /\ s2c' \in Seq(Part)
        /\ ps' \in {"ask", "receive"} /\ present' \in BOOLEAN /\ closed' \in BOOLEAN
    BY <1>1, <1>4 DEF Started
  <2>4. Len(plan') <= 2
    BY <1>1 DEF Started
  <2>3. /\ srv' \in [st : {"idle", "select", "insert"}, id : 0..MaxRequests, left : 0..MaxReplies]
        /\ rid' \in 0..MaxRequests /\ sent' \in 0..MaxRequests
    BY <1>1, <1>3, <1>5 DEF Started
  <2> QED
    BY <2>1, <2>2, <2>3, <2>4 DEF TypeOK, Transports, Ops
<1>7. Steps'
  BY <1>1, <1>2, <1>5 DEF Started, Steps
<1> QED
  BY <1>6, <1>7

(* An assignment to the transport and to what the client does with it.     *)
LEMMA ClientType ==
  ASSUME TypeOK, t' \in Transports, Len(t'.wr) <= 1, UNCHANGED <<s2c, srv, closed>>,
         c2s' \in Seq(Cmd), present' \in BOOLEAN, op' \in Ops, ps' \in {"ask", "receive"},
         plan' \in Seq(Calls), Len(plan') <= 2, rid' \in 0..MaxRequests, sent' \in 0..MaxRequests
  PROVE  TypeOK'
BY DEF TypeOK, Ops, Transports

(* What the client has, spelled out.                                       *)
LEMMA Typed ==
  ASSUME TypeOK
  PROVE  /\ t \in Transports /\ Len(t.wr) <= 1 /\ present \in BOOLEAN /\ op \in Ops
         /\ ps \in {"ask", "receive"} /\ plan \in Seq(Calls) /\ Len(plan) <= 2
         /\ rid \in 0..MaxRequests /\ sent \in 0..MaxRequests
         /\ MaxRequests \in Nat /\ MaxReplies \in Nat
         /\ srv.st \in {"idle", "select", "insert"} /\ srv.id \in 0..MaxRequests
         /\ srv.left \in 0..MaxReplies
         /\ srv \in [st : {"idle", "select", "insert"}, id : 0..MaxRequests, left : 0..MaxReplies]
         /\ closed \in BOOLEAN
BY BoundsAssumption DEF TypeOK, Ops, Transports

(* Steps that send: nothing is typed wrong.                                *)
LEMMA CallsType ==
  ASSUME TypeOK, Steps,
         \/ \E c \in Calls : Call(c)
         \/ BeginClear \/ BeginCall \/ DropStream \/ Connect
  PROVE  TypeOK' /\ Steps'
<1>1. PICK n \in Nat : n = Len(plan)
  BY Typed, LenProperties
<1>2. /\ n = 2 => plan[1] = "ping" /\ op \in {"idle", "clear"}
      /\ op \notin {"idle", "clear", "ping"} => plan = <<>>
      /\ ~present => plan = <<>>
      /\ sent + n <= MaxRequests /\ n <= 2 /\ (plan = <<>> <=> n = 0)
  BY <1>1, Typed, Nothing DEF Steps
<1>3. \A c \in Cmd : /\ [t EXCEPT !.cmds = Append(@, c)] \in Transports
                     /\ [t EXCEPT !.cmds = Append(@, c)].wr = t.wr
                     /\ [t EXCEPT !.cmds = <<c>>] \in Transports
                     /\ [t EXCEPT !.cmds = <<c>>].wr = t.wr
  <2> TAKE c \in Cmd
  <2>1. Append(t.cmds, c) \in Seq(Cmd) /\ <<c>> \in Seq(Cmd)
    BY Queues, AppendProperties
  <2> QED
    BY <2>1, Typed DEF Transports
<1>4. ASSUME NEW c \in Calls, Call(c)  PROVE TypeOK' /\ Steps'
  <2>1. /\ plan' = <<"ping", c>> \/ plan' = <<c>>
        /\ sent + Len(plan') <= MaxRequests /\ op = "idle" /\ UNCHANGED <<op, sent>> /\ present'
    BY <1>4 DEF Call, PlanOf
  <2>2. /\ plan' \in Seq(Calls) /\ Len(plan') <= 2 /\ (Len(plan') = 2 => plan'[1] = "ping")
    <3>1. CASE plan' = <<"ping", c>>
      <4>1. "ping" \in Calls
        BY DEF Calls
      <4> QED
        BY <3>1, <4>1
    <3>2. CASE plan' = <<c>>
      BY <3>2
    <3> QED
      BY <2>1, <3>1, <3>2
  <2>3. TypeOK'
    BY <1>4, <2>2, ClientType, Typed, Queues DEF Call, net
  <2> QED
    BY <2>1, <2>2, <2>3 DEF Steps
<1>5. CASE BeginClear
  <2>1. [k |-> "cancel", id |-> 0] \in Cmd
    BY Typed DEF Cmd, CmdKinds
  <2>2. t' \in Transports /\ t'.wr = t.wr
    BY <1>3, <1>5, <2>1 DEF BeginClear
  <2>3. TypeOK'
    BY <1>5, <2>2, ClientType, Typed, Queues DEF BeginClear, net, Ops, Readers
  <2>4. Steps'
    BY <1>1, <1>2, <1>5 DEF BeginClear, Steps, net
  <2> QED
    BY <2>3, <2>4
<1>6. CASE BeginCall
  <2>1. /\ n \in {1, 2} /\ op = "idle" /\ plan # <<>> /\ sent + 1 <= MaxRequests
        /\ sent + 1 + (n - 1) <= MaxRequests /\ sent + 1 \in 0..MaxRequests
    <3>1. op = "idle" /\ plan # <<>>
      BY <1>6 DEF BeginCall
    <3>2. n \in {1, 2} /\ sent \in Nat /\ MaxRequests \in Nat /\ sent + n <= MaxRequests
      BY <1>2, <3>1, Typed
    <3> QED
      BY ONLY <3>1, <3>2
  <2>2. /\ plan' = Tail(plan) /\ Tail(plan) \in Seq(Calls) /\ Len(Tail(plan)) = Len(plan) - 1
        /\ Head(plan) \in Calls
    BY <1>6, <2>1, Typed, HeadTailProperties DEF BeginCall
  <2>3. /\ FirstReader[Head(plan)] \in Ops /\ FirstCmd[Head(plan)] \in CmdKinds
        /\ Head(plan) = "ping" => FirstReader[Head(plan)] = "ping"
    BY <2>2 DEF FirstReader, FirstCmd, Calls, CmdKinds, Ops, Readers
  <2>4. [k |-> FirstCmd[Head(plan)], id |-> sent + 1] \in Cmd
    BY <2>1, <2>3 DEF Cmd
  <2>5. t' \in Transports /\ t'.wr = t.wr
    BY <1>3, <1>6, <2>4 DEF BeginCall
  <2>6. Len(plan') = n - 1 /\ Len(plan') <= 2
    <3>1. Len(plan') = n - 1
      BY ONLY <1>1, <2>2
    <3>2. n - 1 <= 2
      BY <2>1
    <3> QED
      BY <3>1, <3>2
  <2>7. TypeOK'
    BY <1>6, <2>1, <2>2, <2>3, <2>5, <2>6, ClientType, Typed, Queues DEF BeginCall, net
  <2>8. n - 1 # 2 /\ sent' + Len(plan') <= MaxRequests
    BY <1>6, <2>1, <2>6 DEF BeginCall
  <2>9. op' # "ping" => plan' = <<>>
    <3>1. Head(plan) # "ping" => n - 1 = 0
      BY <1>2, <2>1, <2>2, Typed
    <3>2. n - 1 \in Nat /\ (n - 1 = 0 => plan' = <<>>)
      BY <2>1, <2>2, <2>6, Nothing
    <3> QED
      BY <1>6, <2>3, <3>1, <3>2 DEF BeginCall
  <2>10. present'
    BY <1>2, <1>6, <2>1 DEF BeginCall
  <2> QED
    BY <2>6, <2>7, <2>8, <2>9, <2>10 DEF Steps
<1>7. CASE DropStream
  <2>1. t' \in Transports /\ t'.wr = t.wr
    BY <1>7, Typed DEF DropStream, AfterDrop, Transports
  <2>2. TypeOK'
    BY <1>7, <2>1, ClientType, Typed, Queues DEF DropStream, net, Ops
  <2>3. Steps'
    BY <1>1, <1>2, <1>7 DEF DropStream, Steps, net
  <2> QED
    BY <2>2, <2>3
<1>8. CASE Connect
  <2>1. [k |-> "hello", id |-> 0] \in Cmd
    BY Typed DEF Cmd, CmdKinds
  <2>2. t' \in Transports /\ t'.wr = t.wr
    BY <1>3, <1>8, <2>1 DEF Connect
  <2>3. TypeOK'
    BY <1>8, <2>2, ClientType, Typed, Queues DEF Connect, net, Ops, Readers
  <2>4. Steps'
    BY <1>1, <1>2, <1>8 DEF Connect, Steps, net
  <2> QED
    BY <2>3, <2>4
<1> QED
  BY <1>4, <1>5, <1>6, <1>7, <1>8


(* The steps of a reader.                                                  *)
LEMMA ReadersType ==
  ASSUME TypeOK, Steps,
         \/ Pack \/ PackFails \/ Flush \/ FlushAddendum \/ AllSent
         \/ PollBuffered \/ PollRead \/ PollEof \/ Abandon \/ CloseHandle
  PROVE  TypeOK' /\ Steps'
<1>1. PICK n \in Nat : n = Len(plan)
  BY Typed, LenProperties
<1>2. /\ n = 2 => plan[1] = "ping" /\ op \in {"idle", "clear"}
      /\ op \notin {"idle", "clear", "ping"} => plan = <<>>
      /\ ~present => plan = <<>>
      /\ sent + n <= MaxRequests /\ n <= 2 /\ (plan = <<>> <=> n = 0)
  BY <1>1, Typed, Nothing DEF Steps
<1>3. ASSUME NEW o, Lose(o), o \in {"idle", "panicked"}  PROVE TypeOK' /\ Steps'
  BY <1>3, StartsOver DEF Lose, Started
<1>4. t.cmds \in Seq(Cmd) /\ t.wr \in Seq(Cmd) /\ c2s \in Seq(Cmd) /\ <<>> \in Seq(Cmd) /\ Len(<<>>) = 0
  BY Queues
<1>5. ASSUME t.cmds # <<>>
      PROVE  /\ Tail(t.cmds) \in Seq(Cmd) /\ <<Head(t.cmds)>> \in Seq(Cmd)
             /\ Len(<<Head(t.cmds)>>) = 1
  <2>1. Head(t.cmds) \in Cmd /\ Tail(t.cmds) \in Seq(Cmd)
    BY <1>4, <1>5, HeadTailProperties
  <2> QED
    BY <2>1
<1>6. ASSUME UNCHANGED <<present, plan, sent>>, op' = op \/ op' \in {"idle", "clear"}
      PROVE  Steps'
  BY <1>6 DEF Steps
<1>7. CASE Pack
  <2>1. /\ t' \in Transports /\ t'.wr = <<Head(t.cmds)>> /\ Len(t'.wr) = 1
    BY <1>5, <1>7, Typed DEF Pack, Transports
  <2>2. TypeOK'
    BY <1>4, <1>7, <2>1, ClientType, Typed DEF Pack, net
  <2> QED
    BY <1>6, <1>7, <2>2 DEF Pack
<1>8. CASE PackFails
  <2>1. CASE Lose("idle")
    BY <1>3, <2>1
  <2>2. CASE t' = [t EXCEPT !.cmds = Tail(@)] /\ UNCHANGED <<present, op, plan, ps, rid, sent, net>>
    <3>1. t' \in Transports /\ t'.wr = t.wr
      BY <1>5, <1>8, <2>2, Typed DEF PackFails, Transports
    <3>2. TypeOK'
      BY <1>4, <2>2, <3>1, ClientType, Typed DEF net
    <3> QED
      BY <1>6, <2>2, <3>2
  <2> QED
    BY <1>8, <2>1, <2>2 DEF PackFails
<1>9. CASE Flush \/ FlushAddendum
  <2>1. /\ t' = [t EXCEPT !.wr = <<>>] /\ c2s' = (IF closed THEN c2s ELSE c2s \o t.wr)
        /\ op' = op \/ op' = "idle"
        /\ UNCHANGED <<present, plan, ps, rid, sent, s2c, srv, closed>>
    BY <1>9 DEF Flush, FlushAddendum
  <2>2. t' \in Transports /\ t'.wr = <<>> /\ Len(t'.wr) = 0
    BY <1>4, <2>1, Typed DEF Transports
  <2>3. c2s' \in Seq(Cmd)
    BY <1>4, <2>1, ConcatProperties
  <2>4. op' \in Ops
    BY <2>1, Typed DEF Ops
  <2>5. TypeOK'
    BY <2>1, <2>2, <2>3, <2>4, ClientType, Typed
  <2> QED
    BY <1>6, <2>1, <2>5
<1>10. CASE AllSent
  <2>1. TypeOK'
    BY <1>4, <1>10, ClientType, Typed DEF AllSent, net
  <2> QED
    BY <1>6, <1>10, <2>1 DEF AllSent
<1>11. CASE PollEof
  BY <1>3, <1>11 DEF PollEof, OnEnd
<1>12. CASE Abandon \/ CloseHandle
  BY <1>3, <1>12 DEF Abandon, CloseHandle
<1>13. ASSUME NEW u, Refuse(u)  PROVE TypeOK' /\ Steps'
  BY <1>3, <1>13 DEF Refuse
<1>14. ASSUME op \in Readers, NEW u \in Transports, u.wr = t.wr, Deliver(u), s2c' \in Seq(Part)
       PROVE  TypeOK' /\ Steps'
  <2>1. Len(u.wr) <= 1
    BY <1>14, Typed
  <2>2. /\ t' \in Transports /\ Len(t'.wr) <= 1 /\ op' \in Ops /\ ps' \in {"ask", "receive"}
        /\ rid' \in 0..MaxRequests /\ sent' \in 0..MaxRequests
        /\ UNCHANGED <<present, plan, c2s, srv, closed>> /\ Steps'
    BY <1>14, <2>1, DeliverType
  <2> QED
    BY <1>14, <2>2 DEF TypeOK, Transports, Ops
<1>15. CASE PollBuffered
  BY <1>13, <1>14, <1>15, Typed, Queues DEF PollBuffered
<1>16. CASE PollRead
  <2>1. PICK m \in 0..Len(s2c) :
          LET got == [t EXCEPT !.rd = @ \o SubSeq(s2c, 1, m)]
              u   == [got EXCEPT !.buf_is_incomplete = ~HasPacket(got.rd)]
          IN IF HasPacket(u.rd) /\ Refused(u)
             THEN Refuse(u)
             ELSE /\ s2c' = SubSeq(s2c, m + 1, Len(s2c))
                  /\ IF HasPacket(u.rd) THEN Deliver(u) ELSE Skip(u)
    BY <1>16 DEF PollRead
  <2> DEFINE got == [t EXCEPT !.rd = @ \o SubSeq(s2c, 1, m)]
             u   == [got EXCEPT !.buf_is_incomplete = ~HasPacket(got.rd)]
  <2>2. SubSeq(s2c, 1, m) \in Seq(Part) /\ SubSeq(s2c, m + 1, Len(s2c)) \in Seq(Part)
    <3>1. Len(s2c) \in Nat /\ \A i \in 1..Len(s2c) : s2c[i] \in Part
      BY Queues, LenProperties, ElementOfSeq
    <3> QED
      BY <3>1
  <2>3. t.rd \o SubSeq(s2c, 1, m) \in Seq(Part)
    BY <2>2, Queues, ConcatProperties
  <2>4. got \in Transports /\ got.wr = t.wr
    BY <2>3, Typed DEF Transports
  <2>5. u \in Transports /\ u.wr = t.wr
    BY <2>4 DEF Transports, HasPacket
  <2>6. op \in Readers
    BY <1>16 DEF PollRead
  <2>7. CASE Refuse(u)
    BY <1>13, <2>7
  <2>8. CASE Deliver(u) /\ s2c' = SubSeq(s2c, m + 1, Len(s2c))
    BY <1>14, <2>2, <2>5, <2>6, <2>8
  <2>9. CASE Skip(u) /\ s2c' = SubSeq(s2c, m + 1, Len(s2c))
    <3> HIDE DEF u
    <3>1. /\ t' = u /\ s2c' \in Seq(Part)
          /\ UNCHANGED <<present, op, plan, ps, rid, sent, c2s, srv, closed>>
      BY <2>2, <2>9 DEF Skip
    <3>2. TypeOK'
      BY <2>5, <3>1, Typed, Queues DEF TypeOK, Transports, Ops
    <3> QED
      BY <1>6, <3>1, <3>2
  <2> QED
    BY <2>1, <2>7, <2>8, <2>9
<1> QED
  BY <1>7, <1>8, <1>9, <1>10, <1>11, <1>12, <1>15, <1>16


(* The steps of the server.                                                *)
LEMMA ServerType ==
  ASSUME TypeOK, Steps, ServerStep \/ ServerClose
  PROVE  TypeOK' /\ Steps'
<1>1. UNCHANGED client
  BY DEF ServerStep, ServerTake, ServerReject, ServerReply, ServerEnd, ServerClose
<1>2. Steps'
  BY <1>1 DEF Steps, client
<1>3. c2s # <<>> => Head(c2s) \in Cmd /\ Tail(c2s) \in Seq(Cmd)
  BY Queues, HeadTailProperties
<1>4. \A c \in Cmd : c.id \in 0..MaxRequests
  BY DEF Cmd
<1>5. \A k \in PktKinds, id \in 0..MaxRequests :
        Packets(k, id) \in Seq(Part) /\ s2c \o Packets(k, id) \in Seq(Part)
  BY Queues, Packet
<1>6. NewServer \in [st : {"idle", "select", "insert"}, id : 0..MaxRequests, left : 0..MaxReplies]
  BY Typed DEF NewServer
<1>7. {"hello", "block", "progress", "columns", "exception", "eos", "pong"} = PktKinds
  BY DEF PktKinds
<1>8. /\ srv.id \in 0..MaxRequests /\ srv.left \in 0..MaxReplies /\ 0 \in 0..MaxRequests
      /\ MaxReplies \in 0..MaxReplies /\ 0 \in 0..MaxReplies /\ <<>> \in Seq(Cmd)
  BY Typed, EmptySeq
<1> DEFINE Served == /\ c2s' \in Seq(Cmd) /\ s2c' \in Seq(Part) /\ closed' \in BOOLEAN
                     /\ srv' \in [st : {"idle", "select", "insert"}, id : 0..MaxRequests,
                                  left : 0..MaxReplies]
<1>9. ASSUME Served  PROVE TypeOK' /\ Steps'
  BY <1>1, <1>2, <1>9 DEF TypeOK, client
<1> HIDE DEF Served
<1>10. CASE ServerTake
  <2>1. /\ Head(c2s) \in Cmd /\ Head(c2s).id \in 0..MaxRequests /\ c2s' \in Seq(Cmd)
        /\ closed' \in BOOLEAN
    BY <1>3, <1>4, <1>10, Typed DEF ServerTake
  <2>2. CASE /\ srv' = [st |-> "select", id |-> Head(c2s).id, left |-> MaxReplies]
             /\ UNCHANGED s2c
    BY <1>8, <1>9, <2>1, <2>2, Queues DEF Served
  <2>3. CASE /\ srv' = [st |-> "insert", id |-> Head(c2s).id, left |-> 0]
             /\ s2c' = s2c \o Packets("columns", Head(c2s).id) \o Packets("block", Head(c2s).id)
    <3>1. s2c' \in Seq(Part)
      BY <1>5, <1>7, <2>1, <2>3, ConcatProperties
    <3> QED
      BY <1>8, <1>9, <2>1, <2>3, <3>1 DEF Served
  <2>4. CASE \E k \in {"pong", "hello"} : \E id \in {0, Head(c2s).id} :
               Answer(k, id) /\ UNCHANGED srv
    <3>1. s2c' \in Seq(Part)
      BY <1>5, <1>7, <1>8, <2>1, <2>4 DEF Answer
    <3> QED
      BY <1>9, <2>1, <2>4, <3>1, Typed DEF Served
  <2>5. CASE UNCHANGED <<s2c, srv>>
    BY <1>9, <2>1, <2>5, Typed, Queues DEF Served
  <2> QED
    BY <1>10, <2>2, <2>3, <2>4, <2>5 DEF ServerTake
<1>11. CASE ServerReject
  <2>1. s2c' \in Seq(Part)
    BY <1>5, <1>7, <1>8, <1>11 DEF ServerReject, Answer
  <2> QED
    BY <1>8, <1>9, <1>11, <2>1, Typed DEF ServerReject, Served
<1>12. CASE ServerReply
  <2>1. s2c' \in Seq(Part) /\ srv.left > 0 /\ srv' = [srv EXCEPT !.left = @ - 1]
    BY <1>5, <1>7, <1>8, <1>12 DEF ServerReply, Answer
  <2>2. srv.left - 1 \in 0..MaxReplies
    BY <1>8, <2>1
  <2>3. srv' \in [st : {"idle", "select", "insert"}, id : 0..MaxRequests, left : 0..MaxReplies]
    BY <2>1, <2>2, Typed
  <2> QED
    BY <1>9, <1>12, <2>1, <2>3, Typed, Queues DEF ServerReply, Served
<1>13. CASE ServerEnd
  <2>1. s2c' \in Seq(Part) /\ c2s' \in Seq(Cmd) /\ srv' = NewServer /\ UNCHANGED closed
    BY <1>3, <1>5, <1>7, <1>8, <1>13, Queues DEF ServerEnd, Answer, Idle
  <2> QED
    BY <1>6, <1>9, <2>1, Typed DEF Served
<1>14. CASE ServerClose
  BY <1>6, <1>8, <1>9, <1>14, Queues DEF ServerClose, Idle, Served
<1> QED
  BY <1>2, <1>10, <1>11, <1>12, <1>13, <1>14 DEF ServerStep

(* Nothing is planned and nothing is sent to begin with.                   *)
LEMMA TypeInit == Init => TypeOK /\ Steps
<1>1. SUFFICES ASSUME Init  PROVE TypeOK /\ Steps
  OBVIOUS
<1>2. NewTransport \in Transports /\ NewTransport.wr = <<>> /\ Len(<<>>) = 0
  BY DEF NewTransport, Transports
<1>3. NewServer \in [st : {"idle", "select", "insert"}, id : 0..MaxRequests, left : 0..MaxReplies]
  BY BoundsAssumption DEF NewServer
<1>4. plan \in Seq(Calls) /\ c2s \in Seq(Cmd) /\ s2c \in Seq(Part)
  BY <1>1, EmptySeq DEF Init
<1>5. Len(plan) <= 2 /\ Len(plan) = 0
  BY <1>1 DEF Init
<1>6. 0 \in 0..MaxRequests /\ 0 + 0 <= MaxRequests
  BY BoundsAssumption
<1>7. t \in Transports /\ Len(t.wr) <= 1
  BY <1>1, <1>2 DEF Init
<1>8. /\ present \in BOOLEAN /\ closed \in BOOLEAN /\ op \in Ops /\ ps \in {"ask", "receive"}
       /\ rid \in 0..MaxRequests /\ sent \in 0..MaxRequests
       /\ srv \in [st : {"idle", "select", "insert"}, id : 0..MaxRequests, left : 0..MaxReplies]
  BY <1>1, <1>3, <1>6 DEF Init, Ops
<1>9. TypeOK
  BY <1>4, <1>5, <1>7, <1>8 DEF TypeOK, Transports, Ops
<1>10. Steps
  BY <1>1, <1>5, <1>6 DEF Init, Steps
<1> QED
  BY <1>9, <1>10

(* No step of either side types anything wrong.                            *)
LEMMA TypeStep == TypeOK /\ Steps /\ [Next]_vars => TypeOK' /\ Steps'
<1>1. ASSUME TypeOK, Steps, Next  PROVE TypeOK' /\ Steps'
  BY <1>1, CallsType, ReadersType, ServerType DEF Next, ClientStep
<1>2. ASSUME TypeOK, Steps, UNCHANGED vars  PROVE TypeOK' /\ Steps'
  BY <1>2 DEF vars, client, net, TypeOK, Steps
<1> QED
  BY <1>1, <1>2

(* Type correctness of the transport, the call in progress and the         *)
(* network, for every number of requests and replies: the write buffer     *)
(* holds one command at most, and a call plans two steps at most.          *)
THEOREM TransportTypeOK == Spec => []TypeOK
<1>1. Spec => [](TypeOK /\ Steps)
  BY TypeInit, TypeStep, PTL DEF Spec
<1> QED
  BY <1>1, PTL


-----------------------------------------------------------------------------
(* What the server does to the conversation.                               *)

(* It takes commands from the front of all that leaves.                    *)
LEMMA ServerHears ==
  ASSUME TypeOK, UNCHANGED t, c2s # <<>>
  PROVE  /\ Out # <<>> /\ Out[1] = Head(c2s)
         /\ c2s' = Tail(c2s) => Out' = Tail(Out)
         /\ c2s' = <<>> => Suffix(Out', Out)
<1>1. c2s \in Seq(Cmd) /\ t.wr \in Seq(Cmd) /\ t.cmds \in Seq(Cmd)
  BY Queues
<1>2. /\ Then(Then(c2s, t.wr), t.cmds)[1] = Head(c2s) /\ Then(Then(c2s, t.wr), t.cmds) # <<>>
      /\ Then(Then(Tail(c2s), t.wr), t.cmds) = Tail(Then(Then(c2s, t.wr), t.cmds))
  <2>1. PICK w \in Seq(Cmd) : w = t.wr
    BY <1>1
  <2>2. PICK c \in Seq(Cmd) : c = t.cmds
    BY <1>1
  <2>3. Then(Then(c2s, w), c)[1] = Head(c2s) /\ Then(Then(c2s, w), c) # <<>>
    BY <1>1, FrontOfThree
  <2>4. Then(Then(Tail(c2s), w), c) = Tail(Then(Then(c2s, w), c))
    BY <1>1, FrontOfThree
  <2> QED
    BY <2>1, <2>2, <2>3, <2>4
<1>3. Out = Then(Then(c2s, t.wr), t.cmds) /\ Out' = Then(Then(c2s', t.wr), t.cmds)
  BY DEF Out, Then
<1>4. Out # <<>> /\ Out[1] = Head(c2s) /\ (c2s' = Tail(c2s) => Out' = Tail(Out))
  BY <1>2, <1>3
<1>6. ASSUME c2s' = <<>>  PROVE Suffix(Out', Out)
  <2>1. Out' = <<>> \o t.wr \o t.cmds
    BY <1>6 DEF Out
  <2> QED
    BY <1>1, <2>1, Dropped DEF Out
<1> QED
  BY <1>4, <1>6

(* It puts its packets at the end of all that arrives.                     *)
LEMMA ServerSays ==
  ASSUME TypeOK, UNCHANGED t, NEW k \in PktKinds, NEW id \in 0..MaxRequests,
         s2c' = s2c \o Packets(k, id), NEW m \in Nat, m = Len(In)
  PROVE  /\ In' = In \o Packets(k, id) /\ Len(In') = m + 2
         /\ \A i \in 1..m : In'[i] = In[i]
         /\ \A i \in 1..m + 2 : i > m => In'[i].k = k /\ In'[i].id = id
<1>1. Packets(k, id) \in Seq(Part) /\ t.rd \in Seq(Part) /\ s2c \in Seq(Part) /\ In \in Seq(Part)
  BY Packet, Queues
<1>2. In' = t.rd \o (s2c \o Packets(k, id))
  BY DEF In
<1>3. In' = In \o Packets(k, id)
  <2>1. ASSUME NEW x \in Seq(Part), NEW y \in Seq(Part), NEW z \in Seq(Part)
        PROVE  x \o (y \o z) = (x \o y) \o z
    BY ONLY SMTT(30), x \in Seq(Part), y \in Seq(Part), z \in Seq(Part), ConcatAssociative
  <2>2. t.rd \o (s2c \o Packets(k, id)) = (t.rd \o s2c) \o Packets(k, id)
    BY ONLY <1>1, <2>1
  <2> QED
    BY <1>2, <2>2 DEF In
<1>4. /\ Len(In \o Packets(k, id)) = Len(In) + 2
      /\ \A i \in 1..Len(In) : (In \o Packets(k, id))[i] = In[i]
      /\ \A i \in {Len(In) + 1, Len(In) + 2} :
           (In \o Packets(k, id))[i].k = k /\ (In \o Packets(k, id))[i].id = id
  BY <1>1, Packet
<1>5. \A i \in 1..m + 2 : i > m => i \in {m + 1, m + 2}
  OBVIOUS
<1> QED
  BY <1>3, <1>4, <1>5

(* The first packets it says to a request.                                 *)
LEMMA Begins ==
  ASSUME TypeOK, TypeOK', NEW r \in Readers, rid' = rid, Ordered(r)', AllStale', In = <<>>,
         UNCHANGED t, NEW k \in Ends(r) \cap PktKinds, s2c' = s2c \o Packets(k, rid),
         srv'.st = "idle", r # "header"
  PROVE  Talk(r)'
<1>1. PICK m \in Nat : m = Len(In) /\ m = 0
  BY EmptySeq
<1>2. rid \in 0..MaxRequests /\ Ends(r) \subseteq Kinds(r)
  BY Typed, Words
<1>3. Len(In') = m + 2 /\ \A i \in 1..m + 2 : i > m => In'[i].k = k /\ In'[i].id = rid
  BY <1>1, <1>2, ServerSays
<1>4. Len(In') = 2 /\ \A i \in 1..2 : In'[i].k = k /\ In'[i].id = rid
  BY <1>1, <1>3
<1>5. Answered(r)'
  BY <1>4 DEF Answered
<1> QED
  BY <1>2, <1>4, <1>5 DEF Talk


(* Which conversation is held, from what the client does.                  *)
LEMMA Doings ==
  /\ Doing \in Readers => /\ Doing = op \/ (Doing = "blocks" /\ op = "idle" /\ t.inconsistent)
                          /\ Doing # "hello" \/ op = "hello"
  /\ Doing \notin Readers <=> op \notin Readers /\ ~(op = "idle" /\ t.inconsistent)
BY DEF Doing, Readers

(* The server does not touch the plan, and only takes commands away.       *)
LEMMA ServerKeepsPlan ==
  ASSUME TypeOK, Plan, UNCHANGED client, Out = <<>> => Out' = <<>>
  PROVE  Plan'
BY DEF Plan, client

(* The server takes a command.                                             *)
LEMMA ServerTakes ==
  ASSUME TypeOK, TypeOK', Conversation, Plan, Fresh, ServerTake
  PROVE  Conversation'
<1>1. /\ UNCHANGED client /\ UNCHANGED <<t, rid, op, closed>> /\ Doing' = Doing
      /\ ~closed /\ srv.st = "idle" /\ c2s # <<>> /\ c2s' = Tail(c2s)
  BY DEF ServerTake, client, Doing
<1>2. Out # <<>> /\ Out[1] = Head(c2s) /\ Out' = Tail(Out)
  BY <1>1, ServerHears
<1>3. \/ /\ Out[1].k = "query" /\ UNCHANGED s2c
         /\ srv' = [st |-> "select", id |-> Out[1].id, left |-> MaxReplies]
      \/ /\ Out[1].k = "insert"
         /\ srv' = [st |-> "insert", id |-> Out[1].id, left |-> 0]
         /\ s2c' = s2c \o Packets("columns", Out[1].id) \o Packets("block", Out[1].id)
      \/ Out[1].k = "ping" /\ s2c' = s2c \o Packets("pong", Out[1].id) /\ UNCHANGED srv
      \/ Out[1].k \in {"cancel", "addendum"} /\ UNCHANGED <<s2c, srv>>
      \/ Out[1].k = "hello" /\ s2c' = s2c \o Packets("hello", 0) /\ UNCHANGED srv
  BY <1>2 DEF ServerTake, Answer
<1>4. PICK n \in Nat : n = Len(Out) /\ n > 0 /\ 1 \in 1..n /\ Out \in Seq(Cmd)
  BY <1>2, Queues, Nothing
<1>5. CASE Stale(Out[1])
  <2>1. UNCHANGED <<s2c, srv>> /\ In' = In
    BY <1>1, <1>3, <1>5 DEF Stale, In
  <2>2. CASE Doing \in Readers
    BY <1>1, <1>2, <1>5, <2>1, <2>2, Ignored DEF Conversation
  <2>3. CASE Doing \notin Readers
    <3>1. AllStale /\ In = <<>> /\ srv.st = "idle"
      BY <2>3 DEF Conversation, Silent
    <3>2. \A i \in 1..n - 1 : Out'[i] = Out[i + 1] /\ i + 1 \in 1..n
      BY <1>2, <1>4, HeadTailProperties
    <3>3. Len(Out') = n - 1
      BY <1>2, <1>4, HeadTailProperties
    <3>4. AllStale'
      BY <1>4, <3>1, <3>2, <3>3 DEF AllStale
    <3> QED
      BY <1>1, <2>1, <2>3, <3>1, <3>4 DEF Conversation, Silent
  <2> QED
    BY <2>2, <2>3
<1>6. CASE ~Stale(Out[1])
  <2>1. Doing \in Readers
    BY <1>4, <1>6 DEF Conversation, Silent, AllStale
  <2>2. PICK r \in Readers : r = Doing /\ Talk(r)
    BY <2>1 DEF Conversation
  <2>3. /\ Out[1] = Request(r) /\ In = <<>> /\ Ordered(r)' /\ AllStale'
        /\ srv.st = IF r = "tail" THEN "insert" ELSE "idle"
    BY <1>1, <1>2, <1>6, <2>2, Heard
  <2>4. Out[1].k = Asks[r] /\ Out[1].id = rid /\ rid \in 0..MaxRequests
    BY <2>3, Typed DEF Request
  <2>5. PICK m \in Nat : m = Len(In) /\ m = 0
    BY <2>3, EmptySeq
  <2>7. SUFFICES Talk(r)'
    BY <1>1, <2>2 DEF Conversation
  <2>8. CASE Out[1].k = "query"
    <3>1. UNCHANGED s2c /\ srv' = [st |-> "select", id |-> rid, left |-> MaxReplies]
      BY <1>3, <2>4, <2>8
    <3>2. In' = <<>> /\ Len(In') = 0 /\ Asks[r] = "query"
      BY <1>1, <2>3, <2>4, <2>5, <2>2, <2>8, <3>1 DEF In
    <3>3. Running(r)'
      BY <2>3, <3>1, <3>2 DEF Running
    <3> QED
      BY <1>1, <2>3, <3>1, <3>2, <3>3 DEF Talk
  <2>9. CASE Out[1].k = "insert"
    <3>1. /\ s2c' = s2c \o Packets("columns", rid) \o Packets("block", rid)
          /\ srv' = [st |-> "insert", id |-> rid, left |-> 0]
      BY <1>3, <2>4, <2>9
    <3>2. r = "header"
      BY <2>4, <2>2, <2>9 DEF Asks, Readers
    <3>3. /\ Len(In') = 4 /\ \A i \in 1..4 : In'[i].id = rid
          /\ In'[1].k = "columns" /\ In'[2].k = "columns"
          /\ In'[3].k = "block" /\ In'[4].k = "block"
      <4>1. "columns" \in PktKinds /\ "block" \in PktKinds
        BY DEF PktKinds
      <4>2. PICK a \in Seq(Part) : a = s2c \o Packets("columns", rid)
        BY <2>4, <4>1, Queues, Packet
      <4>3. s2c = <<>> /\ t.rd = <<>>
        BY <2>3, Queues, ConcatEqualIffEmpty DEF In
      <4>4. /\ Packets("columns", rid) \in Seq(Part) /\ Packets("block", rid) \in Seq(Part)
        BY <2>4, <4>1, Packet, Queues
      <4>5. In' = Packets("columns", rid) \o Packets("block", rid)
        BY <1>1, <3>1, <4>3, <4>4, ConcatEmptySeq, ConcatProperties DEF In
      <4> QED
        BY <4>5 DEF Packets
    <3>4. \A i \in 1..4 : i = 1 \/ i = 2 \/ i = 3 \/ i = 4
      OBVIOUS
    <3>5. Answered(r)'
      BY <2>3, <3>1, <3>2, <3>3, <3>4 DEF Answered, Ends
    <3>6. \A i \in 1..4 : In'[i].k \in Kinds(r)
      BY <3>2, <3>3, <3>4 DEF Kinds
    <3> QED
      BY <1>1, <2>3, <3>1, <3>3, <3>5, <3>6 DEF Talk
  <2>10. CASE Out[1].k = "ping"
    <3>1. r = "ping" /\ s2c' = s2c \o Packets("pong", rid) /\ UNCHANGED srv
      BY <1>3, <2>4, <2>2, <2>10 DEF Asks, Readers
    <3>2. "pong" \in Ends(r) \cap PktKinds
      BY <3>1 DEF Ends, Kinds, PktKinds
    <3> QED
      BY <1>1, <2>3, <2>2, <3>1, <3>2, Begins
  <2>11. CASE Out[1].k = "hello"
    <3>1. r = "hello" /\ s2c' = s2c \o Packets("hello", 0) /\ UNCHANGED srv
      BY <1>3, <2>4, <2>2, <2>11 DEF Asks, Readers
    <3>2. rid = 0
      BY <2>1, <2>2, <3>1, Doings DEF Fresh, Plan
    <3>3. "hello" \in Ends(r) \cap PktKinds
      BY <3>1 DEF Ends, Kinds, PktKinds
    <3> QED
      BY <1>1, <2>3, <2>2, <3>1, <3>2, <3>3, Begins
  <2> QED
    BY <1>3, <1>6, <2>8, <2>9, <2>10, <2>11 DEF Stale
<1> QED
  BY <1>5, <1>6


(* It goes on with a reply, or ends it.                                    *)
LEMMA ServerReplies ==
  ASSUME TypeOK, TypeOK', NEW r \in Readers, Talk(r), UNCHANGED <<t, rid, closed>>,
         srv.st = "select", NEW k \in {"block", "progress", "eos", "exception"},
         s2c' = s2c \o Packets(k, srv.id), Ordered(r)', AllStale', ~closed,
         IF k \in {"eos", "exception"} THEN srv'.st = "idle"
                                       ELSE srv'.st = "select" /\ srv'.id = srv.id
  PROVE  Talk(r)'
<1>1. PICK m \in Nat : m = Len(In)
  BY Queues
<1>2. k \in PktKinds /\ srv.id = rid /\ rid \in 0..MaxRequests
  BY Typed DEF PktKinds, Talk
<1>3. Running(r) /\ Asks[r] = "query"
  BY DEF Talk, Asked, Running, Answered, CutOff, Unsent
<1>4. /\ Kinds(r) = {"block", "progress", "eos", "exception"} /\ Ends(r) = {"eos", "exception"}
  BY <1>3, Words
<1>5. /\ Len(In') = m + 2 /\ \A i \in 1..m : In'[i] = In[i]
      /\ \A i \in 1..m + 2 : i > m => In'[i].k = k /\ In'[i].id = rid
  BY ZenonT(30), <1>1, <1>2, ServerSays
<1>6. /\ m % 2 = 0 /\ \A i \in 1..m : In[i].id = rid /\ In[i].k \in Kinds(r)
      /\ \A i \in 1..m : In[i].k \notin Ends(r)
  BY <1>1, <1>3 DEF Talk, Running
<1>7. \A i \in 1..m + 2 : In'[i].id = rid' /\ In'[i].k \in Kinds(r)
  <2> TAKE i \in 1..m + 2
  <2>1. CASE i \in 1..m
    BY <1>5, <1>6, <2>1
  <2>2. CASE i > m
    BY <1>4, <1>5, <2>2
  <2> QED
    BY <2>1, <2>2
<1>8. (m + 2) % 2 = 0
  BY <1>6
<1>9. CASE k \in {"eos", "exception"}
  <2>1. \A i \in 1..m + 2 : In'[i].k \in Ends(r) <=> i >= m + 2 - 1
    <3> TAKE i \in 1..m + 2
    <3>1. CASE i \in 1..m
      BY <1>5, <1>6, <3>1
    <3>2. CASE i > m
      BY <1>4, <1>5, <1>9, <3>2
    <3> QED
      BY <3>1, <3>2
  <2>2. r # "header"
    BY <1>3 DEF Asks
  <2>3. Answered(r)'
    BY <1>5, <1>9, <2>1, <2>2 DEF Answered
  <2> QED
    BY <1>5, <1>7, <1>8, <1>9, <2>3 DEF Talk
<1>10. CASE k \in {"block", "progress"}
  <2>1. \A i \in 1..m + 2 : In'[i].k \notin Ends(r)
    <3> TAKE i \in 1..m + 2
    <3>1. CASE i \in 1..m
      BY <1>5, <1>6, <3>1
    <3>2. CASE i > m
      BY <1>4, <1>5, <1>10, <3>2
    <3> QED
      BY <3>1, <3>2
  <2>2. Running(r)'
    BY <1>3, <1>5, <1>10, <2>1 DEF Running
  <2> QED
    BY <1>2, <1>5, <1>7, <1>8, <1>10, <2>2 DEF Talk
<1> QED
  BY <1>9, <1>10

(* The steps of the server keep the conversation, and what the client has  *)
(* planned.                                                                *)
LEMMA ServerStays ==
  ASSUME IInv, TypeOK', ServerStep \/ ServerClose
  PROVE  Conversation' /\ Plan' /\ Fresh'
<1>1. /\ TypeOK /\ Conversation /\ Plan /\ Fresh
      /\ UNCHANGED client /\ UNCHANGED <<t, rid, op, present, sent>> /\ Doing' = Doing
  BY DEF IInv, ServerStep, ServerTake, ServerReject, ServerReply, ServerEnd, ServerClose,
         client, Doing
<1>2. c2s # <<>> => Out # <<>> /\ Out[1] = Head(c2s)
  BY <1>1, ServerHears
<1>3. PICK n \in Nat : n = Len(Out) /\ Out \in Seq(Cmd)
  BY <1>1, Queues
<1>4. CASE ServerTake
  <2>1. Conversation'
    BY <1>1, <1>4, ServerTakes
  <2>2. Plan'
    BY <1>1, <1>2, <1>4, ServerKeepsPlan DEF ServerTake
  <2>3. Fresh'
    BY <1>1, <1>4 DEF ServerTake, Fresh
  <2> QED
    BY <2>1, <2>2, <2>3
<1>5. CASE ServerReject
  <2>1. /\ c2s # <<>> /\ Head(c2s).k = "hello" /\ ~closed /\ closed' /\ c2s' = <<>>
        /\ s2c' = s2c \o Packets("exception", 0) /\ UNCHANGED srv
    BY <1>5 DEF ServerReject, Answer
  <2>2. ~Stale(Out[1]) /\ n > 0
    BY <1>2, <1>3, <2>1, Nothing DEF Stale
  <2>3. PICK r \in Readers : r = Doing /\ Talk(r)
    BY <1>1, <1>3, <2>2 DEF Conversation, Silent, AllStale
  <2>4. Out[1] = Request(r) /\ In = <<>> /\ srv.st = (IF r = "tail" THEN "insert" ELSE "idle")
    <3>1. Out[1] = Request(r) /\ ~AllStale
      BY <1>3, <2>2, <2>3 DEF Talk, Ordered, AllStale
    <3> QED
      BY <2>1, <2>3, <3>1 DEF Talk, Asked, Running, Answered, CutOff, Unsent
  <2>5. r = "hello" /\ rid = 0 /\ srv.st = "idle"
    <3>1. r = "hello"
      BY <1>2, <2>1, <2>4 DEF Request, Asks, Readers
    <3>2. rid = 0
      BY <1>1, <2>3, <3>1, Doings DEF Fresh, Plan
    <3> QED
      BY <2>4, <3>1, <3>2
  <2>6. Suffix(Out', Out)
    BY <1>1, <2>1, ServerHears
  <2>7. Ordered(r)'
    BY <1>1, <2>3, <2>6, StaysOrdered DEF Talk
  <2>8. Out' = <<>> /\ Len(Out') = 0
    <3>1. n = 1
      BY <1>3, <2>2, <2>3, <2>5 DEF Talk, Ordered
    <3>2. PICK n1 \in Nat : n1 = Len(Out') /\ Out' \in Seq(Cmd)
      BY QueuesNext
    <3>3. Out' = c2s' \o t.wr \o t.cmds
      BY <1>1 DEF Out
    <3>4. PICK a \in Nat, b \in Nat, c \in Nat : a = Len(c2s) /\ b = Len(t.wr) /\ c = Len(t.cmds)
      BY <1>1, Queues, LenProperties
    <3>5. n = a + b + c
      BY <1>1, <1>3, <3>4, Queues, ConcatProperties DEF Out
    <3>6. a > 0
      BY <1>1, <2>1, <3>4, Queues, Nothing
    <3>7. t.wr = <<>> /\ t.cmds = <<>>
      <4>1. b \in Nat /\ c \in Nat /\ b = 0 /\ c = 0
        BY <3>1, <3>5, <3>6
      <4>2. t.wr \in Seq(Cmd) /\ t.cmds \in Seq(Cmd)
        BY <1>1, Queues
      <4>3. t.wr = <<>>
        BY ONLY <3>4, <4>1, <4>2, Nothing
      <4>4. t.cmds = <<>>
        BY ONLY <3>4, <4>1, <4>2, Nothing
      <4> QED
        BY <4>3, <4>4
    <3> QED
      BY <2>1, <3>3, <3>7
  <2>9. AllStale'
    BY <2>8 DEF AllStale
  <2>10. "exception" \in Ends(r) \cap PktKinds
    BY <2>5 DEF Ends, Kinds, PktKinds
  <2>11. Talk(r)'
    BY <1>1, <2>1, <2>4, <2>5, <2>7, <2>9, <2>10, Begins
  <2>12. Conversation'
    BY <1>1, <2>3, <2>11 DEF Conversation
  <2>13. Plan'
    BY <1>1, <2>8, ServerKeepsPlan
  <2>14. Fresh'
    BY <1>1, <2>1, <2>5 DEF Fresh
  <2> QED
    BY <2>12, <2>13, <2>14
<1>6. ASSUME srv.st = "select", UNCHANGED c2s \/ (c2s # <<>> /\ Head(c2s).k = "cancel" /\ c2s' = Tail(c2s)),
             NEW k \in {"block", "progress", "eos", "exception"}, s2c' = s2c \o Packets(k, srv.id),
             UNCHANGED closed, ~closed,
             IF k \in {"eos", "exception"} THEN srv'.st = "idle"
                                           ELSE srv'.st = "select" /\ srv'.id = srv.id
      PROVE  Conversation' /\ Plan' /\ Fresh'
  <2>1. PICK r \in Readers : r = Doing /\ Talk(r)
    BY <1>1, <1>6 DEF Conversation, Silent
  <2>2. AllStale
    BY <1>6, <2>1 DEF Talk, Asked, Running, Answered, CutOff, Unsent
  <2>3. Suffix(Out', Out)
    <3>1. CASE UNCHANGED c2s
      <4>1. Out' = Out
        BY <1>1, <3>1 DEF Out
      <4> QED
        BY <1>3, <4>1, Dropped
    <3>2. CASE c2s # <<>> /\ c2s' = Tail(c2s)
      <4>1. Out # <<>> /\ Out' = Tail(Out)
        BY <1>1, <3>2, ServerHears
      <4> QED
        BY <1>3, <4>1, TailSuffix
    <3> QED
      BY <1>6, <3>1, <3>2
  <2>4. Ordered(r)' /\ AllStale'
    BY <1>1, <2>1, <2>2, <2>3, StaysOrdered DEF Talk
  <2>5. Talk(r)'
    BY <1>1, <1>6, <2>1, <2>4, ServerReplies
  <2>6. Conversation'
    BY <1>1, <2>1, <2>5 DEF Conversation
  <2>7. Plan'
    <3>1. Out = <<>> => Out' = <<>>
      BY <1>1, <1>2, <1>6 DEF Out
    <3> QED
      BY <1>1, <3>1, ServerKeepsPlan
  <2>8. Fresh'
    BY <1>1, <1>6 DEF Fresh, NewServer
  <2> QED
    BY <2>6, <2>7, <2>8
<1>7. CASE ServerReply
  <2>1. /\ ~closed /\ srv.st = "select" /\ UNCHANGED <<c2s, closed>>
        /\ \E k \in {"block", "progress"} : s2c' = s2c \o Packets(k, srv.id)
        /\ srv'.st = "select" /\ srv'.id = srv.id
    BY <1>1, <1>7, Typed DEF ServerReply, Answer
  <2> QED
    BY <1>6, <2>1
<1>8. CASE ServerEnd
  <2>1. ~closed /\ UNCHANGED closed /\ srv'.st = "idle"
    BY <1>8 DEF ServerEnd, Idle, NewServer
  <2>2. CASE /\ srv.st = "select" /\ UNCHANGED c2s
             /\ \E k \in {"eos", "exception"} : Answer(k, srv.id)
    BY <1>6, <2>1, <2>2 DEF Answer
  <2>3. CASE /\ srv.st = "select" /\ c2s # <<>> /\ Head(c2s).k = "cancel"
             /\ Answer("eos", srv.id) /\ c2s' = Tail(c2s)
    BY <1>6, <2>1, <2>3 DEF Answer
  <2>4. CASE /\ srv.st = "insert" /\ c2s # <<>> /\ Head(c2s).k = "data"
             /\ \E k \in {"eos", "exception"} : Answer(k, srv.id)
             /\ c2s' = Tail(c2s)
    <3>1. Out # <<>> /\ Out[1].k = "data" /\ Out' = Tail(Out) /\ ~Stale(Out[1])
      BY <1>1, <2>4, ServerHears DEF Stale
    <3>2. PICK r \in Readers : r = Doing /\ Talk(r)
      BY <1>1, <2>4 DEF Conversation, Silent
    <3>3. Out[1] = Request(r) /\ In = <<>> /\ Ordered(r)' /\ AllStale' /\ (r # "clear" => Out' = <<>>)
      BY <1>1, <3>1, <3>2, Heard
    <3>4. r = "tail" /\ srv.id = rid
      BY <2>4, <3>1, <3>2, <3>3 DEF Request, Asks, Readers, Talk
    <3>5. PICK k \in {"eos", "exception"} : s2c' = s2c \o Packets(k, rid)
      BY <2>4, <3>4 DEF Answer
    <3>6. k \in Ends(r) \cap PktKinds
      BY <3>4 DEF Ends, Kinds, PktKinds
    <3>7. Talk(r)'
      BY <1>1, <2>1, <3>3, <3>4, <3>5, <3>6, Begins
    <3>8. Conversation'
      BY <1>1, <3>2, <3>7 DEF Conversation
    <3>9. Plan'
      BY <1>1, <3>1, ServerKeepsPlan
    <3>10. Fresh'
      BY <1>1, <2>1, <2>4 DEF Fresh
    <3> QED
      BY <3>8, <3>9, <3>10
  <2> QED
    BY <1>8, <2>2, <2>3, <2>4 DEF ServerEnd
<1>9. CASE ServerClose
  <2>1. present /\ closed' /\ c2s' = <<>> /\ srv' = NewServer /\ UNCHANGED s2c /\ ~closed
    BY <1>9 DEF ServerClose, Idle
  <2>2. srv'.st = "idle" /\ In' = In
    BY <1>1, <2>1 DEF NewServer, In
  <2>3. Suffix(Out', Out)
    <3>1. CASE c2s # <<>>
      BY <1>1, <2>1, <3>1, ServerHears
    <3>2. CASE c2s = <<>>
      <4>1. Out' = Out
        BY <1>1, <2>1, <3>2 DEF Out
      <4> QED
        BY <1>3, <4>1, Dropped
    <3> QED
      BY <3>1, <3>2
  <2>4. Conversation'
    <3>1. CASE Doing \in Readers
      BY <1>1, <2>1, <2>2, <2>3, <3>1, Cut DEF Conversation
    <3>2. CASE Doing \notin Readers
      <4>1. AllStale'
        BY <1>1, <2>3, <3>2, StaysStale DEF Conversation, Silent
      <4> QED
        BY <1>1, <2>2, <3>2, <4>1 DEF Conversation, Silent
    <3> QED
      BY <3>1, <3>2
  <2>5. Plan'
    <3>1. Out = <<>> => Out' = <<>>
      BY <1>1, <2>3, SuffixOfNone, QueuesNext
    <3> QED
      BY <1>1, <3>1, ServerKeepsPlan
  <2>6. Fresh'
    BY <1>1, <2>1, <2>2 DEF Fresh
  <2> QED
    BY <2>4, <2>5, <2>6
<1> QED
  BY <1>4, <1>5, <1>7, <1>8, <1>9 DEF ServerStep


-----------------------------------------------------------------------------
(* What the client does to the conversation.                               *)

(* A connection that is lost takes everything said on it along.            *)
LEMMA StartsSilent == Started => Conversation' /\ Plan' /\ Fresh'
<1>1. SUFFICES ASSUME Started  PROVE Conversation' /\ Plan' /\ Fresh'
  OBVIOUS
<1>2. /\ NewTransport.inconsistent = FALSE /\ NewTransport.cmds = <<>> /\ NewTransport.wr = <<>>
      /\ NewTransport.rd = <<>> /\ NewServer.st = "idle"
  BY DEF NewTransport, NewServer
<1>3. <<>> \o <<>> = <<>>
  BY ConcatEmptySeq, EmptySeq
<1>4. Out' = <<>> /\ In' = <<>> /\ Len(<<>>) = 0
  BY <1>1, <1>2, <1>3 DEF Started, Out, In
<1>5. Silent'
  BY <1>1, <1>2, <1>4 DEF Started, Silent, AllStale
<1>6. Doing' \notin Readers
  BY <1>1, <1>2 DEF Started, Doing, Readers
<1>7. Plan'
  BY <1>1, <1>2, <1>4 DEF Started, Plan
<1>8. Fresh'
  BY <1>1, <1>2 DEF Started, Fresh
<1> QED
  BY <1>5, <1>6, <1>7, <1>8 DEF Conversation

(* A step that says nothing.                                               *)
LEMMA SaysNothing ==
  ASSUME Conversation, Out' = Out, In' = In, UNCHANGED <<srv, closed, rid>>,
         Doing' = Doing \/ (Doing \notin Readers /\ Doing' \notin Readers)
  PROVE  Conversation'
<1>1. CASE Doing \in Readers
  BY <1>1, Undisturbed DEF Conversation
<1>2. CASE Doing \notin Readers
  BY <1>2 DEF Conversation, Silent, AllStale
<1> QED
  BY <1>1, <1>2

(* What is written to a connection that has ended is lost.                 *)
LEMMA WritesInVain ==
  ASSUME TypeOK, TypeOK', Conversation, Fresh, Suffix(Out', Out), In' = In, rid' = rid,
         closed, closed', srv'.st = "idle",
         Doing' = Doing \/ (Doing \notin Readers /\ Doing' \notin Readers)
  PROVE  Conversation'
<1>1. CASE Doing \in Readers
  BY <1>1, Cut DEF Conversation, Fresh
<1>2. CASE Doing \notin Readers
  <2>1. AllStale'
    BY <1>2, StaysStale DEF Conversation, Silent
  <2> QED
    BY <1>2, <2>1 DEF Conversation, Silent
<1> QED
  BY <1>1, <1>2

(* The queues, joined and moved along.                                     *)
LEMMA Moved ==
  ASSUME TypeOK
  PROVE  /\ \A x \in Cmd : t'.cmds = Append(t.cmds, x) /\ t'.wr = t.wr /\ c2s' = c2s
                             => Out' = Append(Out, x)
         /\ t.cmds # <<>> /\ t.wr = <<>> /\ t'.cmds = Tail(t.cmds) /\ t'.wr = <<Head(t.cmds)>>
              /\ c2s' = c2s => Out' = Out
         /\ t'.cmds = t.cmds /\ t'.wr = <<>> /\ c2s' = c2s \o t.wr => Out' = Out
         /\ t'.cmds = t.cmds /\ t'.wr = <<>> /\ c2s' = c2s /\ c2s = <<>> => Suffix(Out', Out)
<1>1. PICK a \in Seq(Cmd), b \in Seq(Cmd), c \in Seq(Cmd) : a = c2s /\ b = t.wr /\ c = t.cmds
  BY Queues
<1>2. Out = a \o b \o c
  BY <1>1 DEF Out
<1>3. ASSUME NEW x \in Cmd, t'.cmds = Append(t.cmds, x), t'.wr = t.wr, c2s' = c2s
      PROVE  Out' = Append(Out, x)
  <2>1. Out' = a \o b \o Append(c, x)
    BY <1>1, <1>3 DEF Out
  <2> QED
    BY <1>2, <2>1, Borders
<1>4. ASSUME t.cmds # <<>>, t.wr = <<>>, t'.cmds = Tail(t.cmds), t'.wr = <<Head(t.cmds)>>, c2s' = c2s
      PROVE  Out' = Out
  <2>1. Out' = a \o <<Head(c)>> \o Tail(c) /\ Out = a \o <<>> \o c /\ c # <<>>
    BY <1>1, <1>4 DEF Out
  <2> QED
    BY <2>1, Borders
<1>5. ASSUME t'.cmds = t.cmds, t'.wr = <<>>, c2s' = c2s \o t.wr
      PROVE  Out' = Out
  <2>1. Out' = (a \o b) \o <<>> \o c
    BY <1>1, <1>5 DEF Out
  <2> QED
    BY <1>2, <2>1, Borders
<1>6. ASSUME t'.cmds = t.cmds, t'.wr = <<>>, c2s' = c2s, c2s = <<>>
      PROVE  Suffix(Out', Out)
  <2>1. Out' = a \o <<>> \o c /\ a = <<>>
    BY <1>1, <1>6 DEF Out
  <2> QED
    BY <1>2, <2>1, Dropped
<1> QED
  BY <1>3, <1>4, <1>5, <1>6


(* A reader has the transport, and keeps the connection as it is.          *)
LEMMA StaysFresh ==
  ASSUME Fresh, present, UNCHANGED <<present, srv, closed>>, closed => c2s' = c2s,
         op' # "panicked", op' = "hello" => op = "hello" /\ UNCHANGED sent
  PROVE  Fresh'
BY DEF Fresh

(* Steps that say nothing: a call is planned, commands move towards the    *)
(* socket, a stream is dropped and leaves its conversation to clear().     *)
LEMMA QuietSteps ==
  ASSUME IInv, TypeOK', PingBeforeQuery = TRUE,
         \/ \E c \in Calls : Call(c)
         \/ Pack \/ AllSent \/ DropStream \/ Flush \/ FlushAddendum
  PROVE  Conversation' /\ Plan' /\ Fresh'
<1>1. TypeOK /\ Steps /\ Conversation /\ Plan /\ Fresh
  BY DEF IInv
<1>2. t \in Transports /\ t.cmds \in Seq(Cmd) /\ t.wr \in Seq(Cmd) /\ t.rd \in Seq(Part)
  BY <1>1, Typed, Queues
<1>3. present
  BY <1>1 DEF Fresh, Call, Pack, AllSent, DropStream, Flush, FlushAddendum, Readers
<1>4. ASSUME NEW c \in Calls, Call(c)  PROVE Conversation' /\ Plan' /\ Fresh'
  <2>1. /\ UNCHANGED <<t, op, rid, sent, present, srv, closed, c2s, s2c>> /\ op = "idle"
        /\ plan' = IF c = "ping" THEN <<c>> ELSE <<"ping", c>>
    BY <1>4 DEF Call, PlanOf, net
  <2>2. Out' = Out /\ In' = In /\ Doing' = Doing
    BY <2>1 DEF Out, In, Doing
  <2>3. Conversation'
    BY <1>1, <2>1, <2>2, SaysNothing
  <2>4. plan' # <<>> /\ plan'[1] = "ping" /\ (Len(plan') = 2 => plan'[2] # "ping")
    BY <2>1
  <2>5. Plan'
    BY <1>1, <2>1, <2>4 DEF Plan
  <2> QED
    BY <1>1, <1>3, <2>1, <2>3, <2>5, StaysFresh
<1>5. ASSUME UNCHANGED <<present, plan, rid, sent, srv, closed>>, t'.inconsistent = t.inconsistent,
             UNCHANGED op \/ (op = "addendum" /\ op' = "idle"),
             In' = In, Out' = Out \/ (closed /\ c2s' = c2s /\ Suffix(Out', Out)), closed => c2s' = c2s
      PROVE  Conversation' /\ Plan' /\ Fresh'
  <2>1. Doing' = Doing \/ (Doing \notin Readers /\ Doing' \notin Readers)
    <3>1. CASE UNCHANGED op
      BY <1>5, <3>1 DEF Doing
    <3>2. CASE op = "addendum" /\ op' = "idle"
      BY <1>1, <1>5, <3>2 DEF Doing, Readers, Plan
    <3> QED
      BY <1>5, <3>1, <3>2
  <2>2. Conversation'
    <3>1. CASE Out' = Out
      BY <1>1, <1>5, <2>1, <3>1, SaysNothing
    <3>2. CASE closed /\ Suffix(Out', Out)
      <4>1. closed' /\ srv'.st = "idle"
        BY <1>1, <1>5, <3>2 DEF Fresh
      <4> QED
        BY <1>1, <1>5, <2>1, <3>2, <4>1, WritesInVain
    <3> QED
      BY <1>5, <3>1, <3>2
  <2>3. Out = <<>> => Out' = <<>>
    BY <1>5, SuffixOfNone, QueuesNext
  <2>4. Plan'
    <3>1. CASE UNCHANGED op
      BY <1>1, <1>5, <2>3, <3>1 DEF Plan
    <3>2. CASE op = "addendum" /\ op' = "idle"
      BY <1>1, <1>5, <3>2 DEF Plan, Steps
    <3> QED
      BY <1>5, <3>1, <3>2
  <2>5. Fresh'
    <3>1. op \in Ops /\ op # "panicked" /\ op' # "panicked" /\ (op' = "hello" => op = "hello")
      BY <1>1, <1>3, <1>5 DEF Fresh, Ops, TypeOK
    <3> QED
      BY <1>1, <1>3, <1>5, <3>1, StaysFresh
  <2> QED
    BY <2>2, <2>4, <2>5
<1>6. CASE Pack
  <2>1. /\ t'.cmds = Tail(t.cmds) /\ t'.wr = <<Head(t.cmds)>> /\ t'.rd = t.rd
        /\ t'.inconsistent = t.inconsistent /\ t.wr = <<>> /\ t.cmds # <<>>
        /\ UNCHANGED <<op, present, plan, rid, sent, srv, closed, c2s, s2c>>
    BY <1>2, <1>6 DEF Pack, net, Transports
  <2>2. Out' = Out /\ In' = In
    BY <1>1, <2>1, Moved DEF In
  <2> QED
    BY <1>5, <2>1, <2>2
<1>7. CASE AllSent
  <2>1. UNCHANGED <<t, op, present, plan, rid, sent, srv, closed, c2s, s2c>>
    BY <1>7 DEF AllSent, net
  <2>2. Out' = Out /\ In' = In
    BY <2>1 DEF Out, In
  <2> QED
    BY <1>5, <2>1, <2>2
<1>8. CASE Flush \/ FlushAddendum
  <2>1. /\ t'.cmds = t.cmds /\ t'.wr = <<>> /\ t'.rd = t.rd /\ t'.inconsistent = t.inconsistent
        /\ c2s' = (IF closed THEN c2s ELSE c2s \o t.wr)
        /\ UNCHANGED <<present, plan, rid, sent, srv, closed, s2c>>
        /\ UNCHANGED op \/ (op = "addendum" /\ op' = "idle")
    BY <1>2, <1>8 DEF Flush, FlushAddendum, Transports
  <2>2. In' = In
    BY <2>1 DEF In
  <2>3. CASE ~closed
    <3>1. c2s' = c2s \o t.wr
      BY <2>1, <2>3
    <3>2. Out' = Out
      BY <1>1, <2>1, <3>1, Moved
    <3> QED
      BY <1>5, <2>1, <2>2, <2>3, <3>2
  <2>4. CASE closed
    <3>1. c2s' = c2s /\ c2s = <<>>
      BY <1>1, <2>1, <2>4 DEF Fresh
    <3>2. Suffix(Out', Out)
      BY <1>1, <2>1, <3>1, Moved
    <3> QED
      BY <1>5, <2>1, <2>2, <2>4, <3>1, <3>2
  <2> QED
    BY <2>3, <2>4
<1>9. CASE DropStream
  <2>1. /\ t'.cmds = t.cmds /\ t'.wr = t.wr /\ t'.rd = t.rd /\ t'.inconsistent = TRUE
        /\ op = "blocks" /\ op' = "idle"
        /\ UNCHANGED <<present, plan, rid, sent, srv, closed, c2s, s2c>>
    BY <1>2, <1>9 DEF DropStream, AfterDrop, net, Transports
  <2>2. Out' = Out /\ In' = In /\ Doing' = Doing
    BY <2>1 DEF Out, In, Doing
  <2>3. Conversation'
    BY <1>1, <2>1, <2>2, SaysNothing
  <2>4. Plan'
    BY <1>1, <2>1 DEF Plan, Steps
  <2>5. Fresh'
    BY <1>1, <1>3, <2>1, StaysFresh
  <2> QED
    BY <2>3, <2>4, <2>5
<1> QED
  BY <1>4, <1>6, <1>7, <1>8, <1>9

(* Steps that lose the connection.                                         *)
LEMMA LosingSteps ==
  ASSUME NEW o \in {"idle", "panicked"}, Lose(o)
  PROVE  Conversation' /\ Plan' /\ Fresh'
BY StartsSilent DEF Lose, Started


(* A request that is still to leave is not stale.                          *)
LEMMA NothingAsked ==
  ASSUME TypeOK, NEW r \in Readers, Ordered(r), AllStale, r # "clear"
  PROVE  Out = <<>>
<1>1. PICK n \in Nat : n = Len(Out) /\ Out \in Seq(Cmd)
  BY Queues
<1>2. n > 0 => n \in 1..n /\ ~(n < n)
  OBVIOUS
<1>3. n = 0
  BY <1>1, <1>2 DEF Ordered, AllStale
<1> QED
  BY ONLY <1>1, <1>3, Nothing

(* A request is made over a connection on which nothing is being said.     *)
LEMMA AsksLast ==
  ASSUME TypeOK, TypeOK', NEW r \in Readers, r # "clear", Out' = Append(Out, Request(r)'),
         AllStale, Out = <<>> \/ r = "ping", In' = <<>>,
         \/ srv'.st = IF r = "tail" THEN "insert" ELSE "idle"
         \/ closed' /\ srv'.st = "idle",
         srv'.st # "idle" => srv'.id = rid'
  PROVE  Talk(r)'
<1>1. PICK n \in Nat : n = Len(Out) /\ Out \in Seq(Cmd)
  BY Queues
<1>2. PICK q : q = Request(r)'
  OBVIOUS
<1>3. ~Stale(q)
  <2>1. q.k = Asks[r]
    BY <1>2 DEF Request
  <2> QED
    BY <2>1, Words DEF Stale
<1>4. q \in Cmd
  <2>1. q = [k |-> Asks[r], id |-> rid']
    BY <1>2 DEF Request
  <2>2. rid' \in 0..MaxRequests
    BY DEF TypeOK
  <2> QED
    BY <2>1, <2>2, Words DEF Cmd
<1>5. /\ Len(Out') = n + 1 /\ \A i \in 1..n : Out'[i] = Out[i]
      /\ Out'[n + 1] = q
  <2>1. Out' = Append(Out, q)
    BY <1>2
  <2> QED
    BY <1>1, <1>4, <2>1, AppendProperties
<1>6. \A i \in 1..n + 1 : i \in 1..n \/ i = n + 1
  BY <1>1
<1>7. \A i \in 1..n : Stale(Out'[i])
  BY <1>1, <1>5 DEF AllStale
<1>8. n = 0 \/ r = "ping"
  BY <1>1, EmptySeq
<1>9. \A i \in 1..n + 1 : Stale(Out'[i]) <=> i < n + 1
  BY <1>3, <1>5, <1>6, <1>7
<1>10. \A i \in 1..n + 1 : Out'[i] = Request(r)' \/ Stale(Out'[i])
  BY <1>2, <1>5, <1>6, <1>7
<1>11. Ordered(r)'
  BY <1>5, <1>8, <1>9, <1>10 DEF Ordered
<1>12. ~AllStale'
  <2>1. n + 1 \in 1..n + 1 /\ ~Stale(Out'[n + 1])
    BY <1>3, <1>5
  <2> QED
    BY <1>5, <2>1 DEF AllStale
<1>13. Len(In') = 0
  OBVIOUS
<1>14. Asked(r)' \/ CutOff(r)'
  BY <1>12, <1>13 DEF Asked, CutOff
<1> QED
  BY <1>11, <1>13, <1>14 DEF Talk

(* clear() takes over the conversation of the stream, and cancels it.      *)
LEMMA BeginClearSays ==
  ASSUME IInv, TypeOK', BeginClear
  PROVE  Conversation' /\ Plan' /\ Fresh'
<1>1. TypeOK /\ Steps /\ Conversation /\ Plan /\ Fresh /\ t \in Transports /\ Len(plan) <= 2
  BY Typed DEF IInv
<1>2. PICK c \in Cmd : c = [k |-> "cancel", id |-> 0]
  <2>1. [k |-> "cancel", id |-> 0] \in Cmd
    BY <1>1, Typed DEF Cmd, CmdKinds
  <2> QED
    BY <2>1
<1>3. /\ t'.cmds = Append(t.cmds, c) /\ t'.wr = t.wr /\ t'.rd = t.rd /\ t'.inconsistent
      /\ t.inconsistent /\ op = "idle" /\ plan # <<>> /\ op' = "clear"
      /\ UNCHANGED <<present, plan, rid, sent, srv, closed, c2s, s2c>>
  BY <1>1, <1>2 DEF BeginClear, net, Transports
<1>4. Out' = Append(Out, c) /\ In' = In /\ Doing = "blocks" /\ Doing' = "clear"
  BY <1>1, <1>3, Moved DEF In, Doing
<1>5. Talk("blocks")
  BY <1>1, <1>4 DEF Conversation, Readers
<1>6. /\ Asks["clear"] = Asks["blocks"] /\ Kinds("clear") = Kinds("blocks")
      /\ Ends("clear") = Ends("blocks") /\ Asks["clear"] = "query" /\ Asks["blocks"] = "query"
  BY DEF Asks, Kinds, Ends
<1>7. PICK n \in Nat : n = Len(Out) /\ Out \in Seq(Cmd)
  BY <1>1, Queues
<1>8. /\ n <= 1 /\ \A i \in 1..n : Out[i] = Request("blocks") \/ Stale(Out[i])
      /\ \A i \in 1..n : Stale(Out[i]) <=> i < n
  BY <1>5, <1>7 DEF Talk, Ordered
<1>9. Len(Out') = n + 1 /\ Out'[n + 1] = c /\ \A i \in 1..n : Out'[i] = Out[i]
  BY <1>4, <1>7, AppendProperties
<1>10. Stale(c)
  BY <1>2 DEF Stale
<1>11. \A i \in 1..n + 1 : i \in 1..n \/ i = n + 1
  BY <1>7
<1>12. Request("clear")' = Request("blocks")
  BY <1>3, <1>6 DEF Request
<1>13. \A i \in 1..n + 1 : Out'[i] = Request("clear")' \/ Stale(Out'[i])
  BY <1>8, <1>9, <1>10, <1>11, <1>12
<1>14. n + 1 = 2 => Stale(Out'[2])
  BY <1>9, <1>10
<1>15. n + 1 <= 2
  BY <1>8
<1>16. Ordered("clear")'
  BY <1>9, <1>13, <1>14, <1>15 DEF Ordered
<1>17. AllStale' <=> AllStale
  <2>1. \A i \in 1..n : i \in 1..n + 1 /\ (Stale(Out'[i]) <=> Stale(Out[i]))
    BY <1>9
  <2> QED
    BY <1>7, <1>9, <1>10, <1>11, <2>1 DEF AllStale
<1>18. Talk("clear")'
  <2>1. Len(In') % 2 = 0 /\ \A i \in 1..Len(In') : In'[i].id = rid' /\ In'[i].k \in Kinds("clear")
    BY <1>3, <1>4, <1>5, <1>6 DEF Talk
  <2>2. srv'.st # "idle" => srv'.id = rid'
    BY <1>3, <1>5 DEF Talk
  <2>3. CASE Asked("blocks")
    BY <1>3, <1>4, <1>16, <1>17, <2>1, <2>2, <2>3 DEF Talk, Asked
  <2>4. CASE Running("blocks")
    BY <1>3, <1>4, <1>6, <1>16, <1>17, <2>1, <2>2, <2>4 DEF Talk, Running
  <2>5. CASE Answered("blocks")
    BY <1>3, <1>4, <1>6, <1>16, <1>17, <2>1, <2>2, <2>5 DEF Talk, Answered
  <2>6. CASE CutOff("blocks")
    BY <1>3, <1>4, <1>6, <1>16, <1>17, <2>1, <2>2, <2>6 DEF Talk, CutOff
  <2>7. CASE Unsent("blocks")
    BY <1>3, <1>4, <1>16, <1>17, <2>1, <2>2, <2>7 DEF Talk, Unsent
  <2> QED
    BY <1>5, <2>3, <2>4, <2>5, <2>6, <2>7 DEF Talk
<1>19. Conversation'
  BY <1>4, <1>18 DEF Conversation, Readers
<1>20. Plan'
  BY <1>1, <1>3 DEF Plan
<1>21. present
  BY <1>1, <1>3 DEF Steps
<1>22. Fresh'
  BY <1>1, <1>3, <1>21, StaysFresh
<1> QED
  BY <1>19, <1>20, <1>22


(* What is left of a queue whose first is taken.                           *)
LEMMA Rest ==
  ASSUME NEW S, NEW s \in Seq(S), NEW n \in Nat, n = Len(s), n > 0
  PROVE  /\ Tail(s) \in Seq(S) /\ Len(Tail(s)) = n - 1
         /\ \A i \in 1..n - 1 : Tail(s)[i] = s[i + 1]
         /\ n = 1 => Tail(s) = <<>>
<1>1. s # <<>>
  BY Nothing
<1>2. /\ Tail(s) \in Seq(S) /\ Len(Tail(s)) = n - 1
      /\ \A i \in 1..n - 1 : Tail(s)[i] = s[i + 1]
  BY <1>1, HeadTailProperties
<1>3. n = 1 => Tail(s) = <<>>
  <2>1. PICK m \in Nat, u \in Seq(S) : m = n - 1 /\ u = Tail(s) /\ m = Len(u)
    <3>1. PICK m \in Nat : m = n - 1
      OBVIOUS
    <3>2. m = Len(Tail(s))
      BY <1>2, <3>1
    <3> QED
      BY <1>2, <3>1, <3>2
  <2>2. u = <<>> <=> m = 0
    BY <2>1, Nothing
  <2> QED
    BY <2>1, <2>2
<1> QED
  BY <1>2, <1>3

(* A call begins on a connection on which nothing is being said.           *)
LEMMA BeginCallSays ==
  ASSUME IInv, TypeOK', BeginCall
  PROVE  Conversation' /\ Plan' /\ Fresh'
<1>1. /\ TypeOK /\ Steps /\ Conversation /\ Plan /\ Fresh /\ t \in Transports
      /\ plan \in Seq(Calls) /\ Len(plan) <= 2 /\ sent \in 0..MaxRequests /\ MaxRequests \in Nat
  BY Typed DEF IInv
<1>2. PICK n \in Nat : n = Len(plan)
  BY <1>1, LenProperties
<1>3. PICK p \in Calls : p = plan[1] /\ Head(plan) = p
  <2>1. plan # <<>>
    BY DEF BeginCall
  <2> QED
    BY <1>1, <2>1, HeadTailProperties
<1>4. PICK r \in {"ping", "execute", "header", "blocks"} : r = FirstReader[p] /\ FirstCmd[p] = Asks[r]
  BY DEF FirstReader, FirstCmd, Asks, Calls
<1>5. op = "idle" /\ plan # <<>> /\ ~(p \in Clearing /\ t.inconsistent)
  BY <1>3 DEF BeginCall
<1>6. ~t.inconsistent /\ (p # "ping" => Out = <<>>)
  <2>1. p # "ping" => ~t.inconsistent /\ Out = <<>>
    BY <1>1, <1>3, <1>5 DEF Plan
  <2> QED
    BY <1>5, <2>1 DEF Clearing
<1>7. AllStale /\ In = <<>> /\ srv.st = "idle"
  BY <1>1, <1>5, <1>6 DEF Conversation, Doing, Silent, Readers
<1>8. sent + 1 \in 0..MaxRequests
  <2>1. n > 0 /\ sent + n <= MaxRequests
    BY <1>1, <1>2, <1>5, Nothing DEF Steps
  <2> QED
    BY <1>1, <2>1
<1>9. PICK c \in Cmd : c = [k |-> Asks[r], id |-> sent + 1]
  <2>1. [k |-> Asks[r], id |-> sent + 1] \in Cmd
    BY <1>8 DEF Asks, Cmd, CmdKinds
  <2> QED
    BY <2>1
<1>10. /\ t'.cmds = Append(t.cmds, c) /\ t'.wr = t.wr /\ t'.rd = t.rd
       /\ t'.inconsistent = t.inconsistent
       /\ op' = r /\ rid' = sent + 1 /\ sent' = sent + 1 /\ plan' = Tail(plan)
       /\ UNCHANGED <<present, srv, closed, c2s, s2c>>
  BY <1>1, <1>3, <1>4, <1>9 DEF BeginCall, net, Transports
<1>11. Out' = Append(Out, c) /\ In' = In /\ Doing' = r
  BY <1>1, <1>10, Moved DEF In, Doing
<1>12. c = Request(r)'
  BY <1>9, <1>10 DEF Request
<1>13. Talk(r)'
  <2>1. Out = <<>> \/ r = "ping"
    BY <1>4, <1>6 DEF FirstReader, Calls
  <2>2. r \in Readers /\ r # "clear" /\ r # "tail"
    BY DEF Readers
  <2>3. Out' = Append(Out, Request(r)') /\ In' = <<>> /\ srv'.st = "idle"
    BY <1>7, <1>10, <1>11, <1>12
  <2> QED
    BY <1>1, <1>7, <2>1, <2>2, <2>3, AsksLast
<1>14. Conversation'
  BY <1>11, <1>13 DEF Conversation, Readers
<1>15. Plan'
  <2>1. CASE n = 2
    <3>1. p = "ping" /\ r = "ping"
      BY <1>1, <1>2, <1>3, <1>4, <2>1 DEF Steps, FirstReader
    <3>2. Len(plan') = 1 /\ plan'[1] = plan[2] /\ plan[2] # "ping"
      <4>1. n > 0 /\ 1 \in 1..n - 1 /\ n - 1 = 1 /\ 1 + 1 = 2
        BY <2>1
      <4>2. Len(Tail(plan)) = n - 1 /\ Tail(plan)[1] = plan[1 + 1]
        BY <1>1, <1>2, <4>1, Rest
      <4>3. Len(plan) = 2
        BY <1>2, <2>1
      <4>4. plan[2] # "ping"
        BY <1>1, <4>3 DEF Plan
      <4> QED
        BY <1>10, <4>1, <4>2, <4>4
    <3> QED
      BY <1>5, <1>6, <1>10, <3>1, <3>2 DEF Plan
  <2>2. CASE n # 2
    <3>1. n = 1
      BY <1>1, <1>2, <1>5, <2>2, Nothing
    <3>2. Tail(plan) = <<>>
      <4>1. n > 0
        BY <3>1
      <4>2. n = 1 => Tail(plan) = <<>>
        BY <1>1, <1>2, <4>1, Rest
      <4> QED
        BY <3>1, <4>2
    <3>3. plan' = <<>>
      BY <1>10, <3>2
    <3>4. /\ Len(plan') = 0 /\ op' \notin {"idle", "clear"} /\ ~t'.inconsistent /\ rid' = sent'
      BY <1>6, <1>10, <3>3
    <3> QED
      BY <3>3, <3>4 DEF Plan
  <2> QED
    BY <2>1, <2>2
<1>16. Fresh'
  <2>1. present
    BY <1>1, <1>5 DEF Steps
  <2> QED
    BY <1>1, <1>10, <2>1, StaysFresh
<1> QED
  BY <1>14, <1>15, <1>16

(* A new connection begins with the hello.                                 *)
LEMMA ConnectSays ==
  ASSUME IInv, TypeOK', Connect
  PROVE  Conversation' /\ Plan' /\ Fresh'
<1>1. TypeOK /\ Steps /\ Conversation /\ Plan /\ Fresh /\ t \in Transports /\ 0 \in 0..MaxRequests
  BY Typed DEF IInv
<1>2. /\ t = NewTransport /\ c2s = <<>> /\ s2c = <<>> /\ srv.st = "idle" /\ ~closed
      /\ sent = 0 /\ plan = <<>> /\ rid = 0
  BY <1>1 DEF Connect, Fresh, Steps, Plan, NewServer
<1>3. t.cmds = <<>> /\ t.wr = <<>> /\ t.rd = <<>> /\ ~t.inconsistent
  BY <1>2 DEF NewTransport
<1>4. PICK c \in Cmd : c = [k |-> "hello", id |-> 0]
  <2>1. [k |-> "hello", id |-> 0] \in Cmd
    BY <1>1 DEF Cmd, CmdKinds
  <2> QED
    BY <2>1
<1>5. Append(<<>>, c) = <<c>>
  OBVIOUS
<1>6. /\ t'.cmds = Append(t.cmds, c) /\ t'.wr = t.wr /\ t'.rd = t.rd /\ ~t'.inconsistent
      /\ op' = "hello" /\ present'
      /\ UNCHANGED <<plan, rid, sent, srv, closed, c2s, s2c>>
  BY <1>1, <1>3, <1>4, <1>5 DEF Connect, net, Transports
<1>7. Out' = Append(Out, c) /\ In' = In /\ Doing' = "hello"
  BY <1>1, <1>6, Moved DEF In, Doing
<1>8. Out = <<>> /\ In = <<>> /\ AllStale
  <2>1. Out = <<>> /\ In = <<>>
    BY <1>2, <1>3, ConcatEmptySeq, EmptySeq DEF Out, In
  <2> QED
    BY <2>1 DEF AllStale
<1>9. c = Request("hello")'
  BY <1>2, <1>4, <1>6 DEF Request, Asks
<1>10. Talk("hello")'
  <2>1. "hello" \in Readers
    BY DEF Readers
  <2> QED
    BY <1>1, <1>2, <1>6, <1>7, <1>8, <1>9, <2>1, AsksLast
<1>11. Conversation'
  BY <1>7, <1>10 DEF Conversation, Readers
<1>12. Plan'
  BY <1>1, <1>2, <1>6 DEF Plan
<1>13. Fresh'
  BY <1>2, <1>6 DEF Fresh
<1> QED
  BY <1>11, <1>12, <1>13

(* A query that cannot be encoded is gone before anything of it was sent.  *)
LEMMA PackFailsSays ==
  ASSUME IInv, TypeOK', PackFails
  PROVE  Conversation' /\ Plan' /\ Fresh'
<1>1. TypeOK /\ Steps /\ Conversation /\ Plan /\ Fresh /\ t \in Transports
  BY Typed DEF IInv
<1>2. CASE Lose("idle")
  BY <1>2, LosingSteps
<1>3. CASE /\ op = "blocks" /\ t' = [t EXCEPT !.cmds = Tail(@)]
           /\ UNCHANGED <<present, op, plan, ps, rid, sent, net>>
  <2>1. /\ t'.cmds = Tail(t.cmds) /\ t'.wr = t.wr /\ t'.rd = t.rd /\ t'.inconsistent = t.inconsistent
        /\ t.wr = <<>> /\ t.cmds # <<>> /\ op = "blocks"
        /\ UNCHANGED <<present, op, plan, rid, sent, srv, closed, c2s, s2c>>
    BY <1>1, <1>3 DEF PackFails, net, Transports
  <2>2. "query" \in Unencodable
    <3>1. PICK c \in Unencodable : "blocks" = FirstReader[c]
      BY <1>3 DEF PackFails
    <3> QED
      BY <3>1, EncodeAssumption DEF FirstReader
  <2>3. Doing = "blocks" /\ Doing' = "blocks" /\ In' = In
    BY <2>1 DEF Doing, In
  <2>4. Talk("blocks")
    BY <1>1, <2>3 DEF Conversation, Readers
  <2>5. PICK n \in Nat : n = Len(Out) /\ Out \in Seq(Cmd)
    BY <1>1, Queues
  <2>6. PICK a \in Nat, b \in Nat : a = Len(c2s) /\ b = Len(t.cmds)
    BY <1>1, Queues, LenProperties
  <2>7. n = a + b
    <3>1. Out = c2s \o t.cmds
      BY <1>1, <2>1, Queues, ConcatEmptySeq DEF Out
    <3> QED
      BY <1>1, <2>5, <2>6, <3>1, Queues, ConcatProperties
  <2>8. b > 0
    BY <1>1, <2>1, <2>6, Queues, Nothing
  <2>9. n <= 1 /\ \A i \in 1..n : Stale(Out[i]) <=> i < n
    BY <2>4, <2>5 DEF Talk, Ordered
  <2>10. a = 0 /\ b = 1 /\ n = 1
    BY <2>7, <2>8, <2>9
  <2>11. ~AllStale
    BY <2>5, <2>9, <2>10 DEF AllStale
  <2>12. In = <<>> /\ srv.st = "idle"
    BY <2>4, <2>11 DEF Talk, Asked, Running, Answered, CutOff, Unsent
  <2>13. Out' = <<>> /\ Len(Out') = 0
    <3>1. c2s = <<>>
      BY <1>1, <2>6, <2>10, Queues, Nothing
    <3>2. Tail(t.cmds) = <<>>
      <4>1. PICK q \in Seq(Cmd) : q = t.cmds /\ b = Len(q)
        BY <1>1, <2>6, Queues
      <4>2. b = 1 => Tail(q) = <<>>
        BY <2>8, <4>1, Rest
      <4> QED
        BY <2>10, <4>1, <4>2
    <3>3. t'.cmds = <<>>
      BY <2>1, <3>2
    <3> QED
      BY <2>1, <3>1, <3>3, ConcatEmptySeq, EmptySeq DEF Out
  <2>14. Talk("blocks")'
    <3>1. AllStale' /\ Ordered("blocks")'
      BY <2>13 DEF AllStale, Ordered
    <3>2. In' = <<>> /\ Len(In') = 0 /\ srv'.st = "idle"
      BY <2>1, <2>3, <2>12
    <3>3. Unsent("blocks")'
      BY <2>2, <3>1, <3>2 DEF Unsent
    <3> QED
      BY <3>1, <3>2, <3>3 DEF Talk
  <2>15. Conversation'
    BY <2>3, <2>14 DEF Conversation, Readers
  <2>16. Plan'
    BY <1>1, <2>1, <2>13 DEF Plan
  <2>17. Fresh'
    <3>1. present
      BY <1>1, <2>1 DEF Fresh
    <3> QED
      BY <1>1, <2>1, <3>1, StaysFresh
  <2> QED
    BY <2>15, <2>16, <2>17
<1> QED
  BY <1>2, <1>3 DEF PackFails


(* A reader reads the first packet of its reply, and does what it says.    *)
LEMMA DeliverSays ==
  ASSUME IInv, TypeOK', op \in Readers, NEW u \in Transports,
         u.cmds = t.cmds, u.wr = t.wr, u.inconsistent = t.inconsistent,
         HasPacket(u.rd), Deliver(u), s2c' \in Seq(Part), u.rd \o s2c' = In
  PROVE  Conversation' /\ Plan' /\ Fresh'
<1>1. /\ TypeOK /\ Steps /\ Conversation /\ Plan /\ Fresh /\ present
      /\ MaxRequests \in Nat /\ rid \in 0..MaxRequests /\ sent \in 0..MaxRequests
  BY Typed DEF IInv, Fresh, Readers
<1>2. PICK r \in Readers : r = op /\ r = Doing /\ Talk(r)
  BY <1>1 DEF Conversation, Doing, Readers
<1>3. PICK v \in Transports : /\ v = [u EXCEPT !.rd = SubSeq(u.rd, 3, Len(u.rd))]
                              /\ v.rd = SubSeq(u.rd, 3, Len(u.rd)) /\ v.cmds = t.cmds /\ v.wr = t.wr
                              /\ v.inconsistent = t.inconsistent
                              /\ v.rd \o s2c' = SubSeq(In, 3, Len(In)) /\ 2 <= Len(In)
                              /\ Head(u.rd) = In[1]
  <2>1. PICK a \in Seq(Part), b \in Seq(Part) : a = u.rd /\ b = s2c' /\ 2 <= Len(a) /\ a \o b = In
    BY DEF Transports, HasPacket
  <2>2. /\ SubSeq(a, 3, Len(a)) \in Seq(Part)
        /\ SubSeq(a, 3, Len(a)) \o b = SubSeq(a \o b, 3, Len(a \o b))
        /\ Len(a \o b) >= 2 /\ Head(a) = (a \o b)[1]
    <3>1. a \in Seq(Part) /\ b \in Seq(Part) /\ 2 <= Len(a)
      BY <2>1
    <3> QED
      BY ONLY <3>1, TakesTwo
  <2>3. PICK p \in Seq(Part) : p = SubSeq(u.rd, 3, Len(u.rd)) /\ p \o s2c' = SubSeq(In, 3, Len(In))
    BY <2>1, <2>2
  <2>4. Head(u.rd) = In[1] /\ 2 <= Len(In)
    BY <1>1, <2>1, <2>2, Queues
  <2>5. PICK v : v = [u EXCEPT !.rd = p]
    OBVIOUS
  <2>6. /\ v \in Transports /\ v.rd = p /\ v.cmds = u.cmds /\ v.wr = u.wr
        /\ v.inconsistent = u.inconsistent
    BY <2>5 DEF Transports
  <2>7. v.rd = SubSeq(u.rd, 3, Len(u.rd)) /\ v.rd \o s2c' = SubSeq(In, 3, Len(In))
    BY <2>3, <2>6
  <2>8. v = [u EXCEPT !.rd = SubSeq(u.rd, 3, Len(u.rd))]
    BY <2>3, <2>5
  <2> QED
    BY <2>4, <2>6, <2>7, <2>8
<1>4. PICK k : k = Head(u.rd).k /\ k = In[1].k
  BY <1>3
<1>5. /\ UNCHANGED <<present, plan, c2s, srv, closed>>
      /\ \/ k \in Skipped[r] /\ Finishes(v, r)
         \/ /\ k \in Last[r]
            /\ \/ /\ r = "hello"
                  /\ Finishes([v EXCEPT !.wr = <<[k |-> "addendum", id |-> 0]>>], "addendum")
               \/ r = "clear" /\ Finishes([v EXCEPT !.inconsistent = FALSE], "idle")
               \/ r \in {"ping", "execute", "tail", "blocks"} /\ Finishes(v, "idle")
               \/ /\ r = "header" /\ UNCHANGED <<rid, sent>>
                  /\ Continues(v, "tail", [k |-> "data", id |-> rid])
               \/ /\ r = "tail" /\ sent < MaxRequests /\ rid' = sent + 1 /\ sent' = sent + 1
                  /\ Continues(v, "header", [k |-> "insert", id |-> sent + 1])
  BY ZenonT(30), <1>2, <1>3, <1>4, Outcomes
<1>6. t'.rd = v.rd
  <2>1. /\ v.rd = [v EXCEPT !.wr = <<[k |-> "addendum", id |-> 0]>>].rd
        /\ v.rd = [v EXCEPT !.inconsistent = FALSE].rd
    BY <1>3 DEF Transports
  <2>2. \A c : v.rd = [v EXCEPT !.cmds = Append(@, c)].rd
    BY <1>3 DEF Transports
  <2> QED
    BY ZenonT(30), <1>5, <2>1, <2>2 DEF Finishes, Continues
<1>7. In' = SubSeq(In, 3, Len(In))
  BY <1>3, <1>6 DEF In
<1>8. /\ k \in Kinds(r)
      /\ k \notin Ends(r) /\ Out' = Out /\ UNCHANGED <<srv, closed, rid>> => Talk(r)'
      /\ k \in Ends(r) => /\ AllStale /\ In' = <<>>
                          /\ srv.st = "idle" \/ (r = "header" /\ srv.st = "insert")
                          /\ r = "header" => srv.st = "insert" \/ closed
  BY <1>1, <1>2, <1>3, <1>4, <1>7, Delivered
<1>9. ~t.inconsistent \/ r = "clear"
  BY <1>1, <1>2 DEF Plan, Readers
<1>10. Fresh'
  <2>1. op' # "panicked" /\ (op' = "hello" => op = "hello" /\ UNCHANGED sent)
    BY <1>2, <1>5 DEF Finishes, Continues, Readers
  <2> QED
    BY <1>1, <1>5, <2>1, StaysFresh
<1>11. CASE k \in Skipped[r] /\ Finishes(v, r)
  <2>1. t' = v /\ UNCHANGED <<op, rid, sent>>
    BY <1>2, <1>11 DEF Finishes
  <2>2. Out' = Out /\ Doing' = Doing
    BY <1>3, <1>5, <2>1 DEF Out, Doing
  <2>3. k \notin Ends(r)
    BY <1>11, Words
  <2>4. Conversation'
    BY <1>2, <1>5, <1>8, <2>1, <2>2, <2>3 DEF Conversation
  <2>5. Plan'
    BY <1>1, <1>3, <1>5, <2>1, <2>2 DEF Plan
  <2> QED
    BY <1>10, <2>4, <2>5
<1>12. ASSUME k \in Last[r]
       PROVE  /\ AllStale /\ In' = <<>> /\ (r # "header" => srv.st = "idle")
              /\ r = "header" => srv.st = "insert" \/ (closed /\ srv.st = "idle")
              /\ r # "clear" => Out = <<>>
  <2>1. k \in Ends(r)
    BY <1>8, <1>12, Words
  <2>2. r # "clear" => Out = <<>>
    BY <1>1, <1>2, <1>8, <2>1, NothingAsked DEF Talk
  <2> QED
    BY <1>1, <1>8, <2>1, <2>2 DEF Fresh
<1>13. CASE /\ k \in Last[r] /\ r = "hello"
            /\ Finishes([v EXCEPT !.wr = <<[k |-> "addendum", id |-> 0]>>], "addendum")
  <2>1. PICK c \in Cmd : c = [k |-> "addendum", id |-> 0]
    <3>1. [k |-> "addendum", id |-> 0] \in Cmd
      BY <1>1 DEF Cmd, CmdKinds
    <3> QED
      BY <3>1
  <2>2. t'.cmds = t.cmds /\ t'.wr = <<c>> /\ t'.inconsistent = t.inconsistent /\ op' = "addendum"
        /\ UNCHANGED <<rid, sent>>
    BY <1>3, <1>13, <2>1 DEF Finishes, Transports
  <2>3. Out = <<>> /\ In' = <<>> /\ srv.st = "idle"
    BY <1>12, <1>13
  <2>4. c2s = <<>> /\ t.cmds = <<>>
    <3>1. PICK a \in Seq(Cmd), b \in Seq(Cmd), d \in Seq(Cmd) : a = c2s /\ b = t.wr /\ d = t.cmds
      BY <1>1, Queues
    <3>2. (a \o b) \o d = <<>> /\ a \o b \in Seq(Cmd)
      BY <2>3, <3>1, ConcatProperties DEF Out
    <3>3. a \o b = <<>> /\ d = <<>>
      BY <3>2, ConcatEqualIffEmpty
    <3> QED
      BY <3>1, <3>3, ConcatEqualIffEmpty
  <2>5. Out' = <<c>>
    <3>1. <<c>> \in Seq(Cmd) /\ <<>> \o <<c>> \o <<>> = <<c>>
      BY ConcatEmptySeq
    <3> QED
      BY <1>5, <2>2, <2>4, <3>1 DEF Out
  <2>6. AllStale'
    <3>1. Len(<<c>>) = 1 /\ <<c>>[1] = c /\ Stale(c)
      BY <2>1 DEF Stale
    <3>2. \A i \in 1..1 : i = 1
      OBVIOUS
    <3> QED
      BY <2>5, <3>1, <3>2 DEF AllStale
  <2>7. Conversation'
    BY <1>5, <2>2, <2>3, <2>6 DEF Conversation, Silent, Doing, Readers
  <2>8. Plan'
    BY <1>1, <1>2, <1>5, <1>9, <1>13, <2>2 DEF Plan, Steps
  <2> QED
    BY <1>10, <2>7, <2>8
<1>14. CASE k \in Last[r] /\ r = "clear" /\ Finishes([v EXCEPT !.inconsistent = FALSE], "idle")
  <2>1. t'.cmds = t.cmds /\ t'.wr = t.wr /\ ~t'.inconsistent /\ op' = "idle" /\ UNCHANGED <<rid, sent>>
    BY <1>3, <1>14 DEF Finishes, Transports
  <2>2. Out' = Out /\ In' = <<>> /\ AllStale /\ srv.st = "idle"
    BY <1>5, <1>12, <1>14, <2>1 DEF Out
  <2>3. Conversation'
    BY <1>5, <2>1, <2>2 DEF Conversation, Silent, AllStale, Doing, Readers
  <2>4. Plan'
    BY <1>1, <1>2, <1>5, <1>14, <2>1 DEF Plan
  <2> QED
    BY <1>10, <2>3, <2>4
<1>15. CASE k \in Last[r] /\ r \in {"ping", "execute", "tail", "blocks"} /\ Finishes(v, "idle")
  <2>1. t'.cmds = t.cmds /\ t'.wr = t.wr /\ ~t'.inconsistent /\ op' = "idle" /\ UNCHANGED <<rid, sent>>
    BY <1>3, <1>9, <1>15 DEF Finishes
  <2>2. Out' = Out /\ Out = <<>> /\ In' = <<>> /\ AllStale /\ srv.st = "idle"
    BY <1>5, <1>12, <1>15, <2>1 DEF Out
  <2>3. Conversation'
    BY <1>5, <2>1, <2>2 DEF Conversation, Silent, AllStale, Doing, Readers
  <2>4. Plan'
    BY <1>1, <1>2, <1>5, <1>15, <2>1, <2>2 DEF Plan
  <2> QED
    BY <1>10, <2>3, <2>4
<1>16. ASSUME k \in Last[r], NEW s \in Readers, NEW c \in Cmd,
              <<r, s>> \in {<<"header", "tail">>, <<"tail", "header">>},
              Continues(v, s, c), c = Request(s)', rid' = sent',
              r = "header" => rid' = rid
       PROVE  Conversation' /\ Plan' /\ Fresh'
  <2>1. t'.cmds = Append(t.cmds, c) /\ t'.wr = t.wr /\ t'.inconsistent = t.inconsistent /\ op' = s
    BY <1>3, <1>16 DEF Continues, Transports
  <2>2. Out' = Append(Out, c) /\ Doing' = s
    BY <1>1, <1>5, <1>16, <2>1, Moved DEF Doing
  <2>3. Out = <<>> /\ In' = <<>> /\ AllStale
    BY <1>12, <1>16
  <2>4. /\ \/ srv'.st = IF s = "tail" THEN "insert" ELSE "idle"
           \/ closed' /\ srv'.st = "idle"
        /\ srv'.st # "idle" => srv'.id = rid'
    BY <1>2, <1>5, <1>12, <1>16 DEF Talk
  <2>5. Talk(s)'
    BY <1>1, <1>16, <2>2, <2>3, <2>4, AsksLast
  <2>6. Conversation'
    BY <2>2, <2>5 DEF Conversation
  <2>7. Plan'
    BY <1>1, <1>2, <1>5, <1>9, <1>16, <2>1 DEF Plan, Steps
  <2> QED
    BY <1>10, <2>6, <2>7
<1>17. CASE /\ k \in Last[r] /\ r = "header" /\ UNCHANGED <<rid, sent>>
            /\ Continues(v, "tail", [k |-> "data", id |-> rid])
  <2>1. [k |-> "data", id |-> rid] \in Cmd
    BY <1>1 DEF Cmd, CmdKinds
  <2>2. [k |-> "data", id |-> rid] = Request("tail")' /\ rid' = sent' /\ "tail" \in Readers
    BY <1>1, <1>17 DEF Request, Asks, Plan, Readers
  <2> QED
    BY <1>16, <1>17, <2>1, <2>2
<1>18. CASE /\ k \in Last[r] /\ r = "tail" /\ sent < MaxRequests /\ rid' = sent + 1
            /\ sent' = sent + 1 /\ Continues(v, "header", [k |-> "insert", id |-> sent + 1])
  <2>1. [k |-> "insert", id |-> sent + 1] \in Cmd
    BY <1>1, <1>18 DEF Cmd, CmdKinds
  <2>2. [k |-> "insert", id |-> sent + 1] = Request("header")' /\ rid' = sent' /\ "header" \in Readers
    BY <1>18 DEF Request, Asks, Readers
  <2> QED
    BY <1>16, <1>18, <2>1, <2>2
<1> QED
  BY <1>5, <1>11, <1>13, <1>14, <1>15, <1>17, <1>18


(* The steps that wait for packets.                                        *)
LEMMA PollSays ==
  ASSUME IInv, TypeOK', PollBuffered \/ PollRead \/ PollEof
  PROVE  Conversation' /\ Plan' /\ Fresh'
<1>1. /\ TypeOK /\ Conversation /\ Plan /\ Fresh /\ t \in Transports
      /\ t.rd \in Seq(Part) /\ s2c \in Seq(Part)
  BY Typed, Queues DEF IInv
<1>2. op \in Readers /\ s2c' \in Seq(Part)
  BY DEF PollBuffered, PollRead, PollEof, TypeOK
<1>3. ASSUME NEW u, Refuse(u)  PROVE Conversation' /\ Plan' /\ Fresh'
  BY <1>3, LosingSteps DEF Refuse
<1>4. CASE PollBuffered
  <2>1. CASE Refuse(t)
    BY <1>3, <2>1
  <2>2. CASE Deliver(t) /\ UNCHANGED s2c
    BY <1>1, <1>2, <1>4, <2>2, DeliverSays DEF PollBuffered, In
  <2> QED
    BY <1>4, <2>1, <2>2 DEF PollBuffered
<1>5. CASE PollRead
  <2>1. PICK m \in 0..Len(s2c) :
          LET got == [t EXCEPT !.rd = @ \o SubSeq(s2c, 1, m)]
              u   == [got EXCEPT !.buf_is_incomplete = ~HasPacket(got.rd)]
          IN IF HasPacket(u.rd) /\ Refused(u)
             THEN Refuse(u)
             ELSE /\ s2c' = SubSeq(s2c, m + 1, Len(s2c))
                  /\ IF HasPacket(u.rd) THEN Deliver(u) ELSE Skip(u)
    BY <1>5 DEF PollRead
  <2> DEFINE got == [t EXCEPT !.rd = @ \o SubSeq(s2c, 1, m)]
             u   == [got EXCEPT !.buf_is_incomplete = ~HasPacket(got.rd)]
  <2>2. SubSeq(s2c, 1, m) \in Seq(Part)
    <3>1. Len(s2c) \in Nat /\ \A i \in 1..Len(s2c) : s2c[i] \in Part
      BY <1>1, LenProperties, ElementOfSeq
    <3> QED
      BY <1>1, <3>1
  <2>3. t.rd \o SubSeq(s2c, 1, m) \in Seq(Part)
    BY <1>1, <2>2, ConcatProperties
  <2>4. /\ got \in Transports /\ got.wr = t.wr /\ got.cmds = t.cmds
        /\ got.inconsistent = t.inconsistent /\ got.rd = t.rd \o SubSeq(s2c, 1, m)
    BY <1>1, <2>3 DEF Transports
  <2>5. /\ u \in Transports /\ u.wr = t.wr /\ u.cmds = t.cmds
        /\ u.inconsistent = t.inconsistent /\ u.rd = t.rd \o SubSeq(s2c, 1, m)
    BY <2>4 DEF Transports, HasPacket
  <2>6. CASE Refuse(u)
    BY <1>3, <2>6
  <2>7. (t.rd \o SubSeq(s2c, 1, m)) \o SubSeq(s2c, m + 1, Len(s2c)) = In
    <3>1. PICK a \in Seq(Part), b \in Seq(Part) : a = t.rd /\ b = s2c
      BY <1>1
    <3>2. (a \o SubSeq(b, 1, m)) \o SubSeq(b, m + 1, Len(b)) = a \o b
      <4>1. a \in Seq(Part) /\ b \in Seq(Part) /\ m \in 0..Len(b)
        BY <3>1
      <4> QED
        BY ONLY <4>1, ReadBorder
    <3> QED
      BY <3>1, <3>2 DEF In
  <2> HIDE DEF u, got
  <2>8. CASE Deliver(u) /\ HasPacket(u.rd) /\ s2c' = SubSeq(s2c, m + 1, Len(s2c))
    <3>1. u.rd \o s2c' = In
      BY <2>5, <2>7, <2>8
    <3> QED
      BY <1>2, <2>5, <2>8, <3>1, DeliverSays
  <2>9. CASE Skip(u) /\ s2c' = SubSeq(s2c, m + 1, Len(s2c))
    <3>1. t' = u /\ UNCHANGED <<present, op, plan, ps, rid, sent, c2s, srv, closed>>
      BY <2>9 DEF Skip
    <3>2. Out' = Out /\ Doing' = Doing
      BY <2>5, <3>1 DEF Out, Doing
    <3>3. In' = In
      BY <2>5, <2>7, <2>9, <3>1 DEF In
    <3>4. Conversation'
      BY <1>1, <3>1, <3>2, <3>3, SaysNothing
    <3>5. Plan'
      BY <1>1, <2>5, <3>1, <3>2 DEF Plan
    <3>6. Fresh'
      <4>1. present /\ op # "panicked"
        BY <1>1, <1>2 DEF Fresh, Readers
      <4> QED
        BY <1>1, <3>1, <4>1, StaysFresh
    <3> QED
      BY <3>4, <3>5, <3>6
  <2> QED
    BY <2>1, <2>6, <2>8, <2>9 DEF u, got
<1>6. CASE PollEof
  BY <1>6, LosingSteps DEF PollEof, OnEnd
<1> QED
  BY <1>4, <1>5, <1>6

-----------------------------------------------------------------------------
(* The invariant.                                                          *)

(* It holds before anything is said.                                       *)
LEMMA InvInit == Init => IInv
<1>1. SUFFICES ASSUME Init  PROVE Conversation /\ Plan /\ Fresh
  BY TypeInit DEF IInv
<1>2. /\ NewTransport.inconsistent = FALSE /\ NewTransport.cmds = <<>> /\ NewTransport.wr = <<>>
      /\ NewTransport.rd = <<>> /\ NewServer.st = "idle"
  BY DEF NewTransport, NewServer
<1>3. <<>> \o <<>> = <<>>
  BY ConcatEmptySeq, EmptySeq
<1>4. Out = <<>> /\ In = <<>> /\ Len(<<>>) = 0
  BY <1>1, <1>2, <1>3 DEF Init, Out, In
<1>5. Conversation
  BY <1>1, <1>2, <1>4 DEF Init, Conversation, Silent, AllStale, Doing, Readers
<1>6. Plan
  BY <1>1, <1>2, <1>4 DEF Init, Plan
<1>7. Fresh
  BY <1>1, <1>2 DEF Init, Fresh
<1> QED
  BY <1>5, <1>6, <1>7

(* Every step keeps it, when a call but a ping begins with a ping.         *)
LEMMA InvStep ==
  ASSUME PingBeforeQuery = TRUE
  PROVE  IInv /\ [Next]_vars => IInv'
<1>1. ASSUME IInv, [Next]_vars  PROVE TypeOK' /\ Steps'
  BY <1>1, TypeStep DEF IInv
<1>2. ASSUME IInv, Next  PROVE Conversation' /\ Plan' /\ Fresh'
  <2>1. TypeOK'
    BY <1>1, <1>2
  <2>2. CASE \/ \E c \in Calls : Call(c)
             \/ Pack \/ AllSent \/ DropStream \/ Flush \/ FlushAddendum
    BY <1>2, <2>1, <2>2, QuietSteps
  <2>3. CASE BeginClear
    BY <1>2, <2>1, <2>3, BeginClearSays
  <2>4. CASE BeginCall
    BY <1>2, <2>1, <2>4, BeginCallSays
  <2>5. CASE PollBuffered \/ PollRead \/ PollEof
    BY <1>2, <2>1, <2>5, PollSays
  <2>6. CASE PackFails
    BY <1>2, <2>1, <2>6, PackFailsSays
  <2>7. CASE Abandon \/ CloseHandle
    BY <2>7, LosingSteps DEF Abandon, CloseHandle
  <2>8. CASE Connect
    BY <1>2, <2>1, <2>8, ConnectSays
  <2>9. CASE ServerStep \/ ServerClose
    BY <1>2, <2>1, <2>9, ServerStays
  <2> QED
    BY <1>2, <2>2, <2>3, <2>4, <2>5, <2>6, <2>7, <2>8, <2>9 DEF Next, ClientStep
<1>3. ASSUME IInv, UNCHANGED vars  PROVE Conversation' /\ Plan' /\ Fresh'
  <2>1. UNCHANGED <<t, present, op, plan, rid, sent, c2s, s2c, srv, closed>>
    BY <1>3 DEF vars, client, net
  <2>2. Out' = Out /\ In' = In /\ Doing' = Doing
    BY <2>1 DEF Out, In, Doing
  <2>3. Conversation'
    BY <1>3, <2>1, <2>2, SaysNothing DEF IInv
  <2> QED
    BY <1>3, <2>1, <2>2, <2>3 DEF IInv, Plan, Fresh
<1> QED
  BY <1>1, <1>2, <1>3 DEF IInv

(* So it holds throughout.                                                 *)
LEMMA Invariant ==
  ASSUME PingBeforeQuery = TRUE
  PROVE  Spec => []IInv
BY InvInit, InvStep, PTL DEF Spec


-----------------------------------------------------------------------------
(* The properties.                                                         *)

(* What is pending of some request, in the two directions whole.           *)
LEMMA Pends ==
  ASSUME TypeOK, NEW n \in Nat, n = Len(Out), NEW m \in Nat, m = Len(In)
  PROVE  Pending = {Out[i].id : i \in {j \in 1..n : ~Stale(Out[j])}}
                     \cup {In[i].id : i \in 1..m}
                     \cup (IF srv.st = "idle" THEN {} ELSE {srv.id})
<1>1. PICK a \in Seq(Cmd), b \in Seq(Cmd), c \in Seq(Cmd) : a = c2s /\ b = t.wr /\ c = t.cmds
  BY Queues
<1>2. Range(t.cmds \o t.wr \o c2s) = Range(Out)
  <2>1. c \o b \in Seq(Cmd) /\ a \o b \in Seq(Cmd)
    BY ConcatProperties
  <2>2. Range((c \o b) \o a) = Range(c \o b) \cup Range(a) /\ Range(c \o b) = Range(c) \cup Range(b)
    BY ZenonT(30), <2>1, RangeConcatenation
  <2>3. Range((a \o b) \o c) = Range(a \o b) \cup Range(c) /\ Range(a \o b) = Range(a) \cup Range(b)
    BY ZenonT(30), <2>1, RangeConcatenation
  <2> QED
    BY <1>1, <2>2, <2>3 DEF Out
<1>3. Range(Out) = {Out[i] : i \in 1..n} /\ Range(In) = {In[i] : i \in 1..m}
  BY Queues, RangeEquality
<1>4. {c1.id : c1 \in Commands} = {Out[i].id : i \in {j \in 1..n : ~Stale(Out[j])}}
  BY <1>2, <1>3 DEF Commands, Stale
<1>5. {p.id : p \in Replies} = {In[i].id : i \in 1..m}
  BY SMTT(30), <1>3 DEF Replies, In
<1> QED
  BY <1>4, <1>5 DEF Pending

(* Between calls, a transport that is not marked inconsistent is clean: no *)
(* command, reply or running query is left over for the next user of the   *)
(* connection to trip on.  Without the ping a query begins on whatever the *)
(* stream before it has left (README, 6).                                  *)
THEOREM TransportCleanWhenIdle ==
  ASSUME PingBeforeQuery = TRUE
  PROVE  Spec => []CleanWhenIdle
<1>1. IInv => CleanWhenIdle
  <2>1. SUFFICES ASSUME IInv, op = "idle", ~t.inconsistent  PROVE Pending = {}
    BY DEF CleanWhenIdle
  <2>2. TypeOK /\ AllStale /\ In = <<>> /\ srv.st = "idle"
    BY <2>1 DEF IInv, Conversation, Doing, Silent, Readers
  <2>3. PICK n \in Nat, m \in Nat : n = Len(Out) /\ m = Len(In) /\ m = 0
    BY <2>2, Queues, EmptySeq
  <2>4. \A i \in 1..n : Stale(Out[i])
    BY <2>2, <2>3 DEF AllStale
  <2> QED
    BY <2>2, <2>3, <2>4, Pends
<1> QED
  BY <1>1, Invariant, PTL

(* A call only ever reads packets of its own request: all that is asked,   *)
(* running or answered on the connection is of the request it waits for.   *)
(* What a dropped stream has left is only ever read by clear().            *)
THEOREM TransportOwnReply ==
  ASSUME PingBeforeQuery = TRUE
  PROVE  Spec => []OwnReply
<1>1. IInv => OwnReply
  <2>1. SUFFICES ASSUME IInv, op \in Readers \ {"clear"}  PROVE Pending \subseteq {rid}
    BY DEF OwnReply
  <2>2. TypeOK
    BY <2>1 DEF IInv
  <2>3. PICK r \in Readers : r = Doing /\ Talk(r)
    BY <2>1 DEF IInv, Conversation, Doing, Readers
  <2>4. PICK n \in Nat, m \in Nat : n = Len(Out) /\ m = Len(In)
    BY <2>2, Queues
  <2>5. \A i \in 1..n : Stale(Out[i]) \/ Out[i].id = rid
    BY <2>3, <2>4 DEF Talk, Ordered, Request
  <2>6. \A i \in 1..m : In[i].id = rid
    BY <2>3, <2>4 DEF Talk
  <2>7. srv.st # "idle" => srv.id = rid
    BY <2>3 DEF Talk
  <2>8. Pending = {Out[i].id : i \in {j \in 1..n : ~Stale(Out[j])}}
                     \cup {In[i].id : i \in 1..m}
                     \cup (IF srv.st = "idle" THEN {} ELSE {srv.id})
    BY <2>2, <2>4, Pends
  <2> QED
    BY ONLY <2>5, <2>6, <2>7, <2>8
<1> QED
  BY <1>1, Invariant, PTL

(* A Cancel never reaches the server while a query runs that the client    *)
(* has not abandoned: it leaves only with clear(), after the query it is   *)
(* for, and is ignored by a server that has nothing to cancel.             *)
THEOREM TransportCancelsOnlyAbandoned ==
  ASSUME PingBeforeQuery = TRUE
  PROVE  Spec => []CancelsOnlyAbandoned
<1>1. IInv => CancelsOnlyAbandoned
  <2>1. SUFFICES ASSUME IInv, srv.st # "idle", c2s # <<>>, Head(c2s).k = "cancel"
                 PROVE  op = "clear"
    BY DEF CancelsOnlyAbandoned
  <2>2. TypeOK /\ Conversation
    BY <2>1 DEF IInv
  <2>3. PICK r \in Readers : r = Doing /\ Talk(r)
    BY <2>1, <2>2 DEF Conversation, Silent
  <2>4. PICK n \in Nat : n = Len(Out) /\ n > 0 /\ Out[1] = Head(c2s)
    <3>1. PICK a \in Seq(Cmd), b \in Seq(Cmd), c \in Seq(Cmd) : a = c2s /\ b = t.wr /\ c = t.cmds
      BY <2>2, Queues
    <3>2. PICK s \in Seq(Cmd) : s = Then(Then(a, b), c) /\ s[1] = Head(a) /\ s # <<>>
      <4>1. Then(Then(a, b), c)[1] = Head(a) /\ Then(Then(a, b), c) # <<>>
        BY <2>1, <3>1, FrontOfThree
      <4>2. Then(Then(a, b), c) \in Seq(Cmd)
        BY Joined DEF Then
      <4> QED
        BY <4>1, <4>2
    <3>3. Out = s
      BY <3>1, <3>2 DEF Out, Then
    <3>4. PICK n \in Nat : n = Len(s) /\ n # 0
      BY <3>2, LenProperties, Nothing
    <3> QED
      BY <3>1, <3>2, <3>3, <3>4
  <2>5. Stale(Out[1])
    BY <2>1, <2>4 DEF Stale
  <2>6. CASE r # "clear"
    <3>1. 1 < n
      <4>1. 1 \in 1..n
        BY <2>4
      <4> QED
        BY <2>3, <2>4, <2>5, <2>6, <4>1 DEF Talk, Ordered
    <3>2. r = "ping"
      BY <2>3, <2>4, <2>6, <3>1 DEF Talk, Ordered
    <3>3. srv.st = "idle"
      BY <2>3, <3>2 DEF Talk, Asked, Running, Answered, CutOff, Unsent, Asks
    <3> QED
      BY <2>1, <3>3
  <2> QED
    BY <2>3, <2>6 DEF Doing
<1> QED
  BY <1>1, Invariant, PTL

(* A transport given back `inconsistent`, on a connection still open, has  *)
(* a reply to read: clear() will not wait for an answer that never comes.  *)
(* A query that fails to encode breaks this (README, 6), so it is assumed  *)
(* that none does.                                                         *)
THEOREM TransportInconsistentMeansUnread ==
  ASSUME PingBeforeQuery = TRUE, "query" \notin Unencodable
  PROVE  Spec => []InconsistentMeansUnread
<1>1. IInv => InconsistentMeansUnread
  <2>1. SUFFICES ASSUME IInv, op = "idle", t.inconsistent, ~closed  PROVE Pending # {}
    BY DEF InconsistentMeansUnread
  <2>2. TypeOK
    BY <2>1 DEF IInv
  <2>3. Talk("blocks")
    BY <2>1 DEF IInv, Conversation, Doing, Readers
  <2>4. PICK n \in Nat, m \in Nat : n = Len(Out) /\ m = Len(In)
    BY <2>2, Queues
  <2>5. Pending = {Out[i].id : i \in {j \in 1..n : ~Stale(Out[j])}}
                     \cup {In[i].id : i \in 1..m}
                     \cup (IF srv.st = "idle" THEN {} ELSE {srv.id})
    BY <2>2, <2>4, Pends
  <2>6. CASE ~AllStale
    <3>1. PICK i \in 1..n : ~Stale(Out[i])
      BY <2>4, <2>6 DEF AllStale
    <3> QED
      BY ONLY <2>5, <3>1
  <2>7. CASE srv.st # "idle"
    BY ONLY <2>5, <2>7
  <2>8. CASE m >= 2
    <3>1. 1 \in 1..m
      BY <2>8
    <3> QED
      BY ONLY <2>5, <3>1
  <2> QED
    BY <2>1, <2>3, <2>4, <2>6, <2>7, <2>8 DEF Talk, Asked, Running, Answered, CutOff, Unsent
<1> QED
  BY <1>1, Invariant, PTL

-----------------------------------------------------------------------------
(* Progress.  What a call has left to do, most significant first: the end  *)
(* of the connection, requests, stages of the call, commands to bring to   *)
(* the server, packets of its reply, parts to read, polls.                 *)
InCall == plan # <<>> \/ op \in Readers

Opened   == IF closed THEN 0 ELSE 1
Requests == MaxRequests - sent
Stage    == IF op = "idle" THEN IF t.inconsistent THEN 2 ELSE 0
            ELSE IF op = "header" THEN 2 ELSE 1
Queued   == 3 * Len(t.cmds) + 2 * Len(t.wr) + Len(c2s)
Unsaid   == IF srv.st = "idle" THEN 0 ELSE srv.left + 1
Unread   == 2 * Len(s2c) + Len(t.rd)
Unpolled == (IF ps = "ask" THEN 1 ELSE 0) + (IF t.buf_is_incomplete THEN 0 ELSE 1)

Measure   == <<Opened, Requests, Stage, Queued, Unsaid, Unread, Unpolled>>
Decreases == \E i \in 1..7 : /\ Measure'[i] < Measure[i]
                             /\ \A j \in 1..i - 1 : Measure'[j] = Measure[j]
CallProgress == [][InCall /\ InCall' => Decreases]_vars

(* One number less, and those before it the same.                          *)
LEMMA Lowers ==
  /\ Opened' < Opened => Decreases
  /\ Opened' = Opened /\ Requests' < Requests => Decreases
  /\ Opened' = Opened /\ Requests' = Requests =>
     /\ Stage' < Stage => Decreases
     /\ Stage' = Stage /\ Queued' < Queued => Decreases
     /\ Stage' = Stage /\ Queued' = Queued =>
        /\ Unsaid' < Unsaid => Decreases
        /\ Unsaid' = Unsaid /\ Unread' < Unread => Decreases
        /\ Unsaid' = Unsaid /\ Unread' = Unread /\ Unpolled' < Unpolled => Decreases
<1>1. /\ Measure[1] = Opened /\ Measure[2] = Requests /\ Measure[3] = Stage
      /\ Measure[4] = Queued /\ Measure[5] = Unsaid /\ Measure[6] = Unread
      /\ Measure[7] = Unpolled
  BY DEF Measure
<1>2. /\ Measure'[1] = Opened' /\ Measure'[2] = Requests' /\ Measure'[3] = Stage'
      /\ Measure'[4] = Queued' /\ Measure'[5] = Unsaid' /\ Measure'[6] = Unread'
      /\ Measure'[7] = Unpolled'
  BY DEF Measure
<1>3. \A i \in 1..7 : Measure'[i] < Measure[i] /\ (\A j \in 1..i - 1 : Measure'[j] = Measure[j]) => Decreases
  BY DEF Decreases
<1>4. ASSUME NEW k \in 1..7, Measure'[k] < Measure[k], \A j \in 1..7 : j < k => Measure'[j] = Measure[j]
      PROVE  Decreases
  <2>1. \A j \in 1..k - 1 : j \in 1..7 /\ j < k
    OBVIOUS
  <2> QED
    BY <1>3, <1>4, <2>1
<1>5. \A j \in 1..7 : j = 1 \/ j = 2 \/ j = 3 \/ j = 4 \/ j = 5 \/ j = 6 \/ j = 7
  OBVIOUS
<1>6. ASSUME Opened' < Opened
      PROVE  Decreases
  <2>1. Measure'[1] < Measure[1] /\ \A j \in 1..7 : j < 1 => Measure'[j] = Measure[j]
    BY <1>1, <1>2, <1>5, <1>6
  <2> QED
    BY <1>4, <2>1
<1>7. ASSUME Opened' = Opened, Requests' < Requests
      PROVE  Decreases
  <2>1. Measure'[2] < Measure[2] /\ \A j \in 1..7 : j < 2 => Measure'[j] = Measure[j]
    BY <1>1, <1>2, <1>5, <1>7
  <2> QED
    BY <1>4, <2>1
<1>8. ASSUME Opened' = Opened, Requests' = Requests, Stage' < Stage
      PROVE  Decreases
  <2>1. Measure'[3] < Measure[3] /\ \A j \in 1..7 : j < 3 => Measure'[j] = Measure[j]
    BY <1>1, <1>2, <1>5, <1>8
  <2> QED
    BY <1>4, <2>1
<1>9. ASSUME Opened' = Opened, Requests' = Requests, Stage' = Stage, Queued' < Queued
      PROVE  Decreases
  <2>1. Measure'[4] < Measure[4] /\ \A j \in 1..7 : j < 4 => Measure'[j] = Measure[j]
    BY <1>1, <1>2, <1>5, <1>9
  <2> QED
    BY <1>4, <2>1
<1>10. ASSUME Opened' = Opened, Requests' = Requests, Stage' = Stage, Queued' = Queued,
              Unsaid' < Unsaid
      PROVE  Decreases
  <2>1. Measure'[5] < Measure[5] /\ \A j \in 1..7 : j < 5 => Measure'[j] = Measure[j]
    BY <1>1, <1>2, <1>5, <1>10
  <2> QED
    BY <1>4, <2>1
<1>11. ASSUME Opened' = Opened, Requests' = Requests, Stage' = Stage, Queued' = Queued,
              Unsaid' = Unsaid, Unread' < Unread
      PROVE  Decreases
  <2>1. Measure'[6] < Measure[6] /\ \A j \in 1..7 : j < 6 => Measure'[j] = Measure[j]
    BY <1>1, <1>2, <1>5, <1>11
  <2> QED
    BY <1>4, <2>1
<1>12. ASSUME Opened' = Opened, Requests' = Requests, Stage' = Stage, Queued' = Queued,
              Unsaid' = Unsaid, Unread' = Unread, Unpolled' < Unpolled
      PROVE  Decreases
  <2>1. Measure'[7] < Measure[7] /\ \A j \in 1..7 : j < 7 => Measure'[j] = Measure[j]
    BY <1>1, <1>2, <1>5, <1>12
  <2> QED
    BY <1>4, <2>1
<1> QED
  BY <1>6, <1>7, <1>8, <1>9, <1>10, <1>11, <1>12

(* Lengths of queues after the operations on them.                         *)
LEMMA Lengths ==
  ASSUME NEW S, NEW s \in Seq(S)
  PROVE  /\ Len(s) \in Nat
         /\ s # <<>> => Len(s) > 0 /\ Len(Tail(s)) = Len(s) - 1
         /\ \A x : Len(<<x>>) = 1
         /\ \A r \in Seq(S) : Len(s \o r) = Len(s) + Len(r)
         /\ Len(s) >= 2 => Len(SubSeq(s, 3, Len(s))) = Len(s) - 2
         /\ \A n \in 0..Len(s) : /\ Len(SubSeq(s, 1, n)) = n /\ SubSeq(s, 1, n) \in Seq(S)
                                 /\ Len(SubSeq(s, n + 1, Len(s))) = Len(s) - n
<1>1. Len(s) \in Nat /\ (\A x : Len(<<x>>) = 1) /\ \A r \in Seq(S) : Len(s \o r) = Len(s) + Len(r)
  OBVIOUS
<1>2. s # <<>> => Len(s) > 0 /\ Len(Tail(s)) = Len(s) - 1
  OBVIOUS
<1>3. Len(s) >= 2 => Len(SubSeq(s, 3, Len(s))) = Len(s) - 2
  <2>1. PICK n \in Nat : n = Len(s)
    BY <1>1
  <2>2. ASSUME n >= 2  PROVE Len(SubSeq(s, 3, n)) = n - 2
    <3>1. \A i \in 3..n : s[i] \in S
      BY <2>1, ElementOfSeq
    <3>2. Len(SubSeq(s, 3, n)) = IF 3 <= n THEN n - 3 + 1 ELSE 0
      BY <3>1, SubSeqProperties
    <3> QED
      BY ONLY <2>1, <2>2, <3>2
  <2> QED
    BY <2>1, <2>2
<1>4. ASSUME NEW n \in 0..Len(s)
      PROVE  /\ Len(SubSeq(s, 1, n)) = n /\ SubSeq(s, 1, n) \in Seq(S)
             /\ Len(SubSeq(s, n + 1, Len(s))) = Len(s) - n
  OBVIOUS
<1> QED
  BY <1>1, <1>2, <1>3, <1>4

(* The numbers the measure is made of.                                     *)
LEMMA Numbers ==
  ASSUME TypeOK
  PROVE  /\ Len(t.cmds) \in Nat /\ Len(t.wr) \in Nat /\ Len(c2s) \in Nat
         /\ Len(t.rd) \in Nat /\ Len(s2c) \in Nat
         /\ MaxRequests \in Nat /\ sent \in Nat /\ sent <= MaxRequests
         /\ srv.left \in Nat /\ closed \in BOOLEAN
BY Typed, Queues, LenProperties

(* A call that has gone on to ping its server does it over a transport     *)
(* that is not inconsistent.                                               *)
PingClean == op = "ping" => ~t.inconsistent

(* What ends the call.                                                     *)
LEMMA CallOver ==
  ASSUME op' \notin Readers, plan' = <<>>
  PROVE  ~InCall'
BY DEF InCall

(* A dropped transport ends it, whichever way it is dropped.               *)
LEMMA LossEnds ==
  ASSUME NEW r \in {"idle", "panicked"}, Lose(r)
  PROVE  ~InCall'
BY DEF Lose, InCall, Readers

(* The steps of a call that send.                                          *)
LEMMA SendingLowers ==
  ASSUME TypeOK, Steps,
         \/ BeginClear \/ BeginCall \/ Pack \/ Flush \/ AllSent
         \/ PackFails /\ op = "blocks"
  PROVE  Decreases
<1>1. t \in Transports /\ t.cmds \in Seq(Cmd) /\ t.wr \in Seq(Cmd) /\ c2s \in Seq(Cmd)
  BY Typed, Queues
<1>2. CASE BeginClear
  <2>1. Stage = 2 /\ Stage' = 1
    BY <1>2 DEF BeginClear, Stage
  <2>2. Opened' = Opened /\ Requests' = Requests
    BY <1>2 DEF BeginClear, Opened, Requests, net
  <2> QED
    BY <2>1, <2>2, Lowers
<1>3. CASE BeginCall
  <2>1. sent' = sent + 1
    BY <1>3 DEF BeginCall
  <2>2. Opened' = Opened /\ Requests' < Requests
    BY <1>3, <2>1, Numbers DEF BeginCall, Opened, Requests, net
  <2> QED
    BY <2>2, Lowers
<1>4. CASE Pack \/ (PackFails /\ op = "blocks")
  <2>1. PICK n \in Nat : n = Len(t.cmds) /\ n > 0 /\ Len(Tail(t.cmds)) = n - 1
    BY <1>1, <1>4, Lengths DEF Pack, PackFails
  <2>2. PICK m \in Nat : m = Len(c2s)
    BY Numbers
  <2>3. Len(t.wr) = 0 /\ c2s' = c2s
    BY <1>4 DEF Pack, PackFails, net
  <2>4. t'.cmds = Tail(t.cmds) /\ Len(t'.wr) \in {0, 1} /\ t'.inconsistent = t.inconsistent
    <3>1. \/ t' = [t EXCEPT !.cmds = Tail(t.cmds), !.wr = <<Head(t.cmds)>>]
          \/ t' = [t EXCEPT !.cmds = Tail(t.cmds)]
      BY <1>4 DEF Pack, PackFails
    <3>2. t = [cmds |-> t.cmds, wr |-> t.wr, rd |-> t.rd,
               buf_is_incomplete |-> t.buf_is_incomplete, inconsistent |-> t.inconsistent]
      BY <1>1 DEF Transports
    <3>3. t'.cmds = Tail(t.cmds) /\ t'.wr \in {<<Head(t.cmds)>>, t.wr}
          /\ t'.inconsistent = t.inconsistent
      BY <3>1, <3>2
    <3>4. \A x : Len(<<x>>) = 1
      OBVIOUS
    <3> QED
      BY <2>3, <3>3, <3>4
  <2>5. Queued' < Queued
    <3>1. Queued = 3 * n + 2 * 0 + m
      BY <2>1, <2>2, <2>3 DEF Queued
    <3>2. Queued' = 3 * (n - 1) + 2 * 0 + m \/ Queued' = 3 * (n - 1) + 2 * 1 + m
      BY <2>1, <2>2, <2>3, <2>4 DEF Queued
    <3>3. 3 * (n - 1) + 2 * 0 + m < 3 * n + 2 * 0 + m /\ 3 * (n - 1) + 2 * 1 + m < 3 * n + 2 * 0 + m
      OBVIOUS
    <3> QED
      BY <3>1, <3>2, <3>3
  <2>6. Opened' = Opened /\ Requests' = Requests /\ Stage' = Stage
    BY <1>4, <2>4 DEF Pack, PackFails, Opened, Requests, Stage, net
  <2> QED
    BY <2>5, <2>6, Lowers
<1>5. CASE Flush
  <2>1. PICK n \in Nat : n = Len(t.wr) /\ n > 0
    BY <1>1, <1>5, Lengths DEF Flush
  <2>2. PICK m \in Nat : m = Len(c2s)
    BY Numbers
  <2>3. PICK k \in Nat : k = Len(t.cmds)
    BY Numbers
  <2>4. Len(c2s') \in {m, m + n}
    BY <1>1, <1>5, <2>1, <2>2, Lengths DEF Flush
  <2>5. t'.cmds = t.cmds /\ Len(t'.wr) = 0 /\ t'.inconsistent = t.inconsistent
    BY <1>1, <1>5 DEF Flush, Transports
  <2>6. Queued' < Queued
    <3>1. Queued = 3 * k + 2 * n + m
      BY <2>1, <2>2, <2>3 DEF Queued
    <3>2. Queued' = 3 * k + 2 * 0 + m \/ Queued' = 3 * k + 2 * 0 + (m + n)
      BY <2>3, <2>4, <2>5 DEF Queued
    <3>3. ASSUME n > 0
          PROVE  /\ 3 * k + 2 * 0 + m < 3 * k + 2 * n + m
                 /\ 3 * k + 2 * 0 + (m + n) < 3 * k + 2 * n + m
      BY ONLY <3>3, n \in Nat, m \in Nat, k \in Nat
    <3> QED
      BY <2>1, <3>1, <3>2, <3>3
  <2>7. Opened' = Opened /\ Requests' = Requests /\ Stage' = Stage
    BY <1>5, <2>5 DEF Flush, Opened, Requests, Stage
  <2> QED
    BY <2>6, <2>7, Lowers
<1>6. CASE AllSent
  <2>1. Unpolled' < Unpolled
    BY <1>6 DEF AllSent, Unpolled
  <2> QED
    BY <1>6, <2>1, Lowers
    DEF AllSent, Opened, Requests, Stage, Queued, Unsaid, Unread, net
<1> QED
  BY <1>2, <1>3, <1>4, <1>5, <1>6

(* A packet that goes to the loop.                                         *)
LEMMA DeliverLowers ==
  ASSUME TypeOK, Steps, PingClean, op \in Readers, ps = "receive", NEW u \in Transports, Deliver(u),
         u.cmds = t.cmds, u.wr = t.wr, u.inconsistent = t.inconsistent,
         2 * Len(s2c') + (Len(u.rd) - 2) < Unread, Len(u.rd) >= 2
  PROVE  InCall' => Decreases
<1>1. PICK v : v = [u EXCEPT !.rd = SubSeq(u.rd, 3, Len(u.rd))]
  OBVIOUS
<1>2. u.rd \in Seq(Part) /\ SubSeq(u.rd, 3, Len(u.rd)) \in Seq(Part)
  <2>1. u.rd \in Seq(Part)
    BY DEF Transports
  <2> QED
    BY <2>1, TakesTwo
<1>3. v \in Transports /\ v.cmds = t.cmds /\ v.wr = t.wr /\ v.inconsistent = t.inconsistent
      /\ v.rd = SubSeq(u.rd, 3, Len(u.rd))
  BY <1>1, <1>2 DEF Transports
<1>4. Len(v.rd) = Len(u.rd) - 2
  BY <1>2, <1>3, Lengths
<1>5. UNCHANGED <<present, plan, c2s, srv, closed>>
  BY <1>1, Outcomes
<1>6. Opened' = Opened /\ Unsaid' = Unsaid
  BY <1>5 DEF Opened, Unsaid
<1>7. CASE Finishes(v, op)
  <2>1. t' = v /\ UNCHANGED <<op, sent>>
    BY <1>7 DEF Finishes
  <2>2. Requests' = Requests /\ Stage' = Stage /\ Queued' = Queued
    BY <1>3, <1>5, <2>1 DEF Requests, Stage, Queued
  <2>3. Unread' < Unread
    BY <1>4, <2>1 DEF Unread
  <2> QED
    BY <1>6, <2>2, <2>3, Lowers
<1>8. CASE \E w \in Transports : Finishes(w, "idle") /\ ~w.inconsistent
  <2>1. op' = "idle" /\ ~t'.inconsistent /\ sent' = sent
    BY <1>8 DEF Finishes
  <2>2. Stage' = 0 /\ Stage \in {1, 2} /\ Requests' = Requests
    BY <2>1 DEF Stage, Requests, Readers
  <2> QED
    BY <1>6, <2>2, Lowers
<1>9. CASE op # "clear" /\ op # "ping" /\ op' \in {"idle", "addendum"}
  <2>1. plan = <<>>
    BY <1>9 DEF Steps, Readers
  <2> QED
    BY <1>5, <1>9, <2>1, CallOver DEF Readers
<1>10. CASE op = "header" /\ op' = "tail" /\ sent' = sent
  <2>1. Stage = 2 /\ Stage' = 1 /\ Requests' = Requests
    BY <1>10 DEF Stage, Requests
  <2> QED
    BY <1>6, <2>1, Lowers
<1>11. CASE sent' = sent + 1
  <2>1. Requests' < Requests
    BY <1>11, Numbers DEF Requests
  <2> QED
    BY <1>6, <2>1, Lowers
<1>12. \/ Finishes(v, op)
       \/ op = "hello" /\ op' = "addendum"
       \/ op = "clear" /\ Finishes([v EXCEPT !.inconsistent = FALSE], "idle")
       \/ op \in {"ping", "execute", "tail", "blocks"} /\ Finishes(v, "idle")
       \/ op = "header" /\ op' = "tail" /\ sent' = sent
       \/ sent' = sent + 1
  BY <1>1, Outcomes DEF Finishes, Continues
<1>13. ASSUME op = "clear", Finishes([v EXCEPT !.inconsistent = FALSE], "idle")
       PROVE  \E w \in Transports : Finishes(w, "idle") /\ ~w.inconsistent
  <2>1. [v EXCEPT !.inconsistent = FALSE] \in Transports /\ ~[v EXCEPT !.inconsistent = FALSE].inconsistent
    BY <1>3 DEF Transports
  <2> QED
    BY <1>13, <2>1
<1>14. ASSUME op = "ping", Finishes(v, "idle")
       PROVE  \E w \in Transports : Finishes(w, "idle") /\ ~w.inconsistent
  BY <1>3, <1>14 DEF PingClean
<1>15. Finishes(v, "idle") => op' = "idle"
  BY DEF Finishes
<1> QED
  BY <1>7, <1>8, <1>9, <1>10, <1>11, <1>12, <1>13, <1>14, <1>15

(* What a poll has read, and what becomes of it.                           *)
Read(n, u) ==
  /\ u.cmds = t.cmds /\ u.wr = t.wr /\ u.inconsistent = t.inconsistent
  /\ u.rd = t.rd \o SubSeq(s2c, 1, n) /\ Len(u.rd) = Len(t.rd) + n
  /\ u.buf_is_incomplete = ~HasPacket(u.rd)
  /\ \/ HasPacket(u.rd) /\ Refuse(u)
     \/ /\ s2c' = SubSeq(s2c, n + 1, Len(s2c))
        /\ IF HasPacket(u.rd) THEN Deliver(u) ELSE Skip(u)

(* A poll that reads takes some of what the server has sent, and no more.  *)
LEMMA Reads ==
  ASSUME TypeOK, PollRead
  PROVE  \E n \in 0..Len(s2c), u \in Transports : Read(n, u)
<1>1. t \in Transports /\ t.rd \in Seq(Part) /\ s2c \in Seq(Part)
  BY Typed, Queues
<1>2. PICK n \in 0..Len(s2c) :
     LET got == [t EXCEPT !.rd = @ \o SubSeq(s2c, 1, n)]
         u   == [got EXCEPT !.buf_is_incomplete = ~HasPacket(got.rd)]
     IN IF HasPacket(u.rd) /\ Refused(u)
        THEN Refuse(u)
        ELSE /\ s2c' = SubSeq(s2c, n + 1, Len(s2c))
             /\ IF HasPacket(u.rd) THEN Deliver(u) ELSE Skip(u)
  BY DEF PollRead
<1> DEFINE rd == t.rd \o SubSeq(s2c, 1, n)
           b  == ~HasPacket(rd)
           u  == [cmds |-> t.cmds, wr |-> t.wr, rd |-> rd, buf_is_incomplete |-> b,
                  inconsistent |-> t.inconsistent]
<1>3. rd \in Seq(Part) /\ Len(rd) = Len(t.rd) + n
  <2>1. SubSeq(s2c, 1, n) \in Seq(Part) /\ Len(SubSeq(s2c, 1, n)) = n
    BY <1>1, Lengths
  <2>2. PICK a \in Seq(Part) : a = SubSeq(s2c, 1, n) /\ Len(a) = n
    BY <2>1
  <2>3. Len(t.rd \o a) = Len(t.rd) + Len(a) /\ t.rd \o a \in Seq(Part)
    BY <1>1, <2>2, ConcatProperties
  <2> QED
    BY <2>2, <2>3
<1>4. u \in Transports
  BY <1>1, <1>3 DEF Transports, HasPacket
<1>5. [[t EXCEPT !.rd = rd] EXCEPT !.buf_is_incomplete = b] = u
  <2>1. b \in BOOLEAN
    BY DEF HasPacket
  <2> HIDE DEF rd, b
  <2>2. [t EXCEPT !.rd = rd] \in Transports
    BY <1>1, <1>3 DEF Transports
  <2>3. PICK got \in Transports : got = [t EXCEPT !.rd = rd]
    BY <2>2
  <2>4. /\ got.cmds = t.cmds /\ got.wr = t.wr /\ got.rd = rd
        /\ got.inconsistent = t.inconsistent
    BY <1>1, <2>3 DEF Transports
  <2>5. PICK w \in Transports : w = [got EXCEPT !.buf_is_incomplete = b]
    BY <2>1 DEF Transports
  <2>6. /\ w.cmds = got.cmds /\ w.wr = got.wr /\ w.rd = got.rd
        /\ w.inconsistent = got.inconsistent /\ w.buf_is_incomplete = b
    BY <2>3, <2>5 DEF Transports
  <2>7. w = [cmds |-> w.cmds, wr |-> w.wr, rd |-> w.rd,
             buf_is_incomplete |-> w.buf_is_incomplete, inconsistent |-> w.inconsistent]
    BY <2>5 DEF Transports
  <2> QED
    BY <2>3, <2>4, <2>5, <2>6, <2>7
<1>6. IF HasPacket(rd) /\ Refused(u) THEN Refuse(u)
      ELSE /\ s2c' = SubSeq(s2c, n + 1, Len(s2c))
           /\ IF HasPacket(rd) THEN Deliver(u) ELSE Skip(u)
  BY <1>2, <1>5
<1> HIDE DEF rd, b
<1>7. /\ u.cmds = t.cmds /\ u.wr = t.wr /\ u.rd = rd /\ u.inconsistent = t.inconsistent
      /\ u.buf_is_incomplete = b
  OBVIOUS
<1>8. rd = t.rd \o SubSeq(s2c, 1, n) /\ b = ~HasPacket(rd)
  BY DEF rd, b
<1> HIDE DEF u
<1>9. Read(n, u)
  BY <1>3, <1>6, <1>7, <1>8 DEF Read
<1> QED
  BY <1>4, <1>9

(* The steps of a call that read.                                          *)
LEMMA PollingLowers ==
  ASSUME TypeOK, Steps, PingClean, PollBuffered \/ PollRead \/ PollEof, ~(UNCHANGED vars)
  PROVE  InCall' => Decreases
<1>1. t \in Transports /\ t.rd \in Seq(Part) /\ s2c \in Seq(Part)
  BY Typed, Queues
<1>2. ASSUME NEW u, Refuse(u)  PROVE ~InCall'
  BY <1>2, LossEnds DEF Refuse
<1>3. CASE PollEof
  BY <1>3, LossEnds DEF PollEof, OnEnd
<1>4. CASE PollBuffered
  <2>1. CASE Refused(t)
    BY <1>2, <1>4, <2>1 DEF PollBuffered
  <2>2. CASE ~Refused(t)
    <3>1. Deliver(t) /\ s2c' = s2c /\ op \in Readers /\ ps = "receive" /\ Len(t.rd) >= 2
      BY <1>4, <2>2 DEF PollBuffered, HasPacket
    <3>2. 2 * Len(s2c') + (Len(t.rd) - 2) < Unread
      <4>1. PICK k \in Nat, m \in Nat : k = Len(s2c) /\ m = Len(t.rd)
        BY Numbers
      <4>2. Unread = 2 * k + m /\ Len(s2c') = k
        BY <3>1, <4>1 DEF Unread
      <4>3. 2 * k + (m - 2) < 2 * k + m
        OBVIOUS
      <4> QED
        BY <4>1, <4>2, <4>3
    <3> QED
      BY <1>1, <3>1, <3>2, DeliverLowers
  <2> QED
    BY <2>1, <2>2
<1>5. CASE PollRead
  <2>1. op \in Readers /\ ps = "receive"
    BY <1>5 DEF PollRead
  <2>2. PICK n \in 0..Len(s2c), u \in Transports : Read(n, u)
    BY <1>5, Reads
  <2>3. PICK k \in Nat, m \in Nat : k = Len(s2c) /\ n <= k /\ m = Len(t.rd)
    BY Numbers
  <2>4. Len(SubSeq(s2c, n + 1, Len(s2c))) = k - n /\ n \in Nat
    BY <1>1, <2>3, Lengths
  <2>5. Unread = 2 * k + m /\ Len(u.rd) = m + n
    BY <2>2, <2>3 DEF Unread, Read
  <2>6. CASE HasPacket(u.rd) /\ Refuse(u)
    BY <1>2, <2>6
  <2>7. CASE s2c' = SubSeq(s2c, n + 1, Len(s2c)) /\ HasPacket(u.rd) /\ Deliver(u)
    <3>1. Len(u.rd) >= 2 /\ Len(s2c') = k - n
      BY <2>4, <2>7 DEF HasPacket
    <3>2. 2 * (k - n) + ((m + n) - 2) < 2 * k + m
      BY ONLY <2>4, k \in Nat, m \in Nat
    <3>3. 2 * Len(s2c') + (Len(u.rd) - 2) < Unread
      BY <2>5, <3>1, <3>2
    <3> QED
      BY <2>1, <2>2, <2>7, <3>1, <3>3, DeliverLowers DEF Read
  <2>8. CASE s2c' = SubSeq(s2c, n + 1, Len(s2c)) /\ ~HasPacket(u.rd) /\ Skip(u)
    <3>1. t' = u /\ UNCHANGED <<present, op, plan, ps, rid, sent, c2s, srv, closed>>
      BY <2>8 DEF Skip
    <3>2. /\ Opened' = Opened /\ Requests' = Requests /\ Stage' = Stage
          /\ Queued' = Queued /\ Unsaid' = Unsaid
      BY <2>2, <3>1 DEF Opened, Requests, Stage, Queued, Unsaid, Read
    <3>3. Unread' = 2 * (k - n) + (m + n)
      BY <2>4, <2>5, <2>8, <3>1 DEF Unread
    <3>4. CASE n > 0
      <4>1. 2 * (k - n) + (m + n) < 2 * k + m
        BY ONLY <2>4, <3>4, k \in Nat, m \in Nat
      <4>2. Unread' < Unread
        BY <2>5, <3>3, <4>1
      <4> QED
        BY <3>2, <4>2, Lowers
    <3>5. CASE n = 0
      <4>1. u.rd = t.rd /\ s2c' = s2c
        <5>1. \A s \in Seq(Part) : s \o SubSeq(s2c, 1, 0) = s
          BY SubSeqEmpty, ConcatEmptySeq
        <5>2. SubSeq(s2c, 1, Len(s2c)) = s2c
          BY <1>1
        <5> QED
          BY <1>1, <2>2, <2>8, <3>5, <5>1, <5>2 DEF Read
      <4>2. u.buf_is_incomplete = TRUE
        BY <2>2, <2>8 DEF Read
      <4>3. t.buf_is_incomplete = FALSE
        <5>1. ASSUME t.buf_is_incomplete # FALSE  PROVE FALSE
          <6>1. t.buf_is_incomplete = TRUE
            BY <1>1, <5>1 DEF Transports
          <6>2. \A v \in Transports :
                  v = [cmds |-> v.cmds, wr |-> v.wr, rd |-> v.rd,
                       buf_is_incomplete |-> v.buf_is_incomplete, inconsistent |-> v.inconsistent]
            BY DEF Transports
          <6>3. u = t
            BY <1>1, <2>2, <4>1, <4>2, <6>1, <6>2 DEF Read
          <6> QED
            BY <3>1, <4>1, <6>3 DEF vars, client, net
        <5> QED
          BY <5>1
      <4>4. Unpolled' < Unpolled
        BY <2>1, <3>1, <4>2, <4>3 DEF Unpolled
      <4>5. Unread' = Unread
        BY <3>1, <4>1 DEF Unread
      <4> QED
        BY <3>2, <4>4, <4>5, Lowers
    <3> QED
      BY <2>4, <3>4, <3>5
  <2> QED
    BY <2>2, <2>6, <2>7, <2>8 DEF Read
<1> QED
  BY <1>3, <1>4, <1>5

(* The steps of the server.                                                *)
LEMMA ServerLowers ==
  ASSUME TypeOK, ServerStep \/ ServerClose
  PROVE  Decreases
<1>1. PICK n \in Nat : n = Len(c2s)
  BY Numbers
<1>2. PICK a \in Nat, b \in Nat : a = Len(t.cmds) /\ b = Len(t.wr)
  BY Numbers
<1>3. Queued = 3 * a + 2 * b + n
  BY <1>1, <1>2 DEF Queued
<1>4. c2s # <<>> => n > 0 /\ Len(Tail(c2s)) = n - 1
  BY <1>1, Queues, Lengths
<1>5. UNCHANGED client
  BY DEF ServerStep, ServerTake, ServerReject, ServerReply, ServerEnd, ServerClose
<1>6. Requests' = Requests /\ Stage' = Stage /\ t' = t
  BY <1>5 DEF client, Requests, Stage
<1>7. CASE ~closed /\ closed' = TRUE
  <2>1. Opened' < Opened
    BY <1>7 DEF Opened
  <2> QED
    BY <2>1, Lowers
<1>8. CASE closed' = closed /\ c2s # <<>> /\ c2s' = Tail(c2s)
  <2>1. Queued' = 3 * a + 2 * b + (n - 1)
    BY <1>2, <1>4, <1>6, <1>8 DEF Queued
  <2>2. 3 * a + 2 * b + (n - 1) < 3 * a + 2 * b + n
    OBVIOUS
  <2>3. Opened' = Opened
    BY <1>8 DEF Opened
  <2> QED
    BY <1>3, <1>6, <2>1, <2>2, <2>3, Lowers
<1>9. CASE closed' = closed /\ c2s' = c2s /\ Unsaid' < Unsaid
  BY <1>6, <1>9, Lowers DEF Opened, Queued
<1>10. CASE ServerTake
  BY <1>8, <1>10 DEF ServerTake
<1>11. CASE ServerReject \/ ServerClose
  BY <1>7, <1>11 DEF ServerReject, ServerClose
<1>12. CASE ServerReply
  <2>1. srv.left \in Nat /\ srv'.st = "select" /\ srv'.left = srv.left - 1 /\ srv.st = "select"
    BY <1>12, Typed DEF ServerReply
  <2>2. Unsaid' < Unsaid
    BY <2>1 DEF Unsaid
  <2> QED
    BY <1>9, <1>12, <2>2 DEF ServerReply
<1>13. CASE ServerEnd
  <2>1. CASE c2s' = c2s
    <3>1. srv.st # "idle" /\ srv'.st = "idle"
      <4>1. CASE srv.st = "select"
        BY <1>13, <4>1 DEF ServerEnd, Idle, NewServer
      <4>2. CASE srv.st # "select"
        BY <1>13, <4>2 DEF ServerEnd, Idle, NewServer
      <4> QED
        BY <4>1, <4>2
    <3>2. Unsaid' = 0 /\ Unsaid = srv.left + 1 /\ srv.left \in Nat
      BY <3>1, Numbers DEF Unsaid
    <3>3. Unsaid' < Unsaid
      BY <3>2
    <3> QED
      BY <1>9, <1>13, <2>1, <3>3 DEF ServerEnd
  <2>2. CASE c2s' # c2s
    <3>1. c2s # <<>> /\ c2s' = Tail(c2s)
      BY <1>13, <2>2 DEF ServerEnd
    <3> QED
      BY <1>8, <1>13, <3>1 DEF ServerEnd
  <2> QED
    BY <2>1, <2>2
<1> QED
  BY <1>10, <1>11, <1>12, <1>13 DEF ServerStep

(* A ping begins over a transport that is not inconsistent, and no step of *)
(* its loop marks it so.                                                   *)
LEMMA PingStaysClean ==
  /\ Init => PingClean
  /\ TypeOK /\ PingClean /\ [Next]_vars => PingClean'
<1>1. Init => PingClean
  BY DEF Init, PingClean
<1>2. ASSUME TypeOK, PingClean, [Next]_vars, op' = "ping"  PROVE ~t'.inconsistent
  <2>1. t \in Transports
    BY <1>2, Typed
  <2>2. CASE UNCHANGED <<t, op>>
    BY <1>2, <2>2 DEF PingClean
  <2>3. \A r \in {"idle", "panicked"} : ~Lose(r)
    BY <1>2 DEF Lose
  <2>4. CASE \/ \E c \in Calls : Call(c)
             \/ ServerStep \/ ServerClose \/ UNCHANGED vars
    BY <2>2, <2>4
    DEF Call, ServerStep, ServerTake, ServerReject, ServerReply, ServerEnd, ServerClose,
        vars, client
  <2>5. CASE BeginClear \/ DropStream \/ FlushAddendum \/ Connect
    BY <1>2, <2>5 DEF BeginClear, DropStream, FlushAddendum, Connect
  <2>6. CASE Abandon \/ CloseHandle \/ PollEof
    BY <2>3, <2>6 DEF Abandon, CloseHandle, PollEof, OnEnd
  <2>7. CASE BeginCall
    <3>1. Head(plan) \in Calls /\ FirstReader[Head(plan)] = "ping"
      <4>1. plan \in Seq(Calls) /\ plan # <<>>
        BY <1>2, <2>7, Typed DEF BeginCall
      <4>2. Head(plan) \in Calls
        BY <4>1, HeadTailProperties
      <4> QED
        BY <1>2, <2>7, <4>2 DEF BeginCall
    <3>2. Head(plan) = "ping"
      BY <3>1 DEF Calls, FirstReader
    <3>3. ~t.inconsistent
      BY <2>7, <3>2 DEF BeginCall, Clearing
    <3>4. t'.inconsistent = t.inconsistent
      BY <2>1, <2>7 DEF BeginCall, Transports
    <3> QED
      BY <3>3, <3>4
  <2>8. CASE Pack \/ Flush \/ AllSent
    <3>1. op = "ping" /\ t'.inconsistent = t.inconsistent
      BY <1>2, <2>1, <2>8 DEF Pack, Flush, AllSent, Transports
    <3> QED
      BY <1>2, <3>1 DEF PingClean
  <2>9. CASE PackFails
    <3>1. op = "blocks" /\ op' = op
      BY <2>3, <2>9 DEF PackFails
    <3> QED
      BY <1>2, <3>1
  <2>10. ASSUME NEW u \in Transports, u.inconsistent = t.inconsistent, op \in Readers,
                Deliver(u) \/ Skip(u)
         PROVE  ~t'.inconsistent
    <3>1. op = "ping" /\ t'.inconsistent = u.inconsistent
      <4>1. CASE Skip(u)
        BY <1>2, <4>1 DEF Skip
      <4>2. CASE Deliver(u)
        <5>1. PICK v : v = [u EXCEPT !.rd = SubSeq(u.rd, 3, Len(u.rd))]
          OBVIOUS
        <5>2. v.inconsistent = u.inconsistent
          BY <5>1 DEF Transports
        <5>3. Finishes(v, op)
          BY <1>2, <2>10, <4>2, <5>1, Outcomes DEF Finishes, Continues
        <5> QED
          BY <1>2, <5>2, <5>3 DEF Finishes
      <4> QED
        BY <2>10, <4>1, <4>2
    <3> QED
      BY <1>2, <2>10, <3>1 DEF PingClean
  <2>11. CASE PollBuffered
    BY <2>1, <2>3, <2>10, <2>11 DEF PollBuffered, Refuse
  <2>12. CASE PollRead
    <3>1. op \in Readers
      BY <2>12 DEF PollRead
    <3>2. PICK n \in 0..Len(s2c), u \in Transports : Read(n, u)
      BY <1>2, <2>12, Reads
    <3>3. ~Refuse(u)
      BY <2>3 DEF Refuse
    <3> QED
      BY <2>10, <3>1, <3>2, <3>3 DEF Read
  <2> QED
    BY <1>2, <2>4, <2>5, <2>6, <2>7, <2>8, <2>9, <2>11, <2>12 DEF Next, ClientStep
<1> QED
  BY <1>1, <1>2 DEF PingClean

(* Every step taken during a call, by the client, by the server or by the  *)
(* connection, ends the call or leaves it less to do: no loop of the       *)
(* client goes round for ever, however the reply is cut into reads, for    *)
(* any number of requests and of packets, with or without the ping.        *)
THEOREM TransportCallProgress == Spec => CallProgress
<1>1. TypeOK /\ Steps /\ PingClean /\ [Next]_vars => [InCall /\ InCall' => Decreases]_vars
  <2>1. SUFFICES ASSUME TypeOK, Steps, PingClean, Next, ~(UNCHANGED vars), InCall, InCall'
                 PROVE  Decreases
    OBVIOUS
  <2>2. op \notin {"idle", "clear", "ping"} \/ ~present => plan = <<>>
    BY <2>1 DEF Steps
  <2>3. CASE (\E c \in Calls : Call(c)) \/ CloseHandle \/ Connect
    BY <2>1, <2>2, <2>3 DEF Call, CloseHandle, Connect, InCall, Readers
  <2>4. CASE BeginClear \/ BeginCall \/ Pack \/ Flush \/ AllSent
    BY <2>1, <2>4, SendingLowers
  <2>5. CASE FlushAddendum \/ DropStream
    BY <2>1, <2>2, <2>5 DEF FlushAddendum, DropStream, InCall, Readers
  <2>6. CASE PackFails
    <3>1. CASE op = "blocks"
      BY <2>1, <2>6, <3>1, SendingLowers
    <3>2. CASE op # "blocks"
      BY <2>1, <2>6, <3>2, LossEnds DEF PackFails
    <3> QED
      BY <3>1, <3>2
  <2>7. CASE PollBuffered \/ PollRead \/ PollEof
    BY <2>1, <2>7, PollingLowers
  <2>8. CASE Abandon
    BY <2>1, <2>8, LossEnds DEF Abandon
  <2>9. CASE ServerStep \/ ServerClose
    BY <2>1, <2>9, ServerLowers
  <2> QED
    BY <2>1, <2>3, <2>4, <2>5, <2>6, <2>7, <2>8, <2>9 DEF Next, ClientStep
<1>2. Spec => [](TypeOK /\ Steps)
  BY TypeInit, TypeStep, PTL DEF Spec
<1>3. Spec => []PingClean
  <2>1. Spec => []TypeOK
    BY TransportTypeOK
  <2> QED
    BY <2>1, PingStaysClean, PTL DEF Spec
<1> QED
  BY <1>1, <1>2, <1>3, PTL DEF Spec, CallProgress

(* The order of the numbers of a measure.                                  *)
Below == OpToRel(<, Nat)

(* What is left to do cannot become less for ever: it is seven numbers,    *)
(* compared by the first that differs.                                     *)
THEOREM CallsFounded ==
  /\ IsWellFoundedOn(LexProductOrdering(Below, Nat, 7), [1..7 -> Nat])
  /\ TypeOK => Measure \in [1..7 -> Nat]
  /\ TypeOK /\ TypeOK' /\ Decreases => <<Measure', Measure>> \in LexProductOrdering(Below, Nat, 7)
<1>1. IsWellFoundedOn(LexProductOrdering(Below, Nat, 7), [1..7 -> Nat])
  BY NatLessThanWellFounded, WFLexProductOrdering DEF Below
<1>2. TypeOK => Measure \in [1..7 -> Nat]
  <2>1. SUFFICES ASSUME TypeOK  PROVE Measure \in [1..7 -> Nat]
    OBVIOUS
  <2>2. Opened \in Nat /\ Requests \in Nat /\ Stage \in Nat /\ Unsaid \in Nat /\ Unpolled \in Nat
    BY <2>1, Numbers DEF Opened, Requests, Stage, Unsaid, Unpolled
  <2>3. Queued \in Nat /\ Unread \in Nat
    <3>1. PICK a \in Nat, b \in Nat, c \in Nat, d \in Nat, e \in Nat :
            /\ a = Len(t.cmds) /\ b = Len(t.wr) /\ c = Len(c2s) /\ d = Len(s2c) /\ e = Len(t.rd)
      BY <2>1, Numbers
    <3>2. Queued = 3 * a + 2 * b + c /\ Unread = 2 * d + e
      BY <3>1 DEF Queued, Unread
    <3> QED
      BY <3>2
  <2>4. \A a, b, c, d, e, f, g \in Nat : <<a, b, c, d, e, f, g>> \in [1..7 -> Nat]
    OBVIOUS
  <2> QED
    BY <2>2, <2>3, <2>4 DEF Measure
<1>3. TypeOK' => Measure' \in [1..7 -> Nat]
  <2>1. SUFFICES ASSUME TypeOK'  PROVE Measure' \in [1..7 -> Nat]
    OBVIOUS
  <2>2. /\ t' \in Transports /\ c2s' \in Seq(Cmd) /\ s2c' \in Seq(Part)
        /\ sent' \in 0..MaxRequests /\ MaxRequests \in Nat /\ srv'.left \in Nat
    BY <2>1, BoundsAssumption DEF TypeOK, Transports
  <2>3. /\ Opened' \in Nat /\ Requests' \in Nat /\ Stage' \in Nat /\ Unsaid' \in Nat
        /\ Unpolled' \in Nat
    <3>1. \A a \in Nat : \A b \in 0..a : a - b \in Nat
      OBVIOUS
    <3>2. Requests' \in Nat
      BY <2>2, <3>1 DEF Requests
    <3>3. Opened' \in Nat /\ Stage' \in Nat /\ Unpolled' \in Nat
      BY DEF Opened, Stage, Unpolled
    <3>4. Unsaid' \in Nat
      BY <2>2 DEF Unsaid
    <3> QED
      BY <3>2, <3>3, <3>4
  <2>4. t'.cmds \in Seq(Cmd) /\ t'.wr \in Seq(Cmd) /\ t'.rd \in Seq(Part)
    BY <2>2 DEF Transports
  <2>5. Queued' \in Nat /\ Unread' \in Nat
    <3>1. PICK a \in Nat, b \in Nat, c \in Nat, d \in Nat, e \in Nat :
            /\ a = Len(t'.cmds) /\ b = Len(t'.wr) /\ c = Len(c2s')
            /\ d = Len(s2c') /\ e = Len(t'.rd)
      BY <2>2, <2>4, LenProperties
    <3>2. Queued' = 3 * a + 2 * b + c /\ Unread' = 2 * d + e
      BY <3>1 DEF Queued, Unread
    <3> QED
      BY <3>2
  <2>6. \A a, b, c, d, e, f, g \in Nat : <<a, b, c, d, e, f, g>> \in [1..7 -> Nat]
    OBVIOUS
  <2> QED
    BY <2>3, <2>5, <2>6 DEF Measure
<1>4. ASSUME TypeOK, TypeOK', Decreases
      PROVE  <<Measure', Measure>> \in LexProductOrdering(Below, Nat, 7)
  <2>1. Measure \in [1..7 -> Nat] /\ Measure' \in [1..7 -> Nat]
    BY <1>2, <1>3, <1>4
  <2>2. PICK i \in 1..7 : Measure'[i] < Measure[i] /\ \A j \in 1..i - 1 : Measure'[j] = Measure[j]
    BY <1>4 DEF Decreases
  <2>3. <<Measure'[i], Measure[i]>> \in Below
    BY <2>1, <2>2 DEF Below, OpToRel
  <2> QED
    BY <2>1, <2>2, <2>3 DEF LexProductOrdering
<1> QED
  BY <1>1, <1>2, <1>4

-----------------------------------------------------------------------------
(* Waiting.                                                                *)

(* A loop that receives has sent all there was to send.                    *)
AllAsked == op \in Readers /\ ps = "receive" => t.wr = <<>> /\ t.cmds = <<>>

(* Whoever adds to what is to be sent also goes back to sending.           *)
LEMMA AllAskedHolds ==
  /\ Init => AllAsked
  /\ TypeOK /\ AllAsked /\ [Next]_vars => AllAsked'
<1>1. Init => AllAsked
  BY DEF Init, AllAsked, Readers
<1>2. ASSUME TypeOK, AllAsked, [Next]_vars, op' \in Readers, ps' = "receive"
      PROVE  t'.wr = <<>> /\ t'.cmds = <<>>
  <2>1. t \in Transports
    BY <1>2, Typed
  <2>2. \A r \in {"idle", "panicked"} : ~Lose(r)
    BY <1>2 DEF Lose, Readers
  <2>3. CASE UNCHANGED <<t, op, ps>>
    BY <1>2, <2>3 DEF AllAsked
  <2>4. CASE \/ \E c \in Calls : Call(c)
             \/ ServerStep \/ ServerClose \/ UNCHANGED vars
    BY <2>3, <2>4
    DEF Call, ServerStep, ServerTake, ServerReject, ServerReply, ServerEnd, ServerClose,
        vars, client
  <2>5. CASE BeginClear \/ BeginCall \/ Connect \/ DropStream \/ FlushAddendum
    BY <1>2, <2>5 DEF BeginClear, BeginCall, Connect, DropStream, FlushAddendum, Readers
  <2>6. CASE Abandon \/ CloseHandle \/ PollEof
    BY <2>2, <2>6 DEF Abandon, CloseHandle, PollEof, OnEnd
  <2>7. CASE Pack \/ Flush \/ PackFails
    BY <1>2, <2>2, <2>7 DEF Pack, Flush, PackFails
  <2>8. CASE AllSent
    BY <2>8 DEF AllSent
  <2>9. ASSUME NEW u \in Transports, u.cmds = t.cmds, u.wr = t.wr, op \in Readers,
               ps = "receive", Deliver(u) \/ Skip(u)
        PROVE  t'.wr = <<>> /\ t'.cmds = <<>>
    <3>1. u.wr = <<>> /\ u.cmds = <<>>
      BY <1>2, <2>9 DEF AllAsked
    <3>2. CASE Skip(u)
      BY <3>1, <3>2 DEF Skip
    <3>3. CASE Deliver(u)
      <4>1. PICK v : v = [u EXCEPT !.rd = SubSeq(u.rd, 3, Len(u.rd))]
        OBVIOUS
      <4>2. v.wr = u.wr /\ v.cmds = u.cmds
        BY <4>1 DEF Transports
      <4>3. Finishes(v, op)
        BY <1>2, <2>9, <3>3, <4>1, Outcomes DEF Finishes, Continues, Readers
      <4> QED
        BY <3>1, <4>2, <4>3 DEF Finishes
    <3> QED
      BY <2>9, <3>2, <3>3
  <2>10. CASE PollBuffered
    BY <2>1, <2>2, <2>9, <2>10 DEF PollBuffered, Refuse
  <2>11. CASE PollRead
    <3>1. op \in Readers /\ ps = "receive"
      BY <2>11 DEF PollRead
    <3>2. PICK n \in 0..Len(s2c), u \in Transports : Read(n, u)
      BY <1>2, <2>11, Reads
    <3>3. ~Refuse(u)
      BY <2>2 DEF Refuse
    <3> QED
      BY <2>9, <3>1, <3>2, <3>3 DEF Read
  <2> QED
    BY <1>2, <2>4, <2>5, <2>6, <2>7, <2>8, <2>10, <2>11 DEF Next, ClientStep
<1> QED
  BY <1>1, <1>2 DEF AllAsked

(* A loop that receives over an open connection has something to read, or  *)
(* waits for a server that has something to do for it.                     *)
Answerable ==
  op \in Readers /\ ps = "receive" /\ ~closed =>
    \/ HasPacket(t.rd) \/ s2c # <<>>
    \/ srv.st = "select"
    \/ /\ c2s # <<>>
       /\ srv.st = (IF Head(c2s).k = "data" THEN "insert" ELSE "idle")

(* Nobody waits for an answer that nobody is to give: the client waits     *)
(* only when a part of its answer is on the way, or the server runs its    *)
(* query, or a command is there that the server can take.  As before, it   *)
(* needs the ping, and a query that can be encoded (README, 6).            *)
THEOREM TransportAnswerable ==
  ASSUME PingBeforeQuery = TRUE, "query" \notin Unencodable
  PROVE  Spec => []Answerable
<1>1. IInv /\ AllAsked => Answerable
  <2>1. SUFFICES ASSUME IInv, AllAsked, op \in Readers, ps = "receive", ~closed, srv.st # "select",
                        ~HasPacket(t.rd), s2c = <<>>
                 PROVE  /\ c2s # <<>>
                        /\ srv.st = (IF Head(c2s).k = "data" THEN "insert" ELSE "idle")
    BY DEF Answerable
  <2>2. TypeOK /\ t.wr = <<>> /\ t.cmds = <<>>
    BY <2>1 DEF IInv, AllAsked
  <2>3. Out = c2s /\ In = t.rd
    BY <2>1, <2>2, Queues, ConcatEmptySeq DEF Out, In
  <2>4. PICK r \in Readers : r = Doing /\ Talk(r)
    BY <2>1 DEF IInv, Conversation, Doing, Readers
  <2>5. PICK m \in Nat : m = Len(In) /\ m < 2 /\ ~(m >= 2)
    BY <2>1, <2>2, <2>3, Queues DEF HasPacket
  <2>6. ~Answered(r) /\ ~CutOff(r) /\ ~Unsent(r) /\ ~Running(r)
    BY <2>1, <2>5 DEF Answered, CutOff, Unsent, Running
  <2>7. Asked(r) /\ Ordered(r)
    BY <2>4, <2>6 DEF Talk
  <2>8. PICK n \in Nat : n = Len(c2s) /\ n # 0 /\ c2s # <<>> /\ Head(c2s) = Out[1]
    <3>1. c2s # <<>>
      BY <2>3, <2>7 DEF Asked, AllStale
    <3>2. c2s \in Seq(Cmd)
      BY <2>2, Queues
    <3>3. Head(c2s) = c2s[1] /\ Len(c2s) \in Nat /\ Len(c2s) # 0
      BY <3>1, <3>2, EmptySeq, HeadTailProperties, LenProperties
    <3> QED
      BY <2>3, <3>1, <3>3
  <2>9. 1 \in 1..n
    BY <2>8
  <2>10. Out[1] = Request(r) \/ Stale(Out[1])
    BY <2>3, <2>7, <2>8, <2>9 DEF Ordered
  <2>11. CASE r = "tail"
    <3>1. n <= 1
      BY <2>3, <2>7, <2>8, <2>11 DEF Ordered
    <3>2. ~Stale(Out[1])
      BY <2>3, <2>7, <2>8, <2>9, <2>11, <3>1 DEF Ordered
    <3> QED
      BY <2>7, <2>8, <2>10, <2>11, <3>2 DEF Request, Asks, Asked
  <2>12. CASE r # "tail"
    <3>1. Asks[r] # "data"
      BY <2>12 DEF Asks, Readers
    <3>2. Out[1].k # "data"
      BY <2>10, <3>1 DEF Request, Stale
    <3> QED
      BY <2>7, <2>8, <2>12, <3>2 DEF Asked
  <2> QED
    BY <2>11, <2>12
<1>2. Spec => []AllAsked
  <2>1. Spec => []TypeOK
    BY TransportTypeOK
  <2> QED
    BY <2>1, AllAskedHolds, PTL DEF Spec
<1> QED
  BY <1>1, <1>2, Invariant, PTL

=============================================================================
