---------------------------- MODULE HandleProofs ----------------------------
(***************************************************************************)
(* Safety of Handle.tla for every number of tasks, connections and         *)
(* retries, whatever fails and whatever is abandoned.                      *)
(*                                                                         *)
(* That a slot is freed once is a matter of where a connection may be at   *)
(* each step of its user, so the inductive invariant says, besides the     *)
(* properties, for each task: when it has a transport and where (Stage),   *)
(* that no other has it (Places), and that `inside` tells a connection     *)
(* that the pool must hear of when it ends (Inside).                       *)
(***************************************************************************)
EXTENDS Handle, FiniteSetTheorems, TLAPS

Handles  == [inner : Conns \cup {None}, pool : {"none", "attached", "detached"}]
ConnData == [inside : BOOLEAN, broken : BOOLEAN, failed : BOOLEAN]
Retries  == [attempt : 0..SendRetries, skip_check : BOOLEAN, call : Calls]

(* The connections that end with p. *)
Own(p) == {h[p].inner, taken[p]} \ {None}

TakenPCs == {"running", "pinging", "stream", "stream_finished", "stream_error"}

(* inner and pool of a handle, the transport taken, the label, and the     *)
(* attempt and skip_check of its task.                                     *)
StageOf(i, b, t, l, a, s) ==
  /\ t # None <=> l \in TakenPCs
  /\ l \in TakenPCs \cup {"reconnecting", "sleeping"} => i = None
  /\ l \in {"out", "getting"} => i = None /\ b = "none"
  /\ l \in {"have", "begin"} /\ b = "detached" => i = None
  /\ l = "running" => b # "detached"
  /\ l \in GuardPCs \cup {"stream", "stream_finished", "stream_error"} => b # "none"
  /\ s => l \in {"guard", "sleeping"} /\ i = None
  /\ l = "sleeping" => a < SendRetries

Stage(p) == StageOf(h[p].inner, h[p].pool, taken[p], pc[p],
                    retry[p].attempt, retry[p].skip_check)
Stages == \A p \in Tasks : Stage(p)

Places ==
  /\ \A i, j \in 1..Len(idle) : i # j => idle[i] # idle[j]
  /\ \A p \in Tasks : Own(p) \cap Range(idle) = {}
  /\ \A p, q \in Tasks : p # q => Own(p) \cap Own(q) = {}

Inside ==
  /\ \A c \in Range(idle) : conn[c].inside
  /\ \A p \in Tasks : \A c \in Own(p) : conn[c].inside <=> h[p].pool = "none"
  /\ \A c \in Conns : ~conn[c].inside => \E p \in Tasks : c \in Own(p)

(* The connections whose slot is freed when they end. *)
Counted == {c \in Conns : ~conn[c].inside}
Counts  == /\ n.ongoing = Cardinality(Counted)
           /\ n.slots = opening + Len(idle) + n.ongoing
           /\ n.slots <= Max

Ledger == Places /\ Inside /\ Counts
IInv   == TypeOK /\ Stages /\ Ledger

-----------------------------------------------------------------------------
(* What an assignment to a part of a record does to the rest.              *)
LEMMA SetHandle ==
  ASSUME h \in [Tasks -> Handles], NEW p \in Tasks,
         NEW i \in Conns \cup {None}, NEW b \in {"none", "attached", "detached"},
         \/ UNCHANGED h /\ i = h[p].inner /\ b = h[p].pool
         \/ h' = [h EXCEPT ![p].inner = i] /\ b = h[p].pool
         \/ h' = [h EXCEPT ![p].pool = b] /\ i = h[p].inner
         \/ h' = [h EXCEPT ![p] = [inner |-> i, pool |-> b]]
  PROVE  /\ h' \in [Tasks -> Handles] /\ h'[p].inner = i /\ h'[p].pool = b
         /\ \A q \in Tasks \ {p} : h'[q] = h[q]
<1>1. [inner |-> i, pool |-> b] \in Handles
  BY DEF Handles
<1>2. h[p] \in Handles /\ h[p] = [inner |-> h[p].inner, pool |-> h[p].pool]
  BY DEF Handles
<1>3. UNCHANGED h \/ h' = [h EXCEPT ![p] = [inner |-> i, pool |-> b]]
  BY <1>2
<1> QED
  BY <1>1, <1>2, <1>3

(* The same of the locals of a guard.                                      *)
LEMMA SetRetry ==
  ASSUME retry \in [Tasks -> Retries], NEW p \in Tasks,
         NEW a \in 0..SendRetries, NEW s \in BOOLEAN, NEW k \in Calls,
         \/ UNCHANGED retry /\ a = retry[p].attempt /\ s = retry[p].skip_check /\ k = retry[p].call
         \/ retry' = [retry EXCEPT ![p].attempt = a] /\ s = retry[p].skip_check /\ k = retry[p].call
         \/ retry' = [retry EXCEPT ![p].skip_check = s] /\ a = retry[p].attempt /\ k = retry[p].call
         \/ retry' = [retry EXCEPT ![p] = [NoRetry EXCEPT !.call = k]] /\ a = 0 /\ s = FALSE
         \/ retry' = [retry EXCEPT ![p] = NoRetry] /\ a = 0 /\ s = FALSE /\ k = "check"
  PROVE  /\ retry' \in [Tasks -> Retries] /\ retry'[p].attempt = a /\ retry'[p].skip_check = s
         /\ \A q \in Tasks \ {p} : retry'[q] = retry[q]
<1>1. [attempt |-> a, skip_check |-> s, call |-> k] \in Retries
  BY DEF Retries
<1>2. retry[p] = [attempt |-> retry[p].attempt, skip_check |-> retry[p].skip_check,
                  call |-> retry[p].call]
  BY DEF Retries
<1>3. [NoRetry EXCEPT !.call = k] = [attempt |-> 0, skip_check |-> FALSE, call |-> k]
  <2>1. NoRetry \in Retries /\ NoRetry.attempt = 0 /\ NoRetry.skip_check = FALSE
    BY LimitsAssumption DEF NoRetry, Retries, Calls
  <2>2. \A r \in Retries : [r EXCEPT !.call = k] =
          [attempt |-> r.attempt, skip_check |-> r.skip_check, call |-> k]
    BY DEF Retries
  <2> QED
    BY <2>1, <2>2
<1>4. \/ UNCHANGED retry /\ a = retry[p].attempt /\ s = retry[p].skip_check
      \/ retry' = [retry EXCEPT ![p] = [attempt |-> a, skip_check |-> s, call |-> k]]
  BY <1>2, <1>3 DEF NoRetry
<1>5. CASE UNCHANGED retry /\ a = retry[p].attempt /\ s = retry[p].skip_check
  BY <1>5
<1>6. CASE retry' = [retry EXCEPT ![p] = [attempt |-> a, skip_check |-> s, call |-> k]]
  BY <1>1, <1>6
<1> QED
  BY <1>4, <1>5, <1>6

(* The same of the data of a connection.                                   *)
LEMMA SetConn ==
  ASSUME conn \in [Conns -> ConnData], NEW c \in Conns,
         NEW i \in BOOLEAN, NEW b \in BOOLEAN, NEW e \in BOOLEAN,
         \/ conn' = [conn EXCEPT ![c].inside = i] /\ b = conn[c].broken /\ e = conn[c].failed
         \/ conn' = [conn EXCEPT ![c].broken = b] /\ i = conn[c].inside /\ e = conn[c].failed
         \/ conn' = [conn EXCEPT ![c].failed = e] /\ i = conn[c].inside /\ b = conn[c].broken
         \/ conn' = [conn EXCEPT ![c] = NewConn] /\ i = TRUE /\ b = FALSE /\ e = FALSE
  PROVE  /\ conn' \in [Conns -> ConnData] /\ conn'[c].inside = i
         /\ \A d \in Conns \ {c} : conn'[d] = conn[d]
<1>1. [inside |-> i, broken |-> b, failed |-> e] \in ConnData
  BY DEF ConnData
<1>2. conn[c] = [inside |-> conn[c].inside, broken |-> conn[c].broken, failed |-> conn[c].failed]
  BY DEF ConnData
<1>3. conn' = [conn EXCEPT ![c] = [inside |-> i, broken |-> b, failed |-> e]]
  BY <1>2 DEF NewConn
<1> QED
  BY <1>1, <1>3

-----------------------------------------------------------------------------
(* The step of a task, seen from its handle: the parts of the handle, the  *)
(* transport taken and the label are new, those of other tasks stay.       *)
Moved(p, i, b, t, l) ==
  /\ h' \in [Tasks -> Handles] /\ h'[p].inner = i /\ h'[p].pool = b
  /\ taken' \in [Tasks -> Conns \cup {None}] /\ taken'[p] = t
  /\ pc' \in [Tasks -> PCs] /\ pc'[p] = l
  /\ \A q \in Tasks \ {p} : h'[q] = h[q] /\ taken'[q] = taken[q] /\ pc'[q] = pc[q]

(* Assignments to parts of the task's handle are such a move.              *)
LEMMA MovedBy ==
  ASSUME TypeOK, NEW p \in Tasks,
         NEW i \in Conns \cup {None}, NEW b \in {"none", "attached", "detached"},
         NEW t \in Conns \cup {None}, NEW l \in PCs, Goto(p, l),
         \/ UNCHANGED h /\ i = h[p].inner /\ b = h[p].pool
         \/ h' = [h EXCEPT ![p].inner = i] /\ b = h[p].pool
         \/ h' = [h EXCEPT ![p].pool = b] /\ i = h[p].inner
         \/ h' = [h EXCEPT ![p] = [inner |-> i, pool |-> b]],
         (UNCHANGED taken /\ t = taken[p]) \/ taken' = [taken EXCEPT ![p] = t]
  PROVE  Moved(p, i, b, t, l)
<1>1. h \in [Tasks -> Handles] /\ taken \in [Tasks -> Conns \cup {None}] /\ pc \in [Tasks -> PCs]
  BY DEF TypeOK, Handles
<1>2. /\ h' \in [Tasks -> Handles] /\ h'[p].inner = i /\ h'[p].pool = b
      /\ \A q \in Tasks \ {p} : h'[q] = h[q]
  BY <1>1, SetHandle
<1>3. /\ taken' \in [Tasks -> Conns \cup {None}] /\ taken'[p] = t
      /\ \A q \in Tasks \ {p} : taken'[q] = taken[q]
  BY <1>1
<1>4. /\ pc' \in [Tasks -> PCs] /\ pc'[p] = l
      /\ \A q \in Tasks \ {p} : pc'[q] = pc[q]
  BY <1>1 DEF Goto
<1> QED
  BY <1>2, <1>3, <1>4 DEF Moved


(* How each action moves the handle of its task, and what it does to the   *)
(* locals of the guard.                                                    *)
Cleared(p)   == retry' = [retry EXCEPT ![p] = NoRetry]
Starts(p, k) == retry' = [retry EXCEPT ![p] = [NoRetry EXCEPT !.call = k]]

(* Where each step of a task takes its connection: a step that says nothing *)
(* of the handle, or of what was taken out of it, leaves it alone.         *)
LEMMA Moves ==
  ASSUME TypeOK, Stages, NEW p \in Tasks
  PROVE  /\ GetHandle(p) => Moved(p, h[p].inner, h[p].pool, taken[p], "getting")
         /\ AbandonGet(p) => Moved(p, h[p].inner, h[p].pool, taken[p], "out")
         /\ TakeConn(p) => \E l \in {"have", "guard"} :
               Moved(p, Head(idle), "attached", taken[p], l)
         /\ OpenFails(p) =>
               \/ /\ pc[p] = "getting" /\ UNCHANGED retry
                  /\ Moved(p, h[p].inner, h[p].pool, taken[p], "out")
               \/ /\ pc[p] = "reconnecting" /\ CanGiveUp(p) /\ Cleared(p)
                  /\ Moved(p, h[p].inner, h[p].pool, taken[p], "have")
               \/ /\ pc[p] = "reconnecting" /\ ~CanGiveUp(p)
                  /\ retry' = [retry EXCEPT ![p].skip_check = TRUE]
                  /\ Moved(p, h[p].inner, h[p].pool, taken[p], "sleeping")
         /\ DropHandle(p) => Moved(p, None, "none", taken[p], "out")
         /\ ConnectDirect(p) => \E c \in Conns \ Alive : Moved(p, c, "none", taken[p], "have")
         /\ \A call \in Calls : \A ping : Call(p, call, ping) =>
               \/ /\ h[p].pool = "attached" /\ Starts(p, call)
                  /\ Moved(p, h[p].inner, "detached", taken[p], "guard")
               \/ /\ h[p].pool # "attached" /\ UNCHANGED retry
                  /\ Moved(p, h[p].inner, "none", taken[p], "panicked")
               \/ Starts(p, call) /\ Moved(p, h[p].inner, h[p].pool, taken[p], "begin")
         /\ Begin(p) =>
               \/ h[p].inner = None /\ Cleared(p) /\ Moved(p, None, h[p].pool, taken[p], "have")
               \/ h[p].inner # None /\ Cleared(p) /\ Moved(p, None, h[p].pool, h[p].inner, "running")
               \/ /\ h[p].pool # "attached" /\ UNCHANGED retry
                  /\ Moved(p, h[p].inner, "none", taken[p], "panicked")
               \/ h[p].inner = None /\ Cleared(p) /\ Moved(p, None, "detached", taken[p], "have")
               \/ /\ h[p].inner # None /\ h[p].pool = "attached"
                  /\ Cleared(p) /\ Moved(p, None, "detached", h[p].inner, "stream")
         /\ RunOk(p) => Moved(p, taken[p], h[p].pool, None, "have")
         /\ RunFails(p) \/ DropEnded(p) => Moved(p, h[p].inner, h[p].pool, None, "have")
         /\ StreamEof(p) \/ DropReading(p) => Moved(p, taken[p], "attached", None, "have")
         /\ StreamEnds(p) => \E l \in {"stream_error", "stream_finished"} :
               Moved(p, h[p].inner, h[p].pool, taken[p], l)
         /\ Guard(p) =>
               \/ /\ retry[p].skip_check /\ retry' = [retry EXCEPT ![p].skip_check = FALSE]
                  /\ Moved(p, h[p].inner, h[p].pool, taken[p], "reconnecting")
               \/ /\ ~retry[p].skip_check /\ h[p].inner = None
                  /\ \/ Cleared(p) /\ Moved(p, None, h[p].pool, taken[p], "have")
                     \/ UNCHANGED retry /\ Moved(p, None, h[p].pool, taken[p], "reconnecting")
               \/ /\ ~retry[p].skip_check /\ h[p].inner # None /\ UNCHANGED retry
                  /\ Moved(p, None, h[p].pool, h[p].inner, "pinging")
         /\ PingOk(p) => \/ Cleared(p) /\ Moved(p, taken[p], "attached", None, "have")
                         \/ UNCHANGED retry /\ Moved(p, taken[p], "attached", None, "begin")
         /\ PingFails(p) =>
               \/ Cleared(p) /\ Moved(p, h[p].inner, h[p].pool, None, "have")
               \/ UNCHANGED retry /\ Moved(p, h[p].inner, h[p].pool, None, "reconnecting")
         /\ WakeUp(p) => Moved(p, h[p].inner, h[p].pool, taken[p], "guard")
         /\ AbandonCheck(p) => Cleared(p) /\ Moved(p, h[p].inner, h[p].pool, None, "have")
<1>1. /\ h[p].inner \in Conns \cup {None} /\ h[p].pool \in {"none", "attached", "detached"}
      /\ taken[p] \in Conns \cup {None} /\ None \in Conns \cup {None}
  BY DEF TypeOK
<1>2. \A l \in {"out", "getting", "have", "begin", "running", "stream", "stream_finished",
               "stream_error", "panicked", "guard", "pinging", "reconnecting", "sleeping"} : l \in PCs
  BY DEF PCs, GuardPCs
<1> USE <1>1, <1>2, MovedBy
<1>3. GetHandle(p) => Moved(p, h[p].inner, h[p].pool, taken[p], "getting")
  BY DEF GetHandle
<1>10. AbandonGet(p) => Moved(p, h[p].inner, h[p].pool, taken[p], "out")
  BY DEF AbandonGet
<1>4. ASSUME TakeConn(p) PROVE \E l \in {"have", "guard"} : Moved(p, Head(idle), "attached", taken[p], l)
  <2>1. Head(idle) \in Conns \cup {None}
    BY <1>4 DEF TakeConn, TypeOK
  <2> QED
    BY <1>4, <2>1 DEF TakeConn
<1>5. ASSUME OpenFails(p)
      PROVE  \/ /\ pc[p] = "getting" /\ UNCHANGED retry
                /\ Moved(p, h[p].inner, h[p].pool, taken[p], "out")
             \/ /\ pc[p] = "reconnecting" /\ CanGiveUp(p) /\ Cleared(p)
                /\ Moved(p, h[p].inner, h[p].pool, taken[p], "have")
             \/ /\ pc[p] = "reconnecting" /\ ~CanGiveUp(p)
                /\ retry' = [retry EXCEPT ![p].skip_check = TRUE]
                /\ Moved(p, h[p].inner, h[p].pool, taken[p], "sleeping")
  BY <1>5 DEF OpenFails, Waiting, Cleared
<1>6. DropHandle(p) => Moved(p, None, "none", taken[p], "out")
  BY DEF DropHandle, NoHandle
<1>7. ConnectDirect(p) => \E c \in Conns \ Alive : Moved(p, c, "none", taken[p], "have")
  BY DEF ConnectDirect
<1>8. ASSUME NEW call \in Calls, NEW ping, Call(p, call, ping)
      PROVE  \/ /\ h[p].pool = "attached" /\ Starts(p, call)
                /\ Moved(p, h[p].inner, "detached", taken[p], "guard")
             \/ /\ h[p].pool # "attached" /\ UNCHANGED retry
                /\ Moved(p, h[p].inner, "none", taken[p], "panicked")
             \/ Starts(p, call) /\ Moved(p, h[p].inner, h[p].pool, taken[p], "begin")
  BY <1>8 DEF Call, Panic, Starts
<1>9. ASSUME Begin(p)
      PROVE  \/ h[p].inner = None /\ Cleared(p) /\ Moved(p, None, h[p].pool, taken[p], "have")
             \/ h[p].inner # None /\ Cleared(p) /\ Moved(p, None, h[p].pool, h[p].inner, "running")
             \/ /\ h[p].pool # "attached" /\ UNCHANGED retry
                /\ Moved(p, h[p].inner, "none", taken[p], "panicked")
             \/ h[p].inner = None /\ Cleared(p) /\ Moved(p, None, "detached", taken[p], "have")
             \/ /\ h[p].inner # None /\ h[p].pool = "attached"
                /\ Cleared(p) /\ Moved(p, None, "detached", h[p].inner, "stream")
  BY <1>9 DEF Begin, Panic, Take, Cleared
<1>11. RunOk(p) => Moved(p, taken[p], h[p].pool, None, "have")
  BY DEF RunOk
<1>12. RunFails(p) \/ DropEnded(p) => Moved(p, h[p].inner, h[p].pool, None, "have")
  BY DEF RunFails, DropEnded
<1>13. StreamEof(p) \/ DropReading(p) => Moved(p, taken[p], "attached", None, "have")
  BY DEF StreamEof, DropReading, GiveBack, Reattach
<1>14. StreamEnds(p) => \E l \in {"stream_error", "stream_finished"} :
                          Moved(p, h[p].inner, h[p].pool, taken[p], l)
  BY DEF StreamEnds
<1>15. ASSUME Guard(p)
       PROVE  \/ /\ retry[p].skip_check /\ retry' = [retry EXCEPT ![p].skip_check = FALSE]
                 /\ Moved(p, h[p].inner, h[p].pool, taken[p], "reconnecting")
              \/ /\ ~retry[p].skip_check /\ h[p].inner = None
                 /\ \/ Cleared(p) /\ Moved(p, None, h[p].pool, taken[p], "have")
                    \/ UNCHANGED retry /\ Moved(p, None, h[p].pool, taken[p], "reconnecting")
              \/ /\ ~retry[p].skip_check /\ h[p].inner # None /\ UNCHANGED retry
                 /\ Moved(p, None, h[p].pool, h[p].inner, "pinging")
  BY <1>15 DEF Guard, CheckFailed, Take, Cleared
<1>16. PingOk(p) => \/ Cleared(p) /\ Moved(p, taken[p], "attached", None, "have")
                    \/ UNCHANGED retry /\ Moved(p, taken[p], "attached", None, "begin")
  BY DEF PingOk, Cleared
<1>17. PingFails(p) => \/ Cleared(p) /\ Moved(p, h[p].inner, h[p].pool, None, "have")
                       \/ UNCHANGED retry /\ Moved(p, h[p].inner, h[p].pool, None, "reconnecting")
  BY DEF PingFails, PingDrops, CheckFailed, Cleared
<1>18. WakeUp(p) => Moved(p, h[p].inner, h[p].pool, taken[p], "guard")
  BY DEF WakeUp
<1>19. AbandonCheck(p) => Cleared(p) /\ Moved(p, h[p].inner, h[p].pool, None, "have")
  <2>1. CASE taken[p] = None
    BY <2>1 DEF AbandonCheck, Cleared
  <2>2. CASE taken[p] # None
    BY <2>2 DEF AbandonCheck, Cleared
  <2> QED
    BY <2>1, <2>2
<1> QED
  BY ONLY <1>3, <1>4, <1>5, <1>6, <1>7, <1>8, <1>9, <1>10, <1>11, <1>12, <1>13, <1>14, <1>15, <1>16,
          <1>17, <1>18, <1>19

-----------------------------------------------------------------------------
(* A task's stage and the types of its variables are kept, by its own      *)
(* steps; other steps do not touch what a stage is about.                  *)
TaskTypes == /\ h \in [Tasks -> Handles] /\ taken \in [Tasks -> Conns \cup {None}]
             /\ pc \in [Tasks -> PCs] /\ retry \in [Tasks -> Retries]

(* Every step keeps the stages, and the types of what they are about.      *)
LEMMA NextStages == TypeOK /\ Stages /\ [Next]_vars => TaskTypes' /\ Stages'
<1> SUFFICES ASSUME TypeOK, Stages, [Next]_vars PROVE TaskTypes' /\ Stages'
  OBVIOUS
<1>1. TaskTypes
  BY DEF TypeOK, TaskTypes, Handles, Retries
<1>2. ASSUME UNCHANGED <<h, taken, pc, retry>> PROVE TaskTypes' /\ Stages'
  BY <1>1, <1>2 DEF TaskTypes, Stages, Stage
<1>3. ASSUME NEW p \in Tasks, NEW i, NEW b, NEW t, NEW l, Moved(p, i, b, t, l),
             retry' \in [Tasks -> Retries], \A q \in Tasks \ {p} : retry'[q] = retry[q],
             StageOf(i, b, t, l, retry'[p].attempt, retry'[p].skip_check)
      PROVE  TaskTypes' /\ Stages'
  BY <1>3 DEF TaskTypes, Moved, Stages, Stage
<1>4. ASSUME NEW p \in Tasks, NEW i, NEW b, NEW t, NEW l, Moved(p, i, b, t, l), UNCHANGED retry,
             StageOf(i, b, t, l, retry[p].attempt, retry[p].skip_check)
      PROVE  TaskTypes' /\ Stages'
  BY <1>1, <1>3, <1>4 DEF TaskTypes
<1>5. \A p \in Tasks : Stage(p) /\ retry[p].attempt \in 0..SendRetries
                      /\ retry[p].skip_check \in BOOLEAN
  BY DEF Stages, TypeOK
<1>6. 0 \in 0..SendRetries /\ FALSE \in BOOLEAN /\ TRUE \in BOOLEAN
  BY LimitsAssumption
<1>a. "check" \in Calls
  BY DEF Calls
\* A task whose retry is reset.
<1>10. ASSUME NEW p \in Tasks, NEW k \in Calls,
              Cleared(p) \/ Starts(p, k),
              NEW i, NEW b, NEW t, NEW l, Moved(p, i, b, t, l), StageOf(i, b, t, l, 0, FALSE)
       PROVE  TaskTypes' /\ Stages'
  <2>1. /\ retry' \in [Tasks -> Retries] /\ retry'[p].attempt = 0
        /\ retry'[p].skip_check = FALSE /\ \A q \in Tasks \ {p} : retry'[q] = retry[q]
    <3>1. CASE Cleared(p)
      BY <1>1, <1>6, <3>1, SetRetry DEF TaskTypes, Calls, Cleared
    <3>2. CASE Starts(p, k)
      BY <1>1, <1>6, <3>2, SetRetry DEF TaskTypes, Starts
    <3> QED
      BY <1>10, <3>1, <3>2
  <2> QED
    BY <1>3, <1>10, <2>1
<1> USE DEF TakenPCs, GuardPCs
<1>7. ASSUME NEW p \in Tasks, GetHandle(p) \/ AbandonGet(p) \/ TakeConn(p)
      PROVE  TaskTypes' /\ Stages'
  <2>1. CASE GetHandle(p)
    BY <1>4, <1>5, <2>1, Moves DEF GetHandle, Stage, StageOf
  <2>2. CASE TakeConn(p)
    BY <1>4, <1>5, <2>2, Moves DEF TakeConn, Waiting, Stage, StageOf
  <2>3. CASE AbandonGet(p)
    BY <1>4, <1>5, <2>3, Moves DEF AbandonGet, Stage, StageOf
  <2> QED
    BY <1>7, <2>1, <2>2, <2>3
<1>8. ASSUME NEW p \in Tasks, OpenFails(p) PROVE TaskTypes' /\ Stages'
  <2>1. CASE /\ pc[p] = "getting" /\ UNCHANGED retry
             /\ Moved(p, h[p].inner, h[p].pool, taken[p], "out")
    BY <1>4, <1>5, <2>1 DEF Stage, StageOf
  <2>2. CASE /\ pc[p] = "reconnecting" /\ Cleared(p)
             /\ Moved(p, h[p].inner, h[p].pool, taken[p], "have")
    BY <1>a, <1>5, <1>10, <2>2 DEF Stage, StageOf
  <2>3. CASE /\ pc[p] = "reconnecting" /\ ~CanGiveUp(p)
             /\ retry' = [retry EXCEPT ![p].skip_check = TRUE]
             /\ Moved(p, h[p].inner, h[p].pool, taken[p], "sleeping")
    <3>1. retry[p].attempt < SendRetries
      BY <1>5, <2>3, LimitsAssumption DEF CanGiveUp
    <3>2. /\ retry' \in [Tasks -> Retries] /\ retry'[p].attempt = retry[p].attempt
          /\ retry'[p].skip_check = TRUE /\ \A q \in Tasks \ {p} : retry'[q] = retry[q]
      BY <1>1, <1>5, <1>6, <2>3, SetRetry DEF TaskTypes, Retries
    <3> QED
      BY <1>3, <1>5, <2>3, <3>1, <3>2 DEF Stage, StageOf
  <2> QED
    BY <1>8, <2>1, <2>2, <2>3, Moves
<1>9. ASSUME NEW p \in Tasks, ConnectDirect(p) \/ DropHandle(p) PROVE TaskTypes' /\ Stages'
  <2>1. CASE ConnectDirect(p)
    BY <1>4, <1>5, <2>1, Moves DEF ConnectDirect, Stage, StageOf
  <2>2. CASE DropHandle(p)
    <3>1. taken[p] = None /\ ~retry[p].skip_check /\ UNCHANGED retry
      BY <1>5, <2>2 DEF DropHandle, Stage, StageOf
    <3>2. Moved(p, None, "none", taken[p], "out")
      BY <2>2, Moves
    <3> QED
      BY <1>4, <3>1, <3>2 DEF StageOf
  <2> QED
    BY <1>9, <2>1, <2>2
<1>11. ASSUME NEW p \in Tasks, NEW call \in Calls, NEW ping, Call(p, call, ping)
       PROVE  TaskTypes' /\ Stages'
  <2>1. pc[p] = "have"
    BY <1>11 DEF Call
  <2>2. CASE /\ h[p].pool = "attached" /\ Starts(p, call)
             /\ Moved(p, h[p].inner, "detached", taken[p], "guard")
    BY <1>5, <1>10, <2>1, <2>2 DEF Stage, StageOf
  <2>3. CASE UNCHANGED retry /\ Moved(p, h[p].inner, "none", taken[p], "panicked")
    BY <1>4, <1>5, <2>1, <2>3 DEF Stage, StageOf
  <2>4. CASE Starts(p, call) /\ Moved(p, h[p].inner, h[p].pool, taken[p], "begin")
    BY <1>5, <1>10, <2>1, <2>4 DEF Stage, StageOf
  <2> QED
    BY <1>11, <2>2, <2>3, <2>4, Moves
<1>12. ASSUME NEW p \in Tasks, Begin(p) PROVE TaskTypes' /\ Stages'
  <2>1. pc[p] = "begin" /\ taken[p] = None /\ (h[p].inner # None => h[p].pool # "detached")
    BY <1>5, <1>12 DEF Begin, Stage, StageOf
  <2>2. CASE Cleared(p) /\ h[p].inner = None /\ Moved(p, None, h[p].pool, taken[p], "have")
    BY <1>a, <1>10, <2>1, <2>2 DEF StageOf
  <2>3. CASE Cleared(p) /\ h[p].inner # None /\ Moved(p, None, h[p].pool, h[p].inner, "running")
    BY <1>a, <1>10, <2>1, <2>3 DEF StageOf
  <2>4. CASE UNCHANGED retry /\ Moved(p, h[p].inner, "none", taken[p], "panicked")
    BY <1>4, <1>5, <2>1, <2>4 DEF Stage, StageOf
  <2>5. CASE Cleared(p) /\ h[p].inner = None /\ Moved(p, None, "detached", taken[p], "have")
    BY <1>a, <1>10, <2>1, <2>5 DEF StageOf
  <2>6. CASE Cleared(p) /\ h[p].inner # None /\ Moved(p, None, "detached", h[p].inner, "stream")
    BY <1>a, <1>10, <2>1, <2>6 DEF StageOf
  <2> QED
    BY <1>12, <2>2, <2>3, <2>4, <2>5, <2>6, Moves
<1>13. ASSUME NEW p \in Tasks, RunStep(p) \/ StreamIoError(p) PROVE TaskTypes' /\ Stages'
  <2>1. CASE RunOk(p)
    <3>1. /\ h[p].pool # "detached" /\ ~retry[p].skip_check /\ UNCHANGED retry
          /\ Moved(p, taken[p], h[p].pool, None, "have")
      BY <1>5, <2>1, Moves DEF RunOk, Stage, StageOf
    <3> QED
      BY <1>4, <3>1 DEF StageOf
  <2>5. CASE RunFails(p) \/ DropEnded(p)
    BY <1>4, <1>5, <2>5, Moves DEF RunFails, DropEnded, Stage, StageOf
  <2>2. CASE StreamEof(p) \/ DropReading(p)
    BY <1>4, <1>5, <2>2, Moves DEF StreamEof, DropReading, GiveBack, Stage, StageOf
  <2>3. CASE StreamEnds(p)
    BY <1>4, <1>5, <2>3, Moves DEF StreamEnds, Stage, StageOf
  <2>4. CASE StreamIoError(p)
    BY <1>2, <2>4 DEF StreamIoError
  <2> QED
    BY <1>13, <2>1, <2>2, <2>3, <2>4, <2>5 DEF RunStep, StreamStep
<1>14. ASSUME NEW p \in Tasks, GuardStep(p) \/ AbandonCheck(p) PROVE TaskTypes' /\ Stages'
  <2>1. ASSUME Guard(p) PROVE TaskTypes' /\ Stages'
    <3>1. pc[p] = "guard" /\ taken[p] = None /\ h[p].pool # "none"
      BY <1>5, <2>1 DEF Guard, Stage, StageOf
    <3>2. CASE /\ retry[p].skip_check /\ retry' = [retry EXCEPT ![p].skip_check = FALSE]
               /\ Moved(p, h[p].inner, h[p].pool, taken[p], "reconnecting")
      <4>1. /\ retry' \in [Tasks -> Retries] /\ retry'[p].skip_check = FALSE
            /\ \A q \in Tasks \ {p} : retry'[q] = retry[q]
        BY <1>1, <1>5, <1>6, <3>2, SetRetry DEF TaskTypes, Retries
      <4> QED
        BY <1>3, <1>5, <3>1, <3>2, <4>1 DEF Stage, StageOf
    <3>3. CASE Cleared(p) /\ Moved(p, None, h[p].pool, taken[p], "have")
      BY <1>a, <1>10, <3>1, <3>3 DEF StageOf
    <3>4. CASE /\ ~retry[p].skip_check /\ UNCHANGED retry
               /\ Moved(p, None, h[p].pool, taken[p], "reconnecting")
      BY <1>4, <3>1, <3>4 DEF StageOf
    <3>5. CASE /\ ~retry[p].skip_check /\ h[p].inner # None /\ UNCHANGED retry
               /\ Moved(p, None, h[p].pool, h[p].inner, "pinging")
      BY <1>4, <3>1, <3>5 DEF StageOf
    <3> QED
      BY <2>1, <3>2, <3>3, <3>4, <3>5, Moves
  <2>2. ASSUME PingOk(p) PROVE TaskTypes' /\ Stages'
    <3>1. pc[p] = "pinging" /\ taken[p] # None /\ ~retry[p].skip_check
      BY <1>5, <2>2 DEF PingOk, Stage, StageOf
    <3>2. CASE Cleared(p) /\ Moved(p, taken[p], "attached", None, "have")
      BY <1>a, <1>10, <3>1, <3>2 DEF StageOf
    <3>3. CASE UNCHANGED retry /\ Moved(p, taken[p], "attached", None, "begin")
      BY <1>4, <3>1, <3>3 DEF StageOf
    <3> QED
      BY <2>2, <3>2, <3>3, Moves
  <2>3. ASSUME PingFails(p) PROVE TaskTypes' /\ Stages'
    <3>1. pc[p] = "pinging" /\ h[p].inner = None /\ h[p].pool # "none" /\ ~retry[p].skip_check
      BY <1>5, <2>3 DEF PingFails, Stage, StageOf
    <3>2. CASE Cleared(p) /\ Moved(p, h[p].inner, h[p].pool, None, "have")
      BY <1>a, <1>10, <3>1, <3>2 DEF StageOf
    <3>3. CASE UNCHANGED retry /\ Moved(p, h[p].inner, h[p].pool, None, "reconnecting")
      BY <1>4, <3>1, <3>3 DEF StageOf
    <3> QED
      BY <2>3, <3>2, <3>3, Moves
  <2>4. ASSUME AbandonCheck(p) PROVE TaskTypes' /\ Stages'
    <3>1. pc[p] \in {"pinging", "reconnecting", "sleeping"} /\ h[p].inner = None
      BY <1>5, <2>4 DEF AbandonCheck, Stage, StageOf
    <3>2. Cleared(p) /\ Moved(p, h[p].inner, h[p].pool, None, "have")
      BY <2>4, Moves
    <3> QED
      BY <1>a, <1>10, <3>1, <3>2 DEF StageOf
  <2>5. CASE WakeUp(p)
    <3>1. /\ Moved(p, h[p].inner, h[p].pool, taken[p], "guard") /\ pc[p] = "sleeping"
          /\ retry' = [retry EXCEPT ![p].attempt = retry[p].attempt + 1]
      BY <2>5, Moves DEF WakeUp
    <3>2. retry[p].attempt + 1 \in 0..SendRetries
      BY <1>5, <3>1, LimitsAssumption DEF Stage, StageOf
    <3>3. /\ retry' \in [Tasks -> Retries] /\ retry'[p].skip_check = retry[p].skip_check
          /\ \A q \in Tasks \ {p} : retry'[q] = retry[q]
      BY <1>1, <1>5, <3>1, <3>2, SetRetry DEF TaskTypes, Retries
    <3> QED
      BY <1>3, <1>5, <3>1, <3>3 DEF Stage, StageOf
  <2> QED
    BY <1>14, <2>1, <2>2, <2>3, <2>4, <2>5 DEF GuardStep
<1>15. CASE StartOpen \/ OpenOk \/ UNCHANGED vars
  BY <1>2, <1>15 DEF StartOpen, OpenOk, vars
<1>16. ASSUME NEW c \in Conns, Break(c) PROVE TaskTypes' /\ Stages'
  BY <1>2, <1>16 DEF Break
<1> QED
  BY <1>7, <1>8, <1>9, <1>11, <1>12, <1>13, <1>14, <1>15, <1>16 DEF Next

-----------------------------------------------------------------------------
(* What the invariant says of one connection in use.                       *)
LEMMA Owned ==
  ASSUME IInv
  PROVE  /\ n.ongoing \in Nat /\ n.slots \in Nat /\ opening \in Nat /\ Len(idle) \in Nat
         /\ n = [slots |-> n.slots, ongoing |-> n.ongoing]
         /\ IsFiniteSet(Counted)
         /\ \A p \in Tasks : \A c \in Own(p) :
              /\ c \in Conns /\ c # None /\ Own(p) = {c}
              /\ ~conn[c].inside => n.ongoing > 0
<1>1. /\ n.ongoing \in Nat /\ n.slots \in Nat /\ opening \in Nat /\ Len(idle) \in Nat
      /\ n = [slots |-> n.slots, ongoing |-> n.ongoing]
  BY DEF IInv, TypeOK
<1>2. IsFiniteSet(Counted)
  BY SetsAssumption, FS_Subset DEF Counted
<1>3. ASSUME NEW p \in Tasks, NEW c \in Own(p)
      PROVE  c \in Conns /\ c # None /\ Own(p) = {c} /\ (~conn[c].inside => n.ongoing > 0)
  <2>1. c \in Conns /\ c # None
    BY <1>3 DEF IInv, TypeOK, Own
  <2>2. Own(p) = {c}
    BY <1>3 DEF IInv, Stages, Stage, StageOf, Own
  <2>3. ASSUME ~conn[c].inside PROVE n.ongoing > 0
    <3>1. c \in Counted
      BY <2>1, <2>3 DEF Counted
    <3>2. Cardinality(Counted) # 0
      BY <1>2, <3>1, FS_EmptySet
    <3> QED
      BY <1>1, <3>2 DEF IInv, Ledger, Counts
  <2> QED
    BY <2>1, <2>2, <2>3
<1> QED
  BY <1>1, <1>2, <1>3

-----------------------------------------------------------------------------
(* The six ways in which connections change hands.  First, they do not.    *)
LEMMA Stays ==
  ASSUME IInv, UNCHANGED idle, \A c \in Conns : conn'[c].inside = conn[c].inside,
         \A p \in Tasks : /\ Own(p)' = Own(p)
                          /\ Own(p) # {} => (h'[p].pool = "none" <=> h[p].pool = "none"),
         n'.ongoing = n.ongoing, n'.slots + opening = n.slots + opening',
         n'.slots \in Nat, opening' \in Nat, n'.slots <= Max
  PROVE  Ledger'
<1>1. Places /\ Inside /\ Counts /\ n.slots \in Nat /\ opening \in Nat /\ n.ongoing \in Nat
      /\ Len(idle) \in Nat
  BY Owned DEF IInv, Ledger
<1>2. Places'
  BY <1>1 DEF Places
<1>3. Inside'
  <2>1. \A c \in Range(idle) : c \in Conns
    BY DEF IInv, TypeOK, Range
  <2>2. \A p \in Tasks : \A c \in Own(p) : c \in Conns
    BY Owned
  <2> QED
    BY <1>1, <2>1, <2>2 DEF Inside
<1>4. Counted' = Counted
  BY DEF Counted
<1>5. Counts'
  <2>1. n'.ongoing = Cardinality(Counted')
    BY <1>1, <1>4 DEF Counts
  <2>2. n'.slots = opening' + Len(idle') + n'.ongoing
    <3>1. n.slots = opening + Len(idle) + n.ongoing /\ Len(idle') = Len(idle)
      BY <1>1 DEF Counts
    <3> QED
      BY <1>1, <3>1
  <2> QED
    BY <2>1, <2>2 DEF Counts
<1> QED
  BY <1>2, <1>3, <1>5 DEF Ledger

(* A connection ends, and frees its slot if the pool must hear of it.      *)
LEMMA Ends ==
  ASSUME IInv, UNCHANGED <<idle, opening>>, NEW p \in Tasks, NEW c \in Own(p), Own(p)' = {},
         \A q \in Tasks \ {p} : Own(q)' = Own(q) /\ h'[q] = h[q],
         Forget(c),
         n' = IF conn[c].inside THEN n ELSE [slots |-> n.slots - 1, ongoing |-> n.ongoing - 1]
  PROVE  Ledger'
<1>1. Places /\ Inside /\ Counts
  BY DEF IInv, Ledger
<1>2. /\ n.ongoing \in Nat /\ n.slots \in Nat /\ opening \in Nat /\ Len(idle) \in Nat
      /\ IsFiniteSet(Counted) /\ c \in Conns /\ Own(p) = {c}
  BY Owned
<1>3. conn'[c].inside /\ \A d \in Conns \ {c} : conn'[d].inside = conn[d].inside
  BY <1>2 DEF IInv, TypeOK, Forget, NewConn
<1>4. Places'
  BY <1>1 DEF Places
<1>5. Inside'
  <2>1. \A d \in Range(idle) : d \in Conns
    BY DEF IInv, TypeOK, Range
  <2>2. \A q \in Tasks : \A d \in Own(q) : d \in Conns
    BY Owned
  <2>3. \A q \in Tasks \ {p} : c \notin Own(q)
    BY <1>1 DEF Places
  <2> QED
    BY <1>1, <1>2, <1>3, <2>1, <2>2, <2>3 DEF Inside
<1>6. Counts'
  <2>1. CASE conn[c].inside
    <3>1. Counted' = Counted
      BY <1>3, <2>1 DEF Counted
    <3> QED
      BY <1>1, <2>1, <3>1 DEF Counts
  <2>2. CASE ~conn[c].inside
    <3>1. Counted' = Counted \ {c} /\ c \in Counted
      BY <1>2, <1>3, <2>2 DEF Counted
    <3>2. Cardinality(Counted') = Cardinality(Counted) - 1
      BY <1>2, <3>1, FS_RemoveElement
    <3>3. n'.slots = n.slots - 1 /\ n'.ongoing = n.ongoing - 1
      BY <2>2
    <3> QED
      BY <1>1, <1>2, <3>2, <3>3, LimitsAssumption DEF Counts
  <2> QED
    BY <2>1, <2>2
<1> QED
  BY <1>4, <1>5, <1>6 DEF Ledger

(* What a new last element does to a queue without duplicates.             *)
NoDuplicates(s) == \A i, j \in 1..Len(s) : i # j => s[i] # s[j]

(* A connection that is nowhere in the idle queue may join it.             *)
LEMMA AppendIdle ==
  ASSUME idle \in Seq(Conns), NoDuplicates(idle), NEW c \in Conns, c \notin Range(idle),
         idle' = Append(idle, c)
  PROVE  /\ idle' \in Seq(Conns) /\ Len(idle') = Len(idle) + 1 /\ Len(idle) \in Nat
         /\ Range(idle') = Range(idle) \cup {c} /\ NoDuplicates(idle')
<1>1. /\ idle' \in Seq(Conns) /\ Len(idle) \in Nat /\ Len(idle') = Len(idle) + 1
      /\ idle'[Len(idle) + 1] = c /\ \A k \in 1..Len(idle) : idle'[k] = idle[k]
  OBVIOUS
<1>2. DOMAIN idle = 1..Len(idle) /\ DOMAIN idle' = 1..Len(idle')
  BY <1>1
<1>3. ASSUME NEW d \in Range(idle') PROVE d \in Range(idle) \cup {c}
  BY <1>1, <1>2, <1>3 DEF Range
<1>4. ASSUME NEW d \in Range(idle) PROVE d \in Range(idle')
  BY <1>1, <1>2, <1>4 DEF Range
<1>5. c \in Range(idle')
  BY <1>1, <1>2 DEF Range
<1>6. \A i \in 1..Len(idle) : idle[i] # c
  BY <1>2 DEF Range
<1>7. NoDuplicates(idle')
  BY <1>1, <1>6 DEF NoDuplicates
<1> QED
  BY <1>1, <1>3, <1>4, <1>5, <1>7

(* A connection goes back to the pool.                                     *)
LEMMA Returns ==
  ASSUME IInv, UNCHANGED opening, NEW p \in Tasks, NEW c \in Own(p), Own(p)' = {},
         \A q \in Tasks \ {p} : Own(q)' = Own(q) /\ h'[q] = h[q],
         idle' = Append(idle, c), conn' = [conn EXCEPT ![c].inside = TRUE],
         ~conn[c].inside, n' = [n EXCEPT !.ongoing = @ - 1]
  PROVE  Ledger'
<1>1. Places /\ Inside /\ Counts
  BY DEF IInv, Ledger
<1>2. /\ n.ongoing \in Nat /\ n.slots \in Nat /\ opening \in Nat
      /\ IsFiniteSet(Counted) /\ c \in Conns /\ Own(p) = {c} /\ idle \in Seq(Conns)
      /\ n = [slots |-> n.slots, ongoing |-> n.ongoing]
  BY Owned DEF IInv, TypeOK
<1>3. conn'[c].inside /\ \A d \in Conns \ {c} : conn'[d].inside = conn[d].inside
  BY <1>2, SetConn DEF IInv, TypeOK, ConnData
<1>4. /\ Len(idle') = Len(idle) + 1 /\ Len(idle) \in Nat
      /\ Range(idle') = Range(idle) \cup {c} /\ NoDuplicates(idle')
  BY <1>1, <1>2, AppendIdle DEF Places, NoDuplicates
<1>5. \A q \in Tasks \ {p} : c \notin Own(q)
  BY <1>1 DEF Places
<1>6. Places'
  BY <1>1, <1>4, <1>5 DEF Places, NoDuplicates
<1>7. Inside'
  <2>1. \A d \in Range(idle) : d \in Conns
    BY DEF IInv, TypeOK, Range
  <2>2. \A q \in Tasks : \A d \in Own(q) : d \in Conns
    BY Owned
  <2>3. \A d \in Range(idle') : conn'[d].inside
    BY <1>1, <1>3, <1>4, <2>1 DEF Inside
  <2>4. \A q \in Tasks : \A d \in Own(q)' : conn'[d].inside <=> h'[q].pool = "none"
    BY <1>1, <1>3, <1>5, <2>2 DEF Inside
  <2>5. \A d \in Conns : ~conn'[d].inside => \E q \in Tasks : d \in Own(q)'
    BY <1>1, <1>2, <1>3, <1>5 DEF Inside
  <2> QED
    BY <2>3, <2>4, <2>5 DEF Inside
<1>8. Counts'
  <2>1. Counted' = Counted \ {c} /\ c \in Counted
    BY <1>2, <1>3 DEF Counted
  <2>2. Cardinality(Counted') = Cardinality(Counted) - 1
    BY <1>2, <2>1, FS_RemoveElement
  <2>3. n'.slots = n.slots /\ n'.ongoing = n.ongoing - 1
    BY <1>2
  <2> QED
    BY <1>1, <1>2, <1>4, <2>2, <2>3 DEF Counts
<1> QED
  BY <1>6, <1>7, <1>8 DEF Ledger

(* An open succeeds.                                                       *)
LEMMA Opens ==
  ASSUME IInv, OpenOk
  PROVE  Ledger' /\ idle' \in Seq(Conns) /\ opening' \in Nat
<1>1. Places /\ Inside /\ Counts /\ idle \in Seq(Conns) /\ opening' = opening - 1
      /\ UNCHANGED <<n, conn, h, taken>> /\ opening > 0
  BY DEF IInv, Ledger, TypeOK, OpenOk
<1>2. n.ongoing \in Nat /\ n.slots \in Nat /\ opening \in Nat
  BY Owned
<1>3. PICK c \in Conns \ Alive : idle' = Append(idle, c)
  BY DEF OpenOk
<1>4. c \notin Range(idle) /\ \A q \in Tasks : c \notin Own(q)
  BY <1>3 DEF Alive, Hands, Own
<1>5. /\ Len(idle') = Len(idle) + 1 /\ Len(idle) \in Nat
      /\ Range(idle') = Range(idle) \cup {c} /\ NoDuplicates(idle') /\ idle' \in Seq(Conns)
  BY <1>1, <1>3, <1>4, AppendIdle DEF Places, NoDuplicates
<1>6. \A q \in Tasks : Own(q)' = Own(q)
  BY <1>1 DEF Own
<1>7. Places'
  BY <1>1, <1>4, <1>5, <1>6 DEF Places, NoDuplicates
<1>8. Inside'
  BY <1>1, <1>3, <1>4, <1>5, <1>6 DEF Inside
<1>9. Counted' = Counted
  BY <1>1 DEF Counted
<1>10. Counts'
  BY <1>1, <1>2, <1>5, <1>9 DEF Counts
<1> QED
  BY <1>1, <1>2, <1>5, <1>7, <1>8, <1>10 DEF Ledger

(* A handle takes a connection from the pool.                              *)
LEMMA Takes ==
  ASSUME IInv, NEW p \in Tasks, TakeConn(p)
  PROVE  Ledger' /\ idle' \in Seq(Conns)
         /\ conn' \in [Conns -> ConnData] /\ n' \in [slots : Nat, ongoing : Nat]
<1> DEFINE c == Head(idle)
<1>1. /\ Places /\ Inside /\ Counts /\ idle \in Seq(Conns) /\ idle # <<>>
      /\ UNCHANGED <<opening, taken>> /\ idle' = Tail(idle)
      /\ conn' = [conn EXCEPT ![c].inside = FALSE] /\ n' = [n EXCEPT !.ongoing = @ + 1]
      /\ conn \in [Conns -> ConnData]
  BY DEF IInv, Ledger, TypeOK, TakeConn, ConnData
<1>2. /\ n.ongoing \in Nat /\ n.slots \in Nat /\ opening \in Nat /\ IsFiniteSet(Counted)
      /\ n = [slots |-> n.slots, ongoing |-> n.ongoing]
  BY Owned
<1>3. /\ c \in Conns /\ Len(idle) \in Nat \ {0} /\ c = idle[1] /\ DOMAIN idle = 1..Len(idle)
      /\ idle' \in Seq(Conns) /\ Len(idle') = Len(idle) - 1 /\ DOMAIN idle' = 1..Len(idle')
      /\ \A k \in 1..Len(idle') : idle'[k] = idle[k + 1]
  BY <1>1
<1>4. Range(idle') = Range(idle) \ {c} /\ c \in Range(idle) /\ NoDuplicates(idle')
  <2>1. NoDuplicates(idle')
    BY <1>1, <1>3 DEF Places, NoDuplicates
  <2>2. c \in Range(idle)
    BY <1>3 DEF Range
  <2>3. ASSUME NEW d \in Range(idle') PROVE d \in Range(idle) \ {c}
    BY SMTT(30), <1>1, <1>3, <2>3 DEF Range, Places
  <2>4. ASSUME NEW d \in Range(idle) \ {c} PROVE d \in Range(idle')
    <3>1. PICK k \in 1..Len(idle) : d = idle[k]
      BY <1>3, <2>4 DEF Range
    <3>2. k # 1 /\ k - 1 \in 1..Len(idle')
      BY <1>3, <2>4, <3>1
    <3>3. d = idle'[k - 1]
      BY <1>3, <3>1, <3>2
    <3> QED
      BY <1>3, <3>2, <3>3 DEF Range
  <2> QED
    BY <2>1, <2>2, <2>3, <2>4
<1>5. /\ conn' \in [Conns -> ConnData] /\ ~conn'[c].inside
      /\ \A d \in Conns \ {c} : conn'[d].inside = conn[d].inside
  BY <1>1, <1>3, SetConn DEF ConnData
<1>6. /\ Own(p)' = {c} /\ h'[p].pool = "attached" /\ Own(p) = {}
      /\ \A q \in Tasks \ {p} : Own(q)' = Own(q) /\ h'[q] = h[q]
  <2>1. h[p].inner = None /\ taken[p] = None
    BY DEF IInv, Stages, Stage, StageOf, TakeConn, Waiting, TakenPCs
  <2>2. PICK l \in {"have", "guard"} : Moved(p, c, "attached", taken[p], l)
    BY Moves DEF IInv
  <2>3. c # None
    BY <1>3, SetsAssumption
  <2> QED
    BY <2>1, <2>2, <2>3 DEF Own, Moved
<1>7. c \notin UNION {Own(q) : q \in Tasks}
  BY <1>1, <1>4 DEF Places
<1>8. Places'
  <2>1. \A q \in Tasks : Own(q)' \cap Range(idle') = {}
    BY <1>1, <1>4, <1>6 DEF Places
  <2>2. \A q, r \in Tasks : q # r => Own(q)' \cap Own(r)' = {}
    BY <1>1, <1>6, <1>7 DEF Places
  <2> QED
    BY <1>4, <2>1, <2>2 DEF Places, NoDuplicates
<1>9. Inside'
  <2>1. \A d \in Range(idle) : d \in Conns
    BY <1>1 DEF Range
  <2>2. \A q \in Tasks : \A d \in Own(q) : d \in Conns
    BY Owned
  <2>3. \A d \in Range(idle') : conn'[d].inside
    BY <1>1, <1>4, <1>5, <2>1 DEF Inside
  <2>4. \A q \in Tasks : \A d \in Own(q)' : conn'[d].inside <=> h'[q].pool = "none"
    <3>1. \A q \in Tasks \ {p} : \A d \in Own(q) : d \in Conns \ {c}
      BY <1>7, <2>2
    <3> QED
      BY <1>1, <1>5, <1>6, <3>1 DEF Inside
  <2>5. \A d \in Conns : ~conn'[d].inside => \E q \in Tasks : d \in Own(q)'
    <3>1. \A d \in Conns \ {c} : ~conn'[d].inside => \E q \in Tasks \ {p} : d \in Own(q)
      BY <1>1, <1>5, <1>6 DEF Inside
    <3> QED
      BY <1>6, <3>1
  <2> QED
    BY <2>3, <2>4, <2>5 DEF Inside
<1>10. Counts'
  <2>1. Counted' = Counted \cup {c} /\ c \notin Counted
    BY <1>1, <1>3, <1>4, <1>5 DEF Counted, Inside
  <2>2. Cardinality(Counted') = Cardinality(Counted) + 1
    BY <1>2, <2>1, FS_AddElement
  <2>3. n'.slots = n.slots /\ n'.ongoing = n.ongoing + 1
    BY <1>1, <1>2
  <2> QED
    BY <1>1, <1>2, <1>3, <2>2, <2>3 DEF Counts
<1>11. n' \in [slots : Nat, ongoing : Nat]
  <2>1. n' = [slots |-> n.slots, ongoing |-> n.ongoing + 1]
    BY <1>1, <1>2
  <2> QED
    BY <1>2, <2>1
<1> QED
  BY <1>3, <1>5, <1>8, <1>9, <1>10, <1>11 DEF Ledger

(* A connection that never sees the pool is opened.                        *)
LEMMA Connects ==
  ASSUME IInv, NEW p \in Tasks, ConnectDirect(p)
  PROVE  Ledger'
<1>1. /\ Places /\ Inside /\ Counts /\ UNCHANGED <<idle, opening, n, conn, taken>>
  BY DEF IInv, Ledger, ConnectDirect
<1>2. PICK c \in Conns \ Alive : Moved(p, c, "none", taken[p], "have")
  BY Moves DEF IInv
<1>3. c \notin Range(idle) /\ (\A q \in Tasks : c \notin Own(q)) /\ conn[c].inside
  BY <1>1, <1>2 DEF Alive, Hands, Own, Inside
<1>4. /\ Own(p)' = {c} /\ h'[p].pool = "none" /\ Own(p) = {}
      /\ \A q \in Tasks \ {p} : Own(q)' = Own(q) /\ h'[q] = h[q]
  <2>1. h[p].inner = None /\ taken[p] = None
    BY DEF IInv, Stages, Stage, StageOf, ConnectDirect, TakenPCs
  <2> QED
    BY <1>2, <2>1, SetsAssumption DEF Own, Moved
<1>5. Places'
  BY <1>1, <1>3, <1>4 DEF Places
<1>6. Inside'
  BY <1>1, <1>3, <1>4 DEF Inside
<1>7. Counted' = Counted
  BY <1>1 DEF Counted
<1> QED
  BY <1>1, <1>5, <1>6, <1>7 DEF Ledger, Counts

-----------------------------------------------------------------------------
(* The books are right after every step.                                   *)
PoolTypes == /\ idle \in Seq(Conns) /\ opening \in Nat
             /\ n \in [slots : Nat, ongoing : Nat]
             /\ conn \in [Conns -> ConnData] /\ faults \in 0..MaxFaults

(* Every step keeps the places and the counts, and their types.            *)
LEMMA NextLedger == IInv /\ [Next]_vars => Ledger' /\ PoolTypes'
<1> SUFFICES ASSUME IInv, [Next]_vars PROVE Ledger' /\ PoolTypes'
  OBVIOUS
<1>1. /\ TypeOK /\ Stages /\ Places /\ Inside /\ Counts
      /\ idle \in Seq(Conns) /\ opening \in Nat /\ n \in [slots : Nat, ongoing : Nat]
      /\ conn \in [Conns -> ConnData] /\ faults \in 0..MaxFaults
  BY DEF IInv, Ledger, TypeOK, ConnData
<1>2. /\ n.ongoing \in Nat /\ n.slots \in Nat /\ Len(idle) \in Nat
      /\ n = [slots |-> n.slots, ongoing |-> n.ongoing]
      /\ \A p \in Tasks : \A c \in Own(p) :
           /\ c \in Conns /\ c # None /\ Own(p) = {c}
           /\ ~conn[c].inside => n.ongoing > 0
  BY Owned
<1>3. n.slots = opening + Len(idle) + n.ongoing /\ n.slots <= Max
  BY <1>1 DEF Counts
<1>4. ASSUME UNCHANGED <<idle, opening, n, conn, faults>>,
             \A q \in Tasks : /\ Own(q)' = Own(q)
                              /\ Own(q) # {} => (h'[q].pool = "none" <=> h[q].pool = "none")
      PROVE  Ledger' /\ PoolTypes'
  BY <1>1, <1>2, <1>3, <1>4, Stays DEF PoolTypes
<1>5. ASSUME NEW p \in Tasks, NEW i, NEW b, NEW t, NEW l, Moved(p, i, b, t, l),
             UNCHANGED <<idle, opening, n, conn, faults>>,
             {i, t} \ {None} = Own(p), Own(p) # {} => (b = "none" <=> h[p].pool = "none")
      PROVE  Ledger' /\ PoolTypes'
  BY <1>4, <1>5 DEF Moved, Own
<1>6. ASSUME NEW p \in Tasks, NEW b, NEW l, Moved(p, None, b, None, l),
             UNCHANGED <<idle, opening, faults>>, NEW c \in Own(p), Forget(c),
             n' = IF conn[c].inside THEN n ELSE [slots |-> n.slots - 1, ongoing |-> n.ongoing - 1]
      PROVE  Ledger' /\ PoolTypes'
  <2>1. Own(p)' = {} /\ \A q \in Tasks \ {p} : Own(q)' = Own(q) /\ h'[q] = h[q]
    BY <1>6 DEF Moved, Own
  <2>2. Ledger'
    BY <1>6, <2>1, Ends
  <2>3. conn' \in [Conns -> ConnData]
    BY <1>1, <1>2, <1>6, SetConn DEF Forget
  <2>4. n' \in [slots : Nat, ongoing : Nat]
    BY <1>1, <1>2, <1>3, <1>6
  <2> QED
    BY <1>1, <1>6, <2>2, <2>3, <2>4 DEF PoolTypes
<1>7. ASSUME NEW p \in Tasks, NEW b, NEW l, Moved(p, None, b, None, l),
             UNCHANGED <<idle, opening, faults>>, NEW c \in Own(p), DropTransport(c)
      PROVE  Ledger' /\ PoolTypes'
  BY <1>2, <1>6, <1>7 DEF DropTransport, Releases
<1>8. \A p \in Tasks : Stage(p) /\ (taken[p] # None => taken[p] \in Own(p))
                      /\ (h[p].inner # None => h[p].inner \in Own(p))
  BY <1>1 DEF Stages, Own
<1> USE DEF TakenPCs, GuardPCs
<1>9. ASSUME NEW p \in Tasks, GetHandle(p) \/ AbandonGet(p) PROVE Ledger' /\ PoolTypes'
  <2>1. CASE GetHandle(p)
    BY <1>1, <1>5, <2>1, Moves DEF GetHandle, Own
  <2>2. CASE AbandonGet(p)
    BY <1>1, <1>5, <2>2, Moves DEF AbandonGet, Own
  <2> QED
    BY <1>9, <2>1, <2>2
<1>10. ASSUME NEW p \in Tasks, TakeConn(p) PROVE Ledger' /\ PoolTypes'
  BY <1>1, <1>10, Takes DEF PoolTypes, TakeConn
<1>11. ASSUME NEW p \in Tasks, OpenFails(p) PROVE Ledger' /\ PoolTypes'
  <2>1. \E l : Moved(p, h[p].inner, h[p].pool, taken[p], l)
    BY <1>1, <1>11, Moves
  <2>2. \A q \in Tasks : Own(q)' = Own(q) /\ h'[q].pool = h[q].pool
    BY <2>1 DEF Moved, Own
  <2>3. /\ n' = [n EXCEPT !.slots = @ - 1] /\ opening > 0 /\ opening' = opening - 1
        /\ faults' = faults + 1 /\ faults < MaxFaults /\ UNCHANGED <<idle, conn>>
    BY <1>11 DEF OpenFails
  <2>4. n' = [slots |-> n.slots - 1, ongoing |-> n.ongoing]
    BY <1>2, <2>3
  <2>5. /\ n.slots - 1 \in Nat /\ n.slots - 1 <= Max /\ opening' \in Nat
        /\ n'.slots + opening = n.slots + opening'
    <3>1. n.slots > 0 /\ n.slots \in Nat /\ n.slots <= Max /\ opening \in Nat /\ opening > 0
      BY <1>1, <1>2, <1>3, <2>3
    <3>2. n'.slots = n.slots - 1 /\ opening' = opening - 1 /\ Max \in Nat
      BY <2>3, <2>4, LimitsAssumption
    <3> QED
      BY ONLY <3>1, <3>2
  <2>7. faults' \in 0..MaxFaults
    BY <1>1, <2>3, LimitsAssumption
  <2>6. Ledger'
    BY <1>2, <2>2, <2>3, <2>4, <2>5, Stays
  <2> QED
    BY <1>1, <1>2, <2>3, <2>4, <2>5, <2>6, <2>7 DEF PoolTypes
<1>12. ASSUME NEW p \in Tasks, ConnectDirect(p) PROVE Ledger' /\ PoolTypes'
  BY <1>1, <1>12, Connects DEF PoolTypes, ConnectDirect
<1>13. ASSUME NEW p \in Tasks, DropHandle(p) PROVE Ledger' /\ PoolTypes'
  <2>1. taken[p] = None /\ Moved(p, None, "none", None, "out") /\ UNCHANGED <<opening, faults>>
    BY <1>1, <1>8, <1>13, Moves DEF DropHandle, Stage, StageOf
  <2>2. CASE h[p].inner = None
    BY <1>5, <1>13, <2>1, <2>2 DEF DropHandle, Own
  <2>3. CASE h[p].inner # None /\ h[p].pool = "none"
    BY <1>7, <1>8, <1>13, <2>1, <2>3 DEF DropHandle
  <2>4. CASE h[p].inner # None /\ h[p].pool # "none"
    <3> DEFINE c == h[p].inner
    <3>1. c \in Own(p) /\ c \in Conns /\ ~conn[c].inside /\ n.ongoing > 0
      BY <1>1, <1>2, <1>8, <2>4 DEF Inside
    <3>2. CASE /\ idle' = Append(idle, c) /\ conn' = [conn EXCEPT ![c].inside = TRUE]
               /\ n' = [n EXCEPT !.ongoing = @ - 1]
      <4>1. Own(p)' = {} /\ \A q \in Tasks \ {p} : Own(q)' = Own(q) /\ h'[q] = h[q]
        BY <2>1 DEF Moved, Own
      <4>2. Ledger'
        BY <2>1, <3>1, <3>2, <4>1, Returns
      <4>3. conn' \in [Conns -> ConnData]
        BY <1>1, <3>1, <3>2, SetConn DEF ConnData
      <4>4. n' = [slots |-> n.slots, ongoing |-> n.ongoing - 1]
        BY <1>2, <3>2
      <4>5. n' \in [slots : Nat, ongoing : Nat] /\ idle' \in Seq(Conns)
        BY <1>1, <1>2, <3>1, <3>2, <4>4
      <4> QED
        BY <1>1, <2>1, <4>2, <4>3, <4>5 DEF PoolTypes
    <3>3. CASE /\ Forget(c) /\ n' = [slots |-> n.slots - 1, ongoing |-> n.ongoing - 1]
               /\ UNCHANGED idle
      BY <1>6, <2>1, <3>1, <3>3
    <3> QED
      BY <1>13, <2>4, <3>1, <3>2, <3>3 DEF DropHandle, ReturnConn, KeepsInside
  <2> QED
    BY <2>2, <2>3, <2>4
<1>14. ASSUME NEW p \in Tasks, NEW call \in Calls, NEW ping, Call(p, call, ping)
       PROVE  Ledger' /\ PoolTypes'
  <2>1. UNCHANGED <<idle, opening, n, conn, faults>> /\ taken[p] = None
        /\ (h[p].pool = "detached" => h[p].inner = None)
    BY <1>8, <1>14 DEF Call, Stage, StageOf
  <2>2. \/ h[p].pool = "attached" /\ Moved(p, h[p].inner, "detached", taken[p], "guard")
        \/ h[p].pool # "attached" /\ Moved(p, h[p].inner, "none", taken[p], "panicked")
        \/ Moved(p, h[p].inner, h[p].pool, taken[p], "begin")
    BY <1>1, <1>14, Moves
  <2>3. h[p].pool \in {"none", "attached", "detached"}
    BY <1>1 DEF TypeOK
  <2> QED
    BY <1>5, <2>1, <2>2, <2>3 DEF Own
<1>15. ASSUME NEW p \in Tasks, Begin(p) PROVE Ledger' /\ PoolTypes'
  <2>1. UNCHANGED <<idle, opening, n, conn, faults>> /\ taken[p] = None
        /\ (h[p].pool = "detached" => h[p].inner = None)
    BY <1>8, <1>15 DEF Begin, Stage, StageOf
  <2>2. \/ h[p].inner = None /\ Moved(p, None, h[p].pool, taken[p], "have")
        \/ h[p].inner # None /\ Moved(p, None, h[p].pool, h[p].inner, "running")
        \/ h[p].pool # "attached" /\ Moved(p, h[p].inner, "none", taken[p], "panicked")
        \/ h[p].inner = None /\ Moved(p, None, "detached", taken[p], "have")
        \/ /\ h[p].inner # None /\ h[p].pool = "attached"
           /\ Moved(p, None, "detached", h[p].inner, "stream")
    BY <1>1, <1>15, Moves
  <2>3. h[p].pool \in {"none", "attached", "detached"}
    BY <1>1 DEF TypeOK
  <2> QED
    BY <1>5, <2>1, <2>2, <2>3 DEF Own
<1>16. ASSUME NEW p \in Tasks, RunStep(p) PROVE Ledger' /\ PoolTypes'
  <2>1. pc[p] \in {"running", "stream", "stream_finished", "stream_error"}
    BY <1>16 DEF RunStep, StreamStep, RunOk, RunFails, StreamEof, StreamEnds, DropReading, DropEnded
  <2>2. h[p].inner = None /\ taken[p] \in Own(p) /\ taken[p] # None
        /\ (pc[p] = "stream" => h[p].pool # "none")
    BY <1>8, <2>1 DEF Stage, StageOf
  <2>3. CASE RunOk(p)
    <3>1. /\ Moved(p, taken[p], h[p].pool, None, "have")
          /\ UNCHANGED <<idle, opening, n, conn, faults>>
      BY <1>1, <2>3, Moves DEF RunOk
    <3> QED
      BY <1>5, <2>2, <3>1 DEF Own
  <2>4. CASE RunFails(p) \/ DropEnded(p)
    BY <1>1, <1>7, <2>2, <2>4, Moves DEF RunFails, DropEnded
  <2>5. CASE StreamEof(p) \/ DropReading(p)
    <3>1. /\ Moved(p, taken[p], "attached", None, "have") /\ pc[p] = "stream"
          /\ UNCHANGED <<idle, opening, n, conn, faults>>
      BY <1>1, <2>5, Moves DEF StreamEof, DropReading, GiveBack
    <3> QED
      BY <1>5, <2>2, <3>1 DEF Own
  <2>6. CASE StreamEnds(p)
    BY <1>1, <1>5, <2>6, Moves DEF StreamEnds, Own
  <2> QED
    BY <1>16, <2>3, <2>4, <2>5, <2>6 DEF RunStep, StreamStep
<1>17. ASSUME NEW p \in Tasks, GuardStep(p) \/ AbandonCheck(p) PROVE Ledger' /\ PoolTypes'
  <2>1. CASE Guard(p)
    <3>1. UNCHANGED <<idle, opening, n, conn, faults>> /\ taken[p] = None
      BY <1>8, <2>1 DEF Guard, Stage, StageOf
    <3>2. \/ \E l : Moved(p, h[p].inner, h[p].pool, taken[p], l)
          \/ Moved(p, None, h[p].pool, h[p].inner, "pinging")
      BY <1>1, <2>1, Moves
    <3> QED
      BY <1>5, <3>1, <3>2 DEF Own
  <2>2. CASE PingOk(p)
    <3>1. UNCHANGED <<idle, opening, n, conn, faults>> /\ h[p].inner = None /\ h[p].pool # "none"
      BY <1>8, <2>2 DEF PingOk, Stage, StageOf
    <3>2. \E l : Moved(p, taken[p], "attached", None, l)
      BY <1>1, <2>2, Moves
    <3> QED
      BY <1>5, <3>1, <3>2 DEF Own
  <2>3. CASE PingFails(p)
    <3>1. /\ UNCHANGED <<idle, opening, faults>> /\ h[p].inner = None /\ taken[p] \in Own(p)
          /\ DropTransport(taken[p])
      BY <1>8, <2>3 DEF PingFails, PingDrops, Stage, StageOf
    <3>2. \E l : Moved(p, None, h[p].pool, None, l)
      BY <1>1, <2>3, <3>1, Moves
    <3> QED
      BY <1>7, <3>1, <3>2
  <2>4. CASE WakeUp(p)
    BY <1>1, <1>5, <2>4, Moves DEF WakeUp, Own
  <2>5. CASE AbandonCheck(p)
    <3>1. h[p].inner = None /\ Moved(p, None, h[p].pool, None, "have")
      BY <1>1, <1>8, <2>5, Moves DEF AbandonCheck, Stage, StageOf
    <3>2. CASE taken[p] = None
      BY <1>5, <2>5, <3>1, <3>2 DEF AbandonCheck, Own
    <3>3. CASE taken[p] # None
      BY <1>7, <1>8, <2>5, <3>1, <3>3 DEF AbandonCheck
    <3> QED
      BY <3>2, <3>3
  <2> QED
    BY <1>17, <2>1, <2>2, <2>3, <2>4, <2>5 DEF GuardStep
<1>18. CASE StartOpen
  <2>1. /\ n' = [slots |-> n.slots + 1, ongoing |-> n.ongoing] /\ n.slots < Max
        /\ opening' = opening + 1 /\ UNCHANGED <<idle, conn, h, taken, faults>>
    BY <1>2, <1>18 DEF StartOpen
  <2>2. n.slots + 1 <= Max /\ n'.slots + opening = n.slots + opening'
    <3>1. n.slots \in Nat /\ opening \in Nat /\ Max \in Nat /\ n.slots < Max
      BY <1>1, <1>2, <2>1, LimitsAssumption
    <3>2. n'.slots = n.slots + 1 /\ opening' = opening + 1
      BY <2>1
    <3> QED
      BY ONLY <3>1, <3>2
  <2>3. \A q \in Tasks : Own(q)' = Own(q)
    BY <2>1 DEF Own
  <2>4. Ledger'
    BY <1>1, <1>2, <2>1, <2>2, <2>3, Stays
  <2> QED
    BY <1>1, <1>2, <2>1, <2>4 DEF PoolTypes
<1>19. CASE OpenOk
  BY <1>1, <1>19, Opens DEF PoolTypes, OpenOk
\* What changes of a connection is not what the pool must hear of.
<1>20. ASSUME NEW c \in Conns, UNCHANGED <<idle, opening, n, h, taken>>, faults' \in 0..MaxFaults,
              conn' = [conn EXCEPT ![c].broken = TRUE] \/ conn' = [conn EXCEPT ![c].failed = TRUE]
       PROVE  Ledger' /\ PoolTypes'
  <2>1. /\ conn' \in [Conns -> ConnData]
        /\ conn'[c].inside = conn[c].inside /\ \A d \in Conns \ {c} : conn'[d] = conn[d]
    <3>1. conn[c].inside \in BOOLEAN /\ conn[c].broken \in BOOLEAN /\ conn[c].failed \in BOOLEAN
      BY <1>1 DEF ConnData
    <3>2. CASE conn' = [conn EXCEPT ![c].broken = TRUE]
      BY <1>1, <3>1, <3>2, SetConn
    <3>3. CASE conn' = [conn EXCEPT ![c].failed = TRUE]
      BY <1>1, <3>1, <3>3, SetConn
    <3> QED
      BY <1>20, <3>2, <3>3
  <2>2. \A q \in Tasks : Own(q)' = Own(q)
    BY <1>20 DEF Own
  <2>3. Ledger'
    BY <1>1, <1>2, <1>3, <1>20, <2>1, <2>2, Stays
  <2> QED
    BY <1>1, <1>20, <2>1, <2>3 DEF PoolTypes
<1>21. ASSUME NEW c \in Conns, Break(c) PROVE Ledger' /\ PoolTypes'
  <2>1. faults' \in 0..MaxFaults
    BY <1>1, <1>21, LimitsAssumption DEF Break
  <2> QED
    BY <1>20, <1>21, <2>1 DEF Break
<1>22. ASSUME NEW p \in Tasks, StreamIoError(p) PROVE Ledger' /\ PoolTypes'
  <2>1. taken[p] \in Conns
    BY <1>2, <1>8, <1>22 DEF StreamIoError, Stage, StageOf
  <2> QED
    BY <1>1, <1>20, <1>22, <2>1 DEF StreamIoError
<1>23. CASE UNCHANGED vars
  BY <1>4, <1>23 DEF vars, Own
<1> QED
  BY <1>9, <1>10, <1>11, <1>12, <1>13, <1>14, <1>15, <1>16, <1>17, <1>18, <1>19, <1>21, <1>22,
     <1>23 DEF Next

-----------------------------------------------------------------------------
(* Init establishes the invariant, and every step keeps it.                *)
LEMMA InitIInv == Init => IInv
<1> SUFFICES ASSUME Init PROVE IInv
  OBVIOUS
<1> USE LimitsAssumption DEF Init
<1>1. TypeOK
  BY DEF TypeOK, NewConn, NoHandle, NoRetry, PCs, Calls
<1>2. Stages
  BY DEF Stages, Stage, StageOf, NoHandle, NoRetry, TakenPCs, GuardPCs
<1>3. idle = <<>> /\ Range(idle) = {} /\ \A p \in Tasks : Own(p) = {}
  BY DEF Own, NoHandle, Range
<1>4. Counted = {} /\ \A c \in Conns : conn[c].inside
  BY DEF Counted, NewConn
<1>5. Counts
  BY <1>4, FS_EmptySet DEF Counts
<1> QED
  BY <1>1, <1>2, <1>3, <1>4, <1>5 DEF IInv, Ledger, Places, Inside

(* So every step keeps the invariant.                                      *)
LEMMA NextIInv == IInv /\ [Next]_vars => IInv'
<1> SUFFICES ASSUME IInv, [Next]_vars PROVE IInv'
  OBVIOUS
<1>1. TaskTypes' /\ Stages'
  BY NextStages DEF IInv
<1>2. Ledger' /\ PoolTypes'
  BY NextLedger
<1>3. TypeOK'
  BY <1>1, <1>2 DEF TypeOK, TaskTypes, PoolTypes, Handles, Retries, ConnData
<1> QED
  BY <1>1, <1>2, <1>3 DEF IInv

(* It holds throughout.                                                    *)
LEMMA Invariant == Spec => []IInv
  BY InitIInv, NextIInv, PTL DEF Spec

-----------------------------------------------------------------------------
(* Every variable of the pool, of connections and of handles keeps its     *)
(* type, the attempts of a guard stay within send_retries, and the         *)
(* counters do not go below zero.                                          *)
THEOREM HandleTypeOK == Spec => []TypeOK
<1>1. IInv => TypeOK
  BY DEF IInv
<1> QED
  BY <1>1, Invariant, PTL

(* Each connection is in one place, `inside` is right everywhere, and the  *)
(* counters of the pool count what is in use, so that a slot is freed      *)
(* exactly once, whatever fails or is dropped.                             *)
THEOREM HandleAccounting == Spec => []Accounting
<1>1. ASSUME IInv PROVE Accounting
  <2>1. Places /\ Inside /\ Counts /\ Stages /\ TypeOK
    BY <1>1 DEF IInv, Ledger
  <2>2. Hands = UNION {Own(p) : p \in Tasks}
    BY DEF Hands, Own
  <2>3. OnePlace
    <3>1. Range(idle) \cap Hands = {}
      BY <2>1, <2>2 DEF Places
    <3>2. \A p \in Tasks : h[p].inner # None => h[p].inner # taken[p]
      BY <2>1 DEF Stages, Stage, StageOf
    <3>3. \A p, q \in Tasks : p # q =>
            {h[p].inner, taken[p]} \cap {h[q].inner, taken[q]} \subseteq {None}
      BY <2>1 DEF Places, Own
    <3> QED
      BY <2>1, <3>1, <3>2, <3>3 DEF OnePlace, Places
  <2>4. InUse = Counted
    <3>1. \A c \in Hands : c \in Conns
      BY <1>1, <2>2, Owned
    <3>2. \A c \in Conns : ~conn[c].inside => c \in Hands
      BY <2>1, <2>2 DEF Inside
    <3> QED
      BY <3>1, <3>2 DEF InUse, Counted
  <2>5. /\ n.ongoing = Cardinality(InUse) /\ n.slots <= Max
        /\ n.slots = opening + Len(idle) + Cardinality(InUse)
    BY <2>1, <2>4 DEF Counts
  <2> QED
    BY <2>1, <2>3, <2>5 DEF Accounting, Inside
<1> QED
  BY <1>1, Invariant, PTL

(* A detached handle has no transport between calls.                       *)
THEOREM HandleDetachedIsEmpty == Spec => []DetachedIsEmpty
<1>1. IInv => DetachedIsEmpty
  BY DEF IInv, Stages, Stage, StageOf, DetachedIsEmpty
<1> QED
  BY <1>1, Invariant, PTL

(* A handle that reconnects holds no slot.                                 *)
THEOREM HandleReconnectsEmptyHanded == Spec => []ReconnectsEmptyHanded
<1>1. IInv => ReconnectsEmptyHanded
  BY DEF IInv, Stages, Stage, StageOf, TakenPCs, ReconnectsEmptyHanded
<1> QED
  BY <1>1, Invariant, PTL

=============================================================================
