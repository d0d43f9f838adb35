-------------------------------- MODULE Pool --------------------------------
(***************************************************************************)
(* The connection pool: src/pool/mod.rs, src/pool/futures/get_handle.rs    *)
(* and the Drop of TransportStatus in src/io/transport.rs.                 *)
(*                                                                         *)
(* The pool has no thread of its own.  Its state is two bounded queues     *)
(* (connections being opened, idle connections), an unbounded queue of     *)
(* wakers and two counters, all lock-free, and every change to it is made  *)
(* by a task that polls a GetHandle future, drops a handle, or loses the   *)
(* transport of the handle it holds.  One action is one access to a shared *)
(* atomic or queue; purely local work is folded into the access before it. *)
(*                                                                         *)
(* Two executors are modelled.  With SingleThreaded = FALSE, tasks         *)
(* interleave at every step.  With SingleThreaded = TRUE, a poll or a drop *)
(* runs to its end before another task runs (a current-thread runtime).    *)
(*                                                                         *)
(* An operator X_word is X with a mistake in it; it is used only to see    *)
(* that a property notices.                                                *)
(*                                                                         *)
(* What is abstracted: the connection itself (Handle.tla has identities),  *)
(* logging, and the order of wakers in `tasks` (wake_tasks drains all of   *)
(* it, so the set is enough and the order taken is arbitrary).  What a     *)
(* pending open does between polls is retry_open's business; here it       *)
(* resolves at some time, either way.                                      *)
(***************************************************************************)
EXTENDS Integers, Sequences, FiniteSets

CONSTANTS Tasks,           \* tasks that use the pool
          NoTask,          \* no waker registered
          Min,             \* pool_min
          Max,             \* pool_max
          PollBudget,      \* PENDING_OPEN_POLL_BUDGET
          SingleThreaded,  \* one runtime thread, or as many as tasks
          Cancellation     \* whether a pending GetHandle may be dropped

ASSUME TasksAssumption   == NoTask \notin Tasks /\ IsFiniteSet(Tasks)
ASSUME LimitsAssumption  == /\ Min \in Nat
                            /\ Max \in Nat \ {0}
                            /\ PollBudget \in Nat \ {0}
ASSUME RuntimeAssumption == SingleThreaded \in BOOLEAN /\ Cancellation \in BOOLEAN

VARIABLES
  new,           \* Inner.new: futures opening connections, oldest first
  idle,          \* Inner.idle: how many connections it holds
  tasks,         \* Inner.tasks: parked wakers
  ongoing,       \* Inner.ongoing
  conn_slots,    \* Inner.conn_slots
  woken,         \* tasks the executor has scheduled
  pc,            \* where each task is
  budget,        \* handle_futures: polls left in this call
  wake_waiters,  \* handle_futures: flag of the same name
  first_err      \* handle_futures: an open it polled has failed

local == <<budget, wake_waiters, first_err>>
vars  == <<new, idle, tasks, ongoing, conn_slots, woken, pc, local>>

-----------------------------------------------------------------------------
(* Program counters. *)

PollPCs   == {"scan", "requeue", "store", "fail_open", "wake_hf", "take",
              "check_err", "reserve", "enqueue", "park"}
ReturnPCs == {"ret_len", "ret_push", "uncount_kept", "wake_kept",
              "ret_drop", "free_slot", "wake_closing", "closing"}
BreakPCs  == {"rel", "rel_slot", "wake_rel"}
RestPCs   == {"out", "pending", "held"}
PCs       == RestPCs \cup PollPCs \cup {"count"} \cup ReturnPCs \cup BreakPCs

(* A task here owns a reserved slot that is in neither queue. *)
SlotPCs == {"requeue", "store", "fail_open", "enqueue", "count", "held",
            "ret_len", "ret_push", "ret_drop", "free_slot", "rel", "rel_slot"}

(* A task here is counted in `ongoing`. *)
OngoingPCs == {"held", "ret_len", "ret_push", "uncount_kept", "ret_drop", "rel"}

At(S) == {p \in Tasks : pc[p] \in S}

(* A boxed retry_open future.  Only a future that has returned Pending     *)
(* keeps a waker, the one of the task that polled it last.                 *)
OpenStates == {"fresh", "pending", "ok", "err"}
Future     == [st : OpenStates, waker : Tasks \cup {NoTask}]
Fresh      == [st |-> "fresh", waker |-> NoTask]

Goto(p, label) == pc' = [pc EXCEPT ![p] = label]

(* On one thread a task moves only while no other is inside a call. *)
Runs(p) == SingleThreaded => At(PCs \ RestPCs) \subseteq {p}

(* A wake-up means something only to a task whose GetHandle is unanswered. *)
Awaiting  == At(PollPCs \cup {"pending"})
Woken(S)  == woken \cup (S \cap Awaiting)

(* ArrayQueue::push finds the queue of opens full. *)
FailedPush(q) == Len(q) >= Max

(* release_conn_slot: never below zero. *)
ReleaseSlot_lost == UNCHANGED conn_slots
ReleaseSlot == conn_slots' = IF conn_slots > 0 THEN conn_slots - 1 ELSE conn_slots

-----------------------------------------------------------------------------
Init ==
  /\ new = <<>>
  /\ idle = 0
  /\ tasks = {}
  /\ ongoing = 0
  /\ conn_slots = 0
  /\ woken = {}
  /\ pc = [p \in Tasks |-> "out"]
  /\ budget = [p \in Tasks |-> 0]
  /\ wake_waiters = [p \in Tasks |-> FALSE]
  /\ first_err = [p \in Tasks |-> FALSE]

-----------------------------------------------------------------------------
(* The caller and its executor. *)

(* get_handle(): the future is created, and polled for the first time. *)
Request(p) ==
  /\ pc[p] = "out"
  /\ Runs(p)
  /\ Goto(p, "pending")
  /\ woken' = woken \cup {p}
  /\ UNCHANGED <<new, idle, tasks, ongoing, conn_slots, local>>

(* The pending future is dropped: a timeout or select! around it, or the   *)
(* task is aborted.  GetHandle has no Drop, so its wakers stay everywhere. *)
Cancel(p) ==
  /\ Cancellation
  /\ pc[p] = "pending"
  /\ Runs(p)
  /\ Goto(p, "out")
  /\ woken' = woken \ {p}
  /\ UNCHANGED <<new, idle, tasks, ongoing, conn_slots, local>>

(* The task is polled for a reason of its own (join!, select!). *)
Nudge(p) ==
  /\ pc[p] = "pending"
  /\ p \notin woken
  /\ woken' = woken \cup {p}
  /\ UNCHANGED <<new, idle, tasks, ongoing, conn_slots, pc, local>>

-----------------------------------------------------------------------------
(* Pool::poll, first part: handle_futures. *)

PollsFor_all(len) == len
PollsFor(len)     == IF len < PollBudget THEN len ELSE PollBudget

PollStart(p) ==
  /\ pc[p] = "pending"
  /\ p \in woken
  /\ Runs(p)
  /\ woken' = woken \ {p}
  /\ budget' = [budget EXCEPT ![p] = PollsFor(Len(new))]
  /\ Goto(p, "scan")
  /\ UNCHANGED <<new, idle, tasks, ongoing, conn_slots, wake_waiters, first_err>>

(* The loop ends: the budget is spent or `new` is empty.  (A local of the  *)
(* poll is reset where it was last used, and so is FALSE or 0 at the next.) *)
AfterScan_silent(p) == "take"
AfterScan(p)        == IF wake_waiters[p] THEN "wake_hf" ELSE "take"

ScanDone(p) ==
  /\ pc[p] = "scan"
  /\ budget[p] = 0 \/ new = <<>>
  /\ Goto(p, AfterScan(p))
  /\ budget' = [budget EXCEPT ![p] = 0]
  /\ wake_waiters' = [wake_waiters EXCEPT ![p] = FALSE]
  /\ UNCHANGED <<new, idle, tasks, ongoing, conn_slots, woken, first_err>>

(* Pops a future and polls it.  A fresh one starts connecting, or fails at *)
(* once (its options do not load).                                         *)
ScanPop(p) ==
  /\ pc[p] = "scan"
  /\ budget[p] > 0 /\ new # <<>>
  /\ new' = Tail(new)
  /\ budget' = [budget EXCEPT ![p] = @ - 1]
  /\ \/ Head(new).st \in {"fresh", "pending"} /\ Goto(p, "requeue")
     \/ Head(new).st = "ok" /\ Goto(p, "store")
     \/ Head(new).st \in {"fresh", "err"} /\ Goto(p, "fail_open")
  /\ UNCHANGED <<idle, tasks, ongoing, conn_slots, woken, wake_waiters, first_err>>

(* Poll::Pending: the future now wakes p, and goes to the back.  (If it    *)
(* resolves before it is back in the queue, it might as well just after.)  *)
Requeue(p) ==
  /\ pc[p] = "requeue"
  /\ Goto(p, "scan")
  /\ IF FailedPush(new)
     THEN /\ ReleaseSlot
          /\ wake_waiters' = [wake_waiters EXCEPT ![p] = TRUE]
          /\ UNCHANGED new
     ELSE /\ new' = Append(new, [st |-> "pending", waker |-> p])
          /\ UNCHANGED <<conn_slots, wake_waiters>>
  /\ UNCHANGED <<idle, tasks, ongoing, woken, budget, first_err>>

(* Poll::Ready(Ok(client)). *)
Store(p) ==
  /\ pc[p] = "store"
  /\ Goto(p, "scan")
  /\ IF idle < Max
     THEN idle' = idle + 1 /\ UNCHANGED conn_slots
     ELSE ReleaseSlot /\ UNCHANGED idle
  /\ wake_waiters' = [wake_waiters EXCEPT ![p] = TRUE]
  /\ UNCHANGED <<new, tasks, ongoing, woken, budget, first_err>>

(* Poll::Ready(Err(err)). *)
FailOpen(p) ==
  /\ pc[p] = "fail_open"
  /\ Goto(p, "scan")
  /\ ReleaseSlot
  /\ wake_waiters' = [wake_waiters EXCEPT ![p] = TRUE]
  /\ first_err' = [first_err EXCEPT ![p] = TRUE]
  /\ UNCHANGED <<new, idle, tasks, ongoing, woken, budget>>

-----------------------------------------------------------------------------
(* wake_tasks, from its four callers: one pop and wake per step. *)

WakePCs == {"wake_hf", "wake_kept", "wake_closing", "wake_rel"}

AfterWake(label) == CASE label = "wake_hf"      -> "take"
                      [] label = "wake_closing" -> "closing"
                      [] OTHER                  -> "out"

WakeOne(p) ==
  /\ pc[p] \in WakePCs
  /\ \E t \in tasks : tasks' = tasks \ {t} /\ woken' = Woken({t})
  /\ UNCHANGED <<new, idle, ongoing, conn_slots, pc, local>>

WakeDone(p) ==
  /\ pc[p] \in WakePCs
  /\ tasks = {}
  /\ Goto(p, AfterWake(pc[p]))
  /\ UNCHANGED <<new, idle, tasks, ongoing, conn_slots, woken, local>>

-----------------------------------------------------------------------------
(* Pool::poll, second part: take_conn, the error, the reservation, parking. *)

TakeConn(p) ==
  /\ pc[p] = "take"
  /\ IF idle > 0
     THEN /\ idle' = idle - 1
          /\ Goto(p, "count")
          /\ woken' = woken \ {p}
          /\ first_err' = [first_err EXCEPT ![p] = FALSE]
     ELSE /\ Goto(p, "check_err")
          /\ UNCHANGED <<idle, woken, first_err>>
  /\ UNCHANGED <<new, tasks, ongoing, conn_slots, budget, wake_waiters>>

CountOngoing(p) ==
  /\ pc[p] = "count"
  /\ ongoing' = ongoing + 1
  /\ Goto(p, "held")
  /\ UNCHANGED <<new, idle, tasks, conn_slots, woken, local>>

(* handle_futures_result?; *)
CheckErr(p) ==
  /\ pc[p] = "check_err"
  /\ IF first_err[p]
     THEN /\ Goto(p, "out")
          /\ woken' = woken \ {p}
          /\ first_err' = [first_err EXCEPT ![p] = FALSE]
     ELSE /\ Goto(p, "reserve")
          /\ UNCHANGED <<woken, first_err>>
  /\ UNCHANGED <<new, idle, tasks, ongoing, conn_slots, budget, wake_waiters>>

(* try_reserve_conn: the compare-exchange loop, at its last iteration. *)
SlotFree_late == conn_slots <= Max
SlotFree      == conn_slots < Max

Reserve(p) ==
  /\ pc[p] = "reserve"
  /\ IF SlotFree
     THEN conn_slots' = conn_slots + 1 /\ Goto(p, "enqueue")
     ELSE UNCHANGED conn_slots /\ Goto(p, "park")
  /\ UNCHANGED <<new, idle, tasks, ongoing, woken, local>>

(* Pushes the new future and asks to be polled again; if the push fails,   *)
(* gives the slot back and parks.                                          *)
Enqueue(p) ==
  /\ pc[p] = "enqueue"
  /\ IF FailedPush(new)
     THEN /\ ReleaseSlot
          /\ Goto(p, "park")
          /\ UNCHANGED <<new, woken>>
     ELSE /\ new' = Append(new, Fresh)
          /\ woken' = Woken({p})
          /\ Goto(p, "pending")
          /\ UNCHANGED conn_slots
  /\ UNCHANGED <<idle, tasks, ongoing, local>>

Park(p) ==
  /\ pc[p] = "park"
  /\ tasks' = tasks \cup {p}
  /\ Goto(p, "pending")
  /\ UNCHANGED <<new, idle, ongoing, conn_slots, woken, local>>

-----------------------------------------------------------------------------
(* The end of a handle. *)

(* Drop for ClientHandle with its transport in place: return_conn.  The    *)
(* handle is attached to the pool, or detached when its last query stream  *)
(* did not finish.                                                         *)
DropHandle(p) ==
  /\ pc[p] = "held"
  /\ Runs(p)
  /\ IF ongoing = 0
     THEN Goto(p, "out")
     ELSE \E is_attached \in BOOLEAN :
            Goto(p, IF is_attached THEN "ret_len" ELSE "ret_drop")
  /\ UNCHANGED <<new, idle, tasks, ongoing, conn_slots, woken, local>>

ReturnLen(p) ==
  /\ pc[p] = "ret_len"
  /\ Goto(p, IF idle < Min THEN "ret_push" ELSE "ret_drop")
  /\ UNCHANGED <<new, idle, tasks, ongoing, conn_slots, woken, local>>

ReturnPush(p) ==
  /\ pc[p] = "ret_push"
  /\ IF idle < Max
     THEN idle' = idle + 1 /\ Goto(p, "uncount_kept")
     ELSE UNCHANGED idle /\ Goto(p, "ret_drop")
  /\ UNCHANGED <<new, tasks, ongoing, conn_slots, woken, local>>

(* ongoing.fetch_sub, in return_conn and in release_conn; then the slot is *)
(* released, unless the connection went back to `idle`.                    *)
AfterUncount_frees(label) == IF label = "rel" THEN "rel_slot" ELSE "free_slot"
AfterUncount_quiet(label) == CASE label = "uncount_kept" -> "out"
                               [] label = "ret_drop"     -> "free_slot"
                               [] OTHER                  -> "rel_slot"
AfterUncount(label) == CASE label = "uncount_kept" -> "wake_kept"
                         [] label = "ret_drop"     -> "free_slot"
                         [] OTHER                  -> "rel_slot"

Uncount(p) ==
  /\ pc[p] \in {"uncount_kept", "ret_drop", "rel"}
  /\ ongoing' = ongoing - 1
  /\ Goto(p, AfterUncount(pc[p]))
  /\ UNCHANGED <<new, idle, tasks, conn_slots, woken, local>>

FreeSlot(p) ==
  /\ pc[p] \in {"free_slot", "rel_slot"}
  /\ ReleaseSlot
  /\ Goto(p, IF pc[p] = "free_slot" THEN "wake_closing" ELSE "wake_rel")
  /\ UNCHANGED <<new, idle, tasks, ongoing, woken, local>>

(* return_conn ends: only now is a client it did not keep dropped, and its *)
(* socket closed.                                                          *)
CloseSocket(p) ==
  /\ pc[p] = "closing"
  /\ Goto(p, "out")
  /\ UNCHANGED <<new, idle, tasks, ongoing, conn_slots, woken, local>>

(* The transport of a held handle is dropped by a failed or cancelled      *)
(* operation: the socket closes, then TransportStatus::drop calls          *)
(* release_conn, which first looks at `ongoing`.                           *)
BreakConn(p) ==
  /\ pc[p] = "held"
  /\ Runs(p)
  /\ Goto(p, IF ongoing = 0 THEN "out" ELSE "rel")
  /\ UNCHANGED <<new, idle, tasks, ongoing, conn_slots, woken, local>>

-----------------------------------------------------------------------------
(* The outside: a pending open finishes, well or badly, and wakes the task *)
(* that polled it last.                                                    *)
Resolve ==
  \E i \in 1..Len(new), st \in {"ok", "err"} :
    /\ new[i].st = "pending"
    /\ new' = [new EXCEPT ![i] = [st |-> st, waker |-> NoTask]]
    /\ woken' = Woken({new[i].waker})
    /\ UNCHANGED <<idle, tasks, ongoing, conn_slots, pc, local>>

-----------------------------------------------------------------------------
PollStep(p) ==
  \/ ScanPop(p) \/ ScanDone(p) \/ Requeue(p) \/ Store(p) \/ FailOpen(p)
  \/ TakeConn(p) \/ CountOngoing(p) \/ CheckErr(p)
  \/ Reserve(p) \/ Enqueue(p) \/ Park(p)

ReturnStep(p) ==
  \/ ReturnLen(p) \/ ReturnPush(p) \/ Uncount(p) \/ FreeSlot(p) \/ CloseSocket(p)

(* The steps a running task takes without waiting for anyone. *)
RunStep(p) == PollStep(p) \/ ReturnStep(p) \/ WakeOne(p) \/ WakeDone(p)

LeaveHandle(p) == DropHandle(p) \/ BreakConn(p)

Next ==
  \/ \E p \in Tasks : \/ Request(p) \/ Cancel(p) \/ Nudge(p) \/ PollStart(p)
                      \/ RunStep(p) \/ LeaveHandle(p)
  \/ Resolve

Spec == Init /\ [][Next]_vars

(* A task that was scheduled is polled (the run queue is fair: strong      *)
(* fairness, since on one thread the task is disabled while others run); a *)
(* running task goes on; a pending open ends, at the latest by             *)
(* connection_timeout (strong fairness: it also ends while a poll has it   *)
(* out of the queue).                                                      *)
ExecutorFairness ==
  /\ \A p \in Tasks : SF_vars(PollStart(p)) /\ WF_vars(RunStep(p))
  /\ SF_vars(Resolve)

(* The application need not give back the handles it gets.                 *)
FairSpec == Spec /\ ExecutorFairness

-----------------------------------------------------------------------------
(* PROPERTIES *)

(* Type correctness of the pool's queues, counters and task positions.     *)
TypeOK ==
  /\ new \in Seq(Future)
  /\ idle \in Nat
  /\ tasks \subseteq Tasks
  /\ ongoing \in Int
  /\ conn_slots \in Nat
  /\ woken \subseteq Tasks
  /\ pc \in [Tasks -> PCs]
  /\ budget \in [Tasks -> 0..PollBudget]
  /\ wake_waiters \in [Tasks -> BOOLEAN]
  /\ first_err \in [Tasks -> BOOLEAN]

(* The two counters agree with where the connections are, at every step of *)
(* every interleaving of polls, returns and broken transports: each        *)
(* reserved slot is a queued open, an idle connection or one task's own,   *)
(* and `ongoing` counts exactly the tasks that have not uncounted theirs.  *)
SlotsAccounted   == conn_slots = Len(new) + idle + Cardinality(At(SlotPCs))
OngoingAccounted == ongoing = Cardinality(At(OngoingPCs))
Accounting       == SlotsAccounted /\ OngoingAccounted

(* pool_max is never exceeded, counting opens, idle connections and those  *)
(* in the hands of tasks, although `new` and `idle` are read and written   *)
(* by different tasks between a reservation and its use.                   *)
WithinMax == Len(new) + idle + Cardinality(At(SlotPCs)) <= Max

(* None of the fallbacks the code logs as a warning can happen: no push    *)
(* finds its queue full (lines 264, 362, 372, 432), no return or broken    *)
(* transport finds `ongoing` at zero and leaks its slot (44, 422), no slot *)
(* is released that was not reserved (82).                                 *)
NoFallback ==
  /\ At({"requeue", "enqueue"}) # {} => ~FailedPush(new)
  /\ At({"store", "ret_push"}) # {} => idle < Max
  /\ At(OngoingPCs) # {} => ongoing > 0
  /\ At({"requeue", "store", "fail_open", "enqueue", "free_slot", "rel_slot"}) # {}
       => conn_slots > 0

(* On one thread no wake-up is lost: whenever every task is between calls, *)
(* a waiter that could be served by an idle connection or could open one   *)
(* has been scheduled.                                                     *)
AtRest     == At(RestPCs) = Tasks
NoStranded == SingleThreaded /\ AtRest /\ (idle > 0 \/ conn_slots < Max)
                => At({"pending"}) \subseteq woken

(* Every wait ends in progress: while p waits, some request is granted a   *)
(* connection or told that its open failed, unless every connection the    *)
(* pool may have is in use.  (p itself may be overtaken: the pool is not   *)
(* first come first served.)                                               *)
Answered       == \/ At({"count"}) # {}
                  \/ \E q \in At({"check_err"}) : first_err[q]
Exhausted      == Cardinality(At(OngoingPCs \cup {"count"})) = Max
WaiterProgress == \A p \in Tasks :
                    pc[p] = "pending" ~> Answered \/ Exhausted \/ pc[p] = "out"

(* The sockets open to the server, opens in progress not counted. *)
OpenSockets ==
  idle + Cardinality({i \in 1..Len(new) : new[i].st = "ok"})
       + Cardinality(At({"store", "count", "held", "ret_len", "ret_push",
                         "ret_drop", "free_slot", "wake_closing", "closing"}))
SocketsWithinMax == OpenSockets <= Max

-----------------------------------------------------------------------------
(* The pool implements PoolAbs. *)

PhaseOf(label) ==
  IF label \in PollPCs \cup {"pending"} THEN "waiting"
  ELSE IF label \in SlotPCs THEN "holding" ELSE "out"

AbsPhase   == [p \in Tasks |-> PhaseOf(pc[p])]
OpeningPCs == SlotPCs \cap PollPCs
AbsOpening == Len(new) + Cardinality(At(OpeningPCs))
AbsFailed  == {p \in At(PollPCs) : first_err[p]}

Abs == INSTANCE PoolAbs WITH
         phase <- AbsPhase, opening <- AbsOpening, spare <- idle, failed <- AbsFailed

(* Grants, refusals and the bound on connections are those of PoolAbs.     *)
ImplementsAbs == Abs!Spec

=============================================================================
