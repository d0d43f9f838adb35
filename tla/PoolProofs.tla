----------------------------- MODULE PoolProofs -----------------------------
(***************************************************************************)
(* Safety of Pool.tla for every number of tasks and every limit.           *)
(*                                                                         *)
(* The inductive invariant is TypeOK /\ Accounting /\ conn_slots <= Max.   *)
(* Neither of the last two stands alone: that a push never fails is a      *)
(* consequence of the bound only through the accounting, and the bound is  *)
(* kept by Reserve only because conn_slots is what the accounting says.    *)
(***************************************************************************)
EXTENDS Pool, FiniteSetTheorems, TLAPS

IInv == TypeOK /\ Accounting /\ conn_slots <= Max

-----------------------------------------------------------------------------
(* Counting the tasks at a set of labels when one of them moves.           *)

Count(f, S) == Cardinality({q \in Tasks : f[q] \in S})

(* The number of tasks at a set of labels is a natural number.             *)
LEMMA CountNat ==
  ASSUME NEW f, NEW S
  PROVE  /\ Count(f, S) \in Nat
         /\ IsFiniteSet({q \in Tasks : f[q] \in S})
<1>1. IsFiniteSet(Tasks)
  BY TasksAssumption
<1>2. IsFiniteSet({q \in Tasks : f[q] \in S})
  BY <1>1, FS_Subset
<1> QED
  BY <1>2, FS_CardinalityType DEF Count

(* A set of labels that one task is at is not counted as empty.            *)
LEMMA CountPositive ==
  ASSUME NEW f, NEW S, NEW p \in Tasks, f[p] \in S
  PROVE  Count(f, S) \in Nat /\ Count(f, S) > 0
<1> DEFINE A == {q \in Tasks : f[q] \in S}
<1>1. IsFiniteSet(A) /\ Cardinality(A) \in Nat
  BY CountNat DEF Count
<1>2. A # {}
  OBVIOUS
<1>3. Cardinality(A) # 0
  BY <1>1, <1>2, FS_EmptySet
<1> QED
  BY <1>1, <1>3 DEF Count

(* One task moving to a label changes a count by what it leaves and enters.*)
LEMMA CountMove ==
  ASSUME pc \in [Tasks -> PCs], NEW p \in Tasks, NEW l, Goto(p, l), NEW S
  PROVE  /\ pc[p] \in S /\ l \in S => Count(pc', S) = Count(pc, S)
         /\ pc[p] \notin S /\ l \notin S => Count(pc', S) = Count(pc, S)
         /\ pc[p] \in S /\ l \notin S => Count(pc', S) = Count(pc, S) - 1
         /\ pc[p] \notin S /\ l \in S => Count(pc', S) = Count(pc, S) + 1
<1> DEFINE A == {q \in Tasks : pc[q] \in S}
           B == {q \in Tasks : pc'[q] \in S}
<1>1. IsFiniteSet(A) /\ Cardinality(A) \in Nat
  BY CountNat DEF Count
<1>2. CASE pc[p] \in S <=> l \in S
  <2>1. A = B
    BY <1>2 DEF Goto
  <2> QED
    BY <1>2, <2>1 DEF Count
<1>3. CASE pc[p] \in S /\ l \notin S
  <2>1. B = A \ {p} /\ p \in A
    BY <1>3 DEF Goto
  <2>2. Cardinality(A \ {p}) = Cardinality(A) - 1
    BY <1>1, <2>1, FS_RemoveElement
  <2> QED
    BY <1>3, <2>1, <2>2 DEF Count
<1>4. CASE pc[p] \notin S /\ l \in S
  <2>1. B = A \cup {p} /\ p \notin A
    BY <1>4 DEF Goto
  <2>2. Cardinality(A \cup {p}) = Cardinality(A) + 1
    BY <1>1, <2>1, FS_AddElement
  <2> QED
    BY <1>4, <2>1, <2>2 DEF Count
<1> QED
  BY <1>2, <1>3, <1>4

-----------------------------------------------------------------------------
(* Init establishes the invariant.                                         *)
LEMMA InitIInv == Init => IInv
<1> SUFFICES ASSUME Init PROVE IInv
  OBVIOUS
<1>1. TypeOK
  BY LimitsAssumption DEF Init, TypeOK, PCs, RestPCs
<1>2. At(SlotPCs) = {} /\ At(OngoingPCs) = {}
  BY DEF Init, At, SlotPCs, OngoingPCs
<1>3. Accounting
  BY <1>2, FS_EmptySet DEF Init, Accounting, SlotsAccounted, OngoingAccounted
<1> QED
  BY <1>1, <1>3, LimitsAssumption DEF Init, IInv

-----------------------------------------------------------------------------
(* Type correctness is inductive by itself.                                *)
LEMMA NextTypeOK == TypeOK /\ [Next]_vars => TypeOK'
<1> SUFFICES ASSUME TypeOK, [Next]_vars PROVE TypeOK'
  OBVIOUS
<1> USE LimitsAssumption DEF TypeOK, Goto, local, PCs, RestPCs, PollPCs, ReturnPCs, BreakPCs,
           ReleaseSlot, PollsFor, AfterScan, SlotFree
<1>1. ASSUME NEW p \in Tasks, Request(p) PROVE TypeOK'
  BY <1>1 DEF Request
<1>2. ASSUME NEW p \in Tasks, Cancel(p) PROVE TypeOK'
  BY <1>2 DEF Cancel
<1>3. ASSUME NEW p \in Tasks, Nudge(p) PROVE TypeOK'
  BY <1>3 DEF Nudge
<1>4. ASSUME NEW p \in Tasks, PollStart(p) PROVE TypeOK'
  BY <1>4 DEF PollStart
<1>5. ASSUME NEW p \in Tasks, ScanPop(p) PROVE TypeOK'
  <2>1. new' \in Seq(Future)
    BY <1>5 DEF ScanPop
  <2>2. budget' \in [Tasks -> 0..PollBudget]
    BY <1>5 DEF ScanPop
  <2>3. pc' \in [Tasks -> PCs]
    BY <1>5 DEF ScanPop
  <2> QED
    BY <1>5, <2>1, <2>2, <2>3 DEF ScanPop
<1>6. ASSUME NEW p \in Tasks, ScanDone(p) PROVE TypeOK'
  BY <1>6 DEF ScanDone
<1>7. ASSUME NEW p \in Tasks, Requeue(p) PROVE TypeOK'
  <2>1. [st |-> "pending", waker |-> p] \in Future
    BY DEF Future, OpenStates
  <2>2. CASE FailedPush(new)
    <3>1. /\ pc' = [pc EXCEPT ![p] = "scan"]
          /\ ReleaseSlot
          /\ wake_waiters' = [wake_waiters EXCEPT ![p] = TRUE]
          /\ UNCHANGED <<new, idle, tasks, ongoing, woken, budget, first_err>>
      BY <1>7, <2>2 DEF Requeue
    <3>2. wake_waiters' \in [Tasks -> BOOLEAN]
      BY <3>1
    <3>3. pc' \in [Tasks -> PCs]
      BY <3>1
    <3> QED
      BY <3>1, <3>2, <3>3
  <2>3. CASE ~FailedPush(new)
    <3>1. /\ pc' = [pc EXCEPT ![p] = "scan"]
          /\ new' = Append(new, [st |-> "pending", waker |-> p])
          /\ UNCHANGED <<idle, tasks, ongoing, conn_slots, woken, local>>
      BY <1>7, <2>3 DEF Requeue
    <3>2. new' \in Seq(Future)
      BY <2>1, <3>1
    <3>3. pc' \in [Tasks -> PCs]
      BY <3>1
    <3> QED
      BY <3>1, <3>2, <3>3
  <2> QED
    BY <2>2, <2>3
<1>8. ASSUME NEW p \in Tasks, Store(p) PROVE TypeOK'
  BY <1>8 DEF Store
<1>9. ASSUME NEW p \in Tasks, FailOpen(p) PROVE TypeOK'
  BY <1>9 DEF FailOpen
<1>10. ASSUME NEW p \in Tasks, WakeOne(p) PROVE TypeOK'
  BY <1>10 DEF WakeOne, Woken, Awaiting, At
<1>11. ASSUME NEW p \in Tasks, WakeDone(p) PROVE TypeOK'
  BY <1>11 DEF WakeDone, WakePCs, AfterWake
<1>12. ASSUME NEW p \in Tasks, TakeConn(p) PROVE TypeOK'
  <2>1. CASE idle > 0
    <3>1. /\ pc' = [pc EXCEPT ![p] = "count"]
          /\ idle' = idle - 1
          /\ woken' = woken \ {p}
          /\ first_err' = [first_err EXCEPT ![p] = FALSE]
          /\ UNCHANGED <<new, tasks, ongoing, conn_slots, budget, wake_waiters>>
      BY <1>12, <2>1 DEF TakeConn
    <3>2. pc' \in [Tasks -> PCs]
      BY <3>1
    <3> QED
      BY <2>1, <3>1, <3>2
  <2>2. CASE ~(idle > 0)
    <3>1. /\ pc' = [pc EXCEPT ![p] = "check_err"]
          /\ UNCHANGED <<new, idle, tasks, ongoing, conn_slots, woken, local>>
      BY <1>12, <2>2 DEF TakeConn
    <3>2. pc' \in [Tasks -> PCs]
      BY <3>1
    <3> QED
      BY <3>1, <3>2
  <2> QED
    BY <2>1, <2>2
<1>13. ASSUME NEW p \in Tasks, CountOngoing(p) PROVE TypeOK'
  BY <1>13 DEF CountOngoing
<1>14. ASSUME NEW p \in Tasks, CheckErr(p) PROVE TypeOK'
  BY <1>14 DEF CheckErr
<1>15. ASSUME NEW p \in Tasks, Reserve(p) PROVE TypeOK'
  BY <1>15 DEF Reserve
<1>16. ASSUME NEW p \in Tasks, Enqueue(p) PROVE TypeOK'
  <2>1. Fresh \in Future
    BY DEF Fresh, Future, OpenStates
  <2>2. CASE FailedPush(new)
    <3>1. /\ pc' = [pc EXCEPT ![p] = "park"]
          /\ ReleaseSlot
          /\ UNCHANGED <<new, idle, tasks, ongoing, woken, local>>
      BY <1>16, <2>2 DEF Enqueue
    <3>2. pc' \in [Tasks -> PCs]
      BY <3>1
    <3> QED
      BY <3>1, <3>2
  <2>3. CASE ~FailedPush(new)
    <3>1. /\ pc' = [pc EXCEPT ![p] = "pending"]
          /\ new' = Append(new, Fresh)
          /\ woken' = Woken({p})
          /\ UNCHANGED <<idle, tasks, ongoing, conn_slots, local>>
      BY <1>16, <2>3 DEF Enqueue
    <3>2. new' \in Seq(Future)
      BY <2>1, <3>1
    <3>3. pc' \in [Tasks -> PCs]
      BY <3>1
    <3>4. woken' \subseteq Tasks
      BY <3>1 DEF Woken, Awaiting, At
    <3> QED
      BY <3>1, <3>2, <3>3, <3>4
  <2> QED
    BY <2>2, <2>3
<1>17. ASSUME NEW p \in Tasks, Park(p) PROVE TypeOK'
  BY <1>17 DEF Park
<1>18. ASSUME NEW p \in Tasks, DropHandle(p) PROVE TypeOK'
  BY <1>18 DEF DropHandle
<1>19. ASSUME NEW p \in Tasks, ReturnLen(p) PROVE TypeOK'
  BY <1>19 DEF ReturnLen
<1>20. ASSUME NEW p \in Tasks, ReturnPush(p) PROVE TypeOK'
  <2>1. CASE idle < Max
    BY <1>20, <2>1 DEF ReturnPush
  <2>2. CASE ~(idle < Max)
    BY <1>20, <2>2 DEF ReturnPush
  <2> QED
    BY <2>1, <2>2
<1>21. ASSUME NEW p \in Tasks, Uncount(p) PROVE TypeOK'
  BY <1>21 DEF Uncount, AfterUncount
<1>22. ASSUME NEW p \in Tasks, FreeSlot(p) PROVE TypeOK'
  BY <1>22 DEF FreeSlot
<1>23. ASSUME NEW p \in Tasks, CloseSocket(p) PROVE TypeOK'
  BY <1>23 DEF CloseSocket
<1>24. ASSUME NEW p \in Tasks, BreakConn(p) PROVE TypeOK'
  BY <1>24 DEF BreakConn
<1>25. CASE Resolve
  BY <1>25 DEF Resolve, Future, OpenStates, Woken, Awaiting, At
<1>26. CASE UNCHANGED vars
  BY <1>26 DEF vars
<1> QED
  BY <1>1, <1>2, <1>3, <1>4, <1>5, <1>6, <1>7, <1>8, <1>9, <1>10, <1>11, <1>12,
     <1>13, <1>14, <1>15, <1>16, <1>17, <1>18, <1>19, <1>20, <1>21, <1>22, <1>23, <1>24, <1>25, <1>26
     DEF Next, RunStep, PollStep, ReturnStep, LeaveHandle

-----------------------------------------------------------------------------
(* The invariant, with the two counts by name.                             *)

IInvCounts == /\ conn_slots = Len(new) + idle + Count(pc, SlotPCs)
              /\ ongoing = Count(pc, OngoingPCs)
              /\ conn_slots <= Max

(* The accounts, with every sum under one name.                            *)
LEMMA IInvByCounts == IInv <=> TypeOK /\ IInvCounts
BY DEF IInv, IInvCounts, Accounting, SlotsAccounted, OngoingAccounted, At, Count

(* Under the invariant no push finds its queue full and no counter is at   *)
(* zero when it is about to be decremented.                                *)
LEMMA IInvNoFallback == IInv => NoFallback
<1> SUFFICES ASSUME IInv PROVE NoFallback
  OBVIOUS
<1>1. TypeOK /\ IInvCounts
  BY IInvByCounts
<1>2. Len(new) \in Nat /\ idle \in Nat
  BY <1>1 DEF TypeOK
<1>3. ASSUME NEW p \in Tasks, pc[p] \in SlotPCs
      PROVE  Len(new) < Max /\ idle < Max /\ conn_slots > 0
  BY <1>1, <1>2, <1>3, CountPositive, LimitsAssumption DEF IInvCounts
<1>4. ASSUME NEW p \in Tasks, pc[p] \in OngoingPCs
      PROVE  ongoing > 0
  BY <1>1, <1>4, CountPositive DEF IInvCounts
<1> QED
  BY <1>2, <1>3, <1>4, LimitsAssumption
     DEF NoFallback, At, FailedPush, SlotPCs, OngoingPCs

(* Every step keeps the accounting: what a counter gains or loses, a queue *)
(* or a task gains or loses in the same step.                              *)
LEMMA NextCounts == IInv /\ TypeOK' /\ [Next]_vars => IInvCounts'
<1> SUFFICES ASSUME IInv, TypeOK', [Next]_vars PROVE IInvCounts'
  OBVIOUS
<1>a. TypeOK /\ IInvCounts
  BY IInvByCounts
<1>b. NoFallback
  BY IInvNoFallback
<1>c. /\ Len(new) \in Nat /\ idle \in Nat /\ pc \in [Tasks -> PCs]
      /\ conn_slots \in Int /\ ongoing \in Int
  BY <1>a DEF TypeOK
<1>d. Count(pc, SlotPCs) \in Nat /\ Count(pc, OngoingPCs) \in Nat
  BY CountNat
<1>e. ASSUME NEW p \in Tasks, NEW l, Goto(p, l),
             pc[p] \in SlotPCs <=> l \in SlotPCs,
             pc[p] \in OngoingPCs <=> l \in OngoingPCs,
             UNCHANGED <<idle, conn_slots, ongoing>>, Len(new') = Len(new)
      PROVE  IInvCounts'
  <2>1. /\ Count(pc', SlotPCs) = Count(pc, SlotPCs)
        /\ Count(pc', OngoingPCs) = Count(pc, OngoingPCs)
    BY <1>c, <1>e, CountMove DEF Goto
  <2> QED
    BY <1>a, <1>e, <2>1 DEF IInvCounts
<1> USE LimitsAssumption DEF ReleaseSlot, AfterScan, SlotFree
<1>1. ASSUME NEW p \in Tasks, Request(p) PROVE IInvCounts'
  BY <1>1, <1>e DEF Request, Goto, SlotPCs, OngoingPCs
<1>2. ASSUME NEW p \in Tasks, Cancel(p) PROVE IInvCounts'
  BY <1>2, <1>e DEF Cancel, Goto, SlotPCs, OngoingPCs
<1>3. ASSUME NEW p \in Tasks, Nudge(p) PROVE IInvCounts'
  BY <1>3, <1>a DEF Nudge, IInvCounts, local
<1>4. ASSUME NEW p \in Tasks, PollStart(p) PROVE IInvCounts'
  BY <1>4, <1>e DEF PollStart, Goto, SlotPCs, OngoingPCs
<1>5. ASSUME NEW p \in Tasks, ScanDone(p) PROVE IInvCounts'
  BY <1>5, <1>e DEF ScanDone, Goto, SlotPCs, OngoingPCs
<1>6. ASSUME NEW p \in Tasks, ScanPop(p) PROVE IInvCounts'
  <2>1. /\ Count(pc', SlotPCs) = Count(pc, SlotPCs) + 1
        /\ Count(pc', OngoingPCs) = Count(pc, OngoingPCs)
    BY <1>6, <1>b, <1>c, CountMove DEF ScanPop, SlotPCs, OngoingPCs
  <2>2. UNCHANGED <<idle, conn_slots, ongoing>> /\ Len(new') = Len(new) - 1
    BY <1>6, <1>b, <1>c DEF ScanPop, NoFallback, At
  <2> QED
    BY <1>a, <1>c, <1>d, <2>1, <2>2 DEF IInvCounts
<1>7. ASSUME NEW p \in Tasks, Requeue(p) PROVE IInvCounts'
  <2>0. pc[p] = "requeue" /\ Goto(p, "scan")
    BY <1>7 DEF Requeue
  <2>1. /\ Count(pc', SlotPCs) = Count(pc, SlotPCs) - 1
        /\ Count(pc', OngoingPCs) = Count(pc, OngoingPCs)
    BY <2>0, <1>c, CountMove DEF SlotPCs, OngoingPCs
  <2>2. UNCHANGED <<idle, conn_slots, ongoing>> /\ Len(new') = Len(new) + 1
    BY <1>7, <1>b, <1>c DEF Requeue, NoFallback, At, FailedPush
  <2> QED
    BY <1>a, <1>c, <1>d, <2>1, <2>2 DEF IInvCounts
<1>8. ASSUME NEW p \in Tasks, Store(p) PROVE IInvCounts'
  <2>0. pc[p] = "store" /\ Goto(p, "scan")
    BY <1>8 DEF Store
  <2>1. /\ Count(pc', SlotPCs) = Count(pc, SlotPCs) - 1
        /\ Count(pc', OngoingPCs) = Count(pc, OngoingPCs)
    BY <2>0, <1>c, CountMove DEF SlotPCs, OngoingPCs
  <2>2. UNCHANGED <<new, conn_slots, ongoing>> /\ idle' = idle + 1
    BY <1>8, <1>b, <1>c DEF Store, NoFallback, At
  <2> QED
    BY <1>a, <1>c, <1>d, <2>1, <2>2 DEF IInvCounts
<1>9. ASSUME NEW p \in Tasks, FailOpen(p) PROVE IInvCounts'
  <2>0. pc[p] = "fail_open" /\ Goto(p, "scan")
    BY <1>9 DEF FailOpen
  <2>1. /\ Count(pc', SlotPCs) = Count(pc, SlotPCs) - 1
        /\ Count(pc', OngoingPCs) = Count(pc, OngoingPCs)
    BY <2>0, <1>c, CountMove DEF SlotPCs, OngoingPCs
  <2>2. UNCHANGED <<new, idle, ongoing>> /\ conn_slots' = conn_slots - 1
    BY <1>9, <1>b, <1>c DEF FailOpen, NoFallback, At
  <2> QED
    BY <1>a, <1>c, <1>d, <2>1, <2>2 DEF IInvCounts
<1>10. ASSUME NEW p \in Tasks, WakeOne(p) PROVE IInvCounts'
  BY <1>10, <1>a DEF WakeOne, IInvCounts, local
<1>11. ASSUME NEW p \in Tasks, WakeDone(p) PROVE IInvCounts'
  BY <1>11, <1>e DEF WakeDone, Goto, SlotPCs, OngoingPCs, WakePCs, AfterWake
<1>12. ASSUME NEW p \in Tasks, TakeConn(p) PROVE IInvCounts'
  <2>1. CASE idle > 0
    <3>0. pc[p] = "take" /\ Goto(p, "count")
      BY <1>12, <2>1 DEF TakeConn
    <3>1. /\ Count(pc', SlotPCs) = Count(pc, SlotPCs) + 1
          /\ Count(pc', OngoingPCs) = Count(pc, OngoingPCs)
      BY <3>0, <1>c, CountMove DEF SlotPCs, OngoingPCs
    <3>2. UNCHANGED <<new, conn_slots, ongoing>> /\ idle' = idle - 1
      BY <1>12, <2>1 DEF TakeConn
    <3> QED
      BY <1>a, <1>c, <1>d, <3>1, <3>2 DEF IInvCounts
  <2>2. CASE ~(idle > 0)
    BY <1>12, <1>e, <2>2 DEF TakeConn, Goto, SlotPCs, OngoingPCs
  <2> QED
    BY <2>1, <2>2
<1>13. ASSUME NEW p \in Tasks, CountOngoing(p) PROVE IInvCounts'
  <2>0. pc[p] = "count" /\ Goto(p, "held")
    BY <1>13 DEF CountOngoing
  <2>1. /\ Count(pc', SlotPCs) = Count(pc, SlotPCs)
        /\ Count(pc', OngoingPCs) = Count(pc, OngoingPCs) + 1
    BY <2>0, <1>c, CountMove DEF SlotPCs, OngoingPCs
  <2>2. UNCHANGED <<new, idle, conn_slots>> /\ ongoing' = ongoing + 1
    BY <1>13, <1>b, <1>c DEF CountOngoing, NoFallback, At
  <2> QED
    BY <1>a, <1>c, <1>d, <2>1, <2>2 DEF IInvCounts
<1>14. ASSUME NEW p \in Tasks, CheckErr(p) PROVE IInvCounts'
  BY <1>14, <1>e DEF CheckErr, Goto, SlotPCs, OngoingPCs
<1>15. ASSUME NEW p \in Tasks, Reserve(p) PROVE IInvCounts'
  <2>1. CASE conn_slots < Max
    <3>0. pc[p] = "reserve" /\ Goto(p, "enqueue")
      BY <1>15, <2>1 DEF Reserve
    <3>1. /\ Count(pc', SlotPCs) = Count(pc, SlotPCs) + 1
          /\ Count(pc', OngoingPCs) = Count(pc, OngoingPCs)
      BY <3>0, <1>c, CountMove DEF SlotPCs, OngoingPCs
    <3>2. UNCHANGED <<new, idle, ongoing>> /\ conn_slots' = conn_slots + 1
      BY <1>15, <2>1 DEF Reserve
    <3> QED
      BY <1>a, <1>c, <1>d, <2>1, <3>1, <3>2 DEF IInvCounts
  <2>2. CASE ~(conn_slots < Max)
    BY <1>15, <1>e, <2>2 DEF Reserve, Goto, SlotPCs, OngoingPCs
  <2> QED
    BY <2>1, <2>2
<1>16. ASSUME NEW p \in Tasks, Enqueue(p) PROVE IInvCounts'
  <2>0. pc[p] = "enqueue" /\ Goto(p, "pending")
    BY <1>16, <1>b DEF Enqueue, NoFallback, At
  <2>1. /\ Count(pc', SlotPCs) = Count(pc, SlotPCs) - 1
        /\ Count(pc', OngoingPCs) = Count(pc, OngoingPCs)
    BY <2>0, <1>c, CountMove DEF SlotPCs, OngoingPCs
  <2>2. UNCHANGED <<idle, conn_slots, ongoing>> /\ Len(new') = Len(new) + 1
    BY <1>16, <1>b, <1>c DEF Enqueue, NoFallback, At, FailedPush
  <2> QED
    BY <1>a, <1>c, <1>d, <2>1, <2>2 DEF IInvCounts
<1>17. ASSUME NEW p \in Tasks, Park(p) PROVE IInvCounts'
  BY <1>17, <1>e DEF Park, Goto, SlotPCs, OngoingPCs
<1>18. ASSUME NEW p \in Tasks, DropHandle(p) PROVE IInvCounts'
  BY <1>18, <1>b, <1>e DEF DropHandle, NoFallback, At, Goto, SlotPCs, OngoingPCs
<1>19. ASSUME NEW p \in Tasks, ReturnLen(p) PROVE IInvCounts'
  BY <1>19, <1>e DEF ReturnLen, Goto, SlotPCs, OngoingPCs
<1>20. ASSUME NEW p \in Tasks, ReturnPush(p) PROVE IInvCounts'
  <2>0. pc[p] = "ret_push" /\ Goto(p, "uncount_kept")
    BY <1>20, <1>b DEF ReturnPush, NoFallback, At
  <2>1. /\ Count(pc', SlotPCs) = Count(pc, SlotPCs) - 1
        /\ Count(pc', OngoingPCs) = Count(pc, OngoingPCs)
    BY <2>0, <1>c, CountMove DEF SlotPCs, OngoingPCs
  <2>2. UNCHANGED <<new, conn_slots, ongoing>> /\ idle' = idle + 1
    BY <1>20, <1>b, <1>c DEF ReturnPush, NoFallback, At
  <2> QED
    BY <1>a, <1>c, <1>d, <2>1, <2>2 DEF IInvCounts
<1>21. ASSUME NEW p \in Tasks, Uncount(p) PROVE IInvCounts'
  <2>1. /\ Count(pc', SlotPCs) = Count(pc, SlotPCs)
        /\ Count(pc', OngoingPCs) = Count(pc, OngoingPCs) - 1
    BY <1>21, <1>b, <1>c, CountMove DEF Uncount, SlotPCs, OngoingPCs, AfterUncount
  <2>2. UNCHANGED <<new, idle, conn_slots>> /\ ongoing' = ongoing - 1
    BY <1>21, <1>b, <1>c DEF Uncount, NoFallback, At, AfterUncount
  <2> QED
    BY <1>a, <1>c, <1>d, <2>1, <2>2 DEF IInvCounts
<1>22. ASSUME NEW p \in Tasks, FreeSlot(p) PROVE IInvCounts'
  <2>1. /\ Count(pc', SlotPCs) = Count(pc, SlotPCs) - 1
        /\ Count(pc', OngoingPCs) = Count(pc, OngoingPCs)
    BY <1>22, <1>b, <1>c, CountMove DEF FreeSlot, SlotPCs, OngoingPCs
  <2>2. UNCHANGED <<new, idle, ongoing>> /\ conn_slots' = conn_slots - 1
    BY <1>22, <1>b, <1>c DEF FreeSlot, NoFallback, At
  <2> QED
    BY <1>a, <1>c, <1>d, <2>1, <2>2 DEF IInvCounts
<1>23. ASSUME NEW p \in Tasks, CloseSocket(p) PROVE IInvCounts'
  BY <1>23, <1>e DEF CloseSocket, Goto, SlotPCs, OngoingPCs
<1>24. ASSUME NEW p \in Tasks, BreakConn(p) PROVE IInvCounts'
  <2>1. ongoing > 0
    BY <1>24, <1>b DEF BreakConn, NoFallback, At, OngoingPCs
  <2>2. Goto(p, "rel")
    BY <1>24, <1>c, <2>1 DEF BreakConn
  <2> QED
    BY <1>24, <1>e, <2>2 DEF BreakConn, SlotPCs, OngoingPCs
<1>25. CASE Resolve
  <2>1. UNCHANGED <<idle, conn_slots, ongoing, pc>>
    BY <1>25 DEF Resolve
  <2>2. PICK i \in 1..Len(new), st \in {"ok", "err"} :
          new' = [new EXCEPT ![i] = [st |-> st, waker |-> NoTask]]
    BY <1>25 DEF Resolve
  <2>3. Len(new') = Len(new)
    BY <1>a, <2>2 DEF TypeOK
  <2> QED
    BY <1>a, <2>1, <2>3 DEF IInvCounts, Count
<1>26. CASE UNCHANGED vars
  BY <1>26, <1>a DEF vars, IInvCounts
<1> QED
  BY <1>1, <1>2, <1>3, <1>4, <1>5, <1>6, <1>7, <1>8, <1>9, <1>10, <1>11, <1>12,
     <1>13, <1>14, <1>15, <1>16, <1>17, <1>18, <1>19, <1>20, <1>21, <1>22, <1>23, <1>24, <1>25, <1>26
     DEF Next, RunStep, PollStep, ReturnStep, LeaveHandle

-----------------------------------------------------------------------------
(* The inductive invariant holds of every behaviour of the pool.           *)
LEMMA SpecIInv == Spec => []IInv
<1>1. IInv /\ [Next]_vars => IInv'
  <2> SUFFICES ASSUME IInv, [Next]_vars PROVE IInv'
    OBVIOUS
  <2>1. TypeOK'
    BY NextTypeOK DEF IInv
  <2>2. IInvCounts'
    BY <2>1, NextCounts
  <2> QED
    BY <2>1, <2>2 DEF IInv, IInvCounts, Accounting, SlotsAccounted,
                      OngoingAccounted, At, Count
<1> QED
  BY InitIInv, <1>1, PTL DEF Spec

(* The queues, counters and positions keep their types.                    *)
THEOREM TypeCorrect == Spec => []TypeOK
<1>1. IInv => TypeOK
  BY DEF IInv
<1> QED
  BY SpecIInv, <1>1, PTL

(* conn_slots and ongoing are exact in every interleaving of polls,        *)
(* returns and broken transports (src/pool/mod.rs).                        *)
THEOREM PoolAccounting == Spec => []Accounting
<1>1. IInv => Accounting
  BY DEF IInv
<1> QED
  BY SpecIInv, <1>1, PTL

(* Opens, idle connections and those in the hands of tasks never exceed    *)
(* pool_max together.                                                      *)
THEOREM PoolWithinMax == Spec => []WithinMax
<1>1. IInv => WithinMax
  BY DEF IInv, Accounting, SlotsAccounted, WithinMax
<1> QED
  BY SpecIInv, <1>1, PTL

(* The branches the code logs as "could not be added" or "called when no   *)
(* connections are ongoing" are never taken.                               *)
THEOREM PoolNoFallback == Spec => []NoFallback
BY SpecIInv, IInvNoFallback, PTL

-----------------------------------------------------------------------------
(* The pool implements PoolAbs.                                            *)

(* A task remembers a failed open only while it is in the poll that saw it *)
(* fail: a task that starts to poll, or parks, has no error to report.     *)
ErrPCs   == {"scan", "requeue", "store", "fail_open", "wake_hf", "take", "check_err"}
ErrOwned == \A p \in Tasks : first_err[p] => pc[p] \in ErrPCs

(* Every step keeps an error with the task that has it.                    *)
LEMMA NextErrOwned == TypeOK /\ ErrOwned /\ [Next]_vars => ErrOwned'
<1> SUFFICES ASSUME TypeOK, ErrOwned, [Next]_vars PROVE ErrOwned'
  OBVIOUS
<1>1. pc \in [Tasks -> PCs] /\ first_err \in [Tasks -> BOOLEAN]
  BY DEF TypeOK
<1>2. ASSUME NEW p \in Tasks, NEW l, Goto(p, l), UNCHANGED first_err,
             pc[p] \in ErrPCs => l \in ErrPCs
      PROVE  ErrOwned'
  BY <1>1, <1>2 DEF ErrOwned, Goto
<1>3. ASSUME NEW p \in Tasks, NEW l, Goto(p, l), first_err' = [first_err EXCEPT ![p] = FALSE]
      PROVE  ErrOwned'
  BY <1>1, <1>3 DEF ErrOwned, Goto
<1>4. ASSUME UNCHANGED <<pc, first_err>> PROVE ErrOwned'
  BY <1>4 DEF ErrOwned
<1> USE DEF local, ErrPCs
<1>5. ASSUME NEW p \in Tasks, FailOpen(p) PROVE ErrOwned'
  BY <1>1, <1>5 DEF FailOpen, ErrOwned, Goto
<1>6. ASSUME NEW p \in Tasks, TakeConn(p) PROVE ErrOwned'
  BY <1>1, <1>3, <1>6 DEF TakeConn, ErrOwned, Goto
<1>7. ASSUME NEW p \in Tasks, CheckErr(p) PROVE ErrOwned'
  <2>1. CASE first_err[p]
    BY <1>3, <1>7, <2>1 DEF CheckErr
  <2>2. CASE ~first_err[p]
    BY <1>1, <1>7, <2>2 DEF CheckErr, ErrOwned, Goto
  <2> QED
    BY <2>1, <2>2
<1>8. ASSUME NEW p \in Tasks,
             ScanPop(p) \/ ScanDone(p) \/ Requeue(p) \/ Store(p) \/ PollStart(p)
      PROVE  ErrOwned'
  BY <1>2, <1>8 DEF ScanPop, ScanDone, Requeue, Store, PollStart, AfterScan
<1>9. ASSUME NEW p \in Tasks,
             \/ CountOngoing(p) \/ Reserve(p) \/ Enqueue(p) \/ Park(p)
             \/ Request(p) \/ Cancel(p) \/ LeaveHandle(p)
      PROVE  ErrOwned'
  BY <1>2, <1>9 DEF CountOngoing, Reserve, Enqueue, Park, Request, Cancel, LeaveHandle,
                    DropHandle, BreakConn
<1>10. ASSUME NEW p \in Tasks, ReturnStep(p) \/ WakeDone(p) PROVE ErrOwned'
  BY <1>2, <1>10 DEF ReturnStep, ReturnLen, ReturnPush, Uncount, AfterUncount, FreeSlot,
                     CloseSocket, WakeDone, WakePCs, AfterWake
<1>11. ASSUME NEW p \in Tasks, WakeOne(p) \/ Nudge(p) PROVE ErrOwned'
  BY <1>4, <1>11 DEF WakeOne, Nudge
<1>12. CASE Resolve \/ UNCHANGED vars
  BY <1>4, <1>12 DEF Resolve, vars
<1> QED
  BY <1>5, <1>6, <1>7, <1>8, <1>9, <1>10, <1>11, <1>12 DEF Next, RunStep, PollStep

(* The connections of PoolAbs are the slots of the pool.                   *)
LEMMA AbsTotal == IInv => Abs!Total = conn_slots
<1> SUFFICES ASSUME IInv PROVE Abs!Total = conn_slots
  OBVIOUS
<1>1. Abs!Holding = At(SlotPCs \ PollPCs)
  BY Zenon DEF Abs!Holding, AbsPhase, PhaseOf, At, SlotPCs, PollPCs
<1>2. /\ IsFiniteSet(At(OpeningPCs)) /\ IsFiniteSet(At(SlotPCs \ PollPCs))
      /\ Cardinality(At(OpeningPCs)) \in Nat /\ Cardinality(At(SlotPCs \ PollPCs)) \in Nat
  BY CountNat DEF Count, At
<1>3. /\ At(SlotPCs) = At(OpeningPCs) \cup At(SlotPCs \ PollPCs)
      /\ At(OpeningPCs) \cap At(SlotPCs \ PollPCs) = {}
  BY DEF At, OpeningPCs
<1>4. Cardinality(At(SlotPCs)) = Cardinality(At(OpeningPCs)) + Cardinality(At(SlotPCs \ PollPCs))
  <2>1. Cardinality(At(OpeningPCs) \cap At(SlotPCs \ PollPCs)) = 0
    BY <1>3, FS_EmptySet
  <2>2. Cardinality(At(OpeningPCs) \cup At(SlotPCs \ PollPCs))
          = Cardinality(At(OpeningPCs)) + Cardinality(At(SlotPCs \ PollPCs)) - 0
    BY <1>2, <2>1, FS_Union
  <2> QED
    BY <1>2, <1>3, <2>2
<1> QED
  BY <1>1, <1>2, <1>4 DEF IInv, TypeOK, Accounting, SlotsAccounted, Abs!Total, AbsOpening,
                          Cardinality, Abs!Cardinality

(* The pool starts where PoolAbs does.                                     *)
LEMMA InitImplements == Init => Abs!Init
<1> SUFFICES ASSUME Init PROVE Abs!Init
  OBVIOUS
<1>1. At(OpeningPCs) = {}
  BY DEF Init, At, OpeningPCs, SlotPCs, PollPCs
<1>2. AbsOpening = 0
  BY <1>1, FS_EmptySet DEF Init, AbsOpening
<1> QED
  BY <1>2 DEF Init, Abs!Init, AbsPhase, PhaseOf, AbsFailed, At, SlotPCs, PollPCs

(* Every step of the pool is a step of PoolAbs, or changes nothing of what *)
(* PoolAbs sees.  Requests and grants are decided in one step each: at     *)
(* idle.pop() (TakeConn), at the error (CheckErr), at the reservation, at  *)
(* the push to `idle` and at the release of the slot.                      *)
LEMMA NextImplements == IInv /\ ErrOwned /\ [Next]_vars => [Abs!Next]_(Abs!vars)
<1> SUFFICES ASSUME IInv, ErrOwned, [Next]_vars PROVE [Abs!Next]_(Abs!vars)
  OBVIOUS
<1>a. /\ Len(new) \in Nat /\ idle \in Nat /\ conn_slots \in Nat /\ pc \in [Tasks -> PCs]
      /\ new \in Seq(Future) /\ first_err \in [Tasks -> BOOLEAN]
  BY DEF IInv, TypeOK
<1>b. NoFallback /\ Count(pc, OpeningPCs) \in Nat
  BY IInvNoFallback, CountNat
<1>c. AbsOpening = Len(new) + Count(pc, OpeningPCs)
      /\ AbsOpening' = Len(new') + Count(pc', OpeningPCs)
  BY DEF AbsOpening, Count, At
<1>d. ASSUME NEW p \in Tasks, NEW l, Goto(p, l)
      PROVE  /\ AbsPhase' = [AbsPhase EXCEPT ![p] = PhaseOf(l)]
             /\ AbsPhase[p] = PhaseOf(pc[p])
             /\ AbsPhase[p] = PhaseOf(l) => AbsPhase' = AbsPhase
  BY <1>a, <1>d DEF AbsPhase, Goto
<1> USE DEF PhaseOf, OpeningPCs, SlotPCs, PollPCs, ErrPCs
\* Steps that PoolAbs does not see.
<1>q. ASSUME NEW p \in Tasks, NEW l, Goto(p, l),
             PhaseOf(l) = PhaseOf(pc[p]), pc[p] \in OpeningPCs <=> l \in OpeningPCs,
             pc[p] \in PollPCs \/ l \in PollPCs => (pc[p] \in ErrPCs /\ l \in PollPCs) \/ ~first_err[p],
             UNCHANGED <<idle, first_err>>, Len(new') = Len(new)
      PROVE  UNCHANGED Abs!vars
  <2>1. AbsPhase' = AbsPhase
    BY <1>d, <1>q
  <2>2. AbsOpening' = AbsOpening
    <3>1. Count(pc', OpeningPCs) = Count(pc, OpeningPCs)
      BY ONLY <1>a, <1>q, CountMove
    <3> QED
      BY ONLY <1>a, <1>c, <1>q, <3>1
  <2>3. AbsFailed' = AbsFailed
    BY <1>a, <1>q DEF AbsFailed, At, Goto
  <2> QED
    BY <1>q, <2>1, <2>2, <2>3 DEF Abs!vars
<1>1. ASSUME NEW p \in Tasks, Nudge(p) \/ WakeOne(p) \/ PollStart(p) \/ ScanPop(p) \/ ScanDone(p)
      PROVE  UNCHANGED Abs!vars
  <2>1. CASE Nudge(p) \/ WakeOne(p)
    BY <2>1 DEF Nudge, WakeOne, local, Abs!vars, AbsPhase, AbsOpening, AbsFailed, At
  <2>2. CASE PollStart(p)
    BY <1>a, <1>q, <2>2 DEF PollStart, ErrOwned
  <2>3. CASE ScanDone(p)
    BY <1>a, <1>q, <2>3 DEF ScanDone, AfterScan
  <2>4. CASE ScanPop(p)
    <3>1. PICK l \in {"requeue", "store", "fail_open"} : Goto(p, l)
      BY <2>4 DEF ScanPop
    <3>2. /\ pc[p] = "scan" /\ UNCHANGED <<idle, first_err>>
          /\ Len(new') = Len(new) - 1
      BY <1>a, <2>4 DEF ScanPop
    <3>3. Count(pc', OpeningPCs) = Count(pc, OpeningPCs) + 1
      BY <1>a, <3>1, <3>2, CountMove
    <3>4. AbsPhase' = AbsPhase
      BY <1>d, <3>1, <3>2
    <3>5. AbsFailed' = AbsFailed
      BY <1>a, <3>1, <3>2 DEF AbsFailed, At, Goto
    <3> QED
      BY <1>a, <1>b, <1>c, <3>2, <3>3, <3>4, <3>5 DEF Abs!vars
  <2> QED
    BY <1>1, <2>1, <2>2, <2>3, <2>4
<1>2. ASSUME NEW p \in Tasks, Requeue(p) \/ Enqueue(p) PROVE UNCHANGED Abs!vars
  <2>1. PICK l \in {"scan", "pending"} :
          /\ Goto(p, l) /\ UNCHANGED <<idle, first_err>> /\ Len(new') = Len(new) + 1
          /\ pc[p] = IF l = "scan" THEN "requeue" ELSE "enqueue"
    BY <1>2, <1>a, <1>b DEF Requeue, Enqueue, NoFallback, At, FailedPush, local
  <2>2. Count(pc', OpeningPCs) = Count(pc, OpeningPCs) - 1
    BY <1>a, <2>1, CountMove
  <2>3. AbsPhase' = AbsPhase
    BY <1>d, <2>1
  <2>4. AbsFailed' = AbsFailed
    BY <1>a, <2>1 DEF AbsFailed, At, Goto, ErrOwned
  <2> QED
    BY <1>a, <1>b, <1>c, <2>1, <2>2, <2>3, <2>4 DEF Abs!vars
<1>3. ASSUME NEW p \in Tasks,
             \/ CountOngoing(p) \/ Park(p) \/ LeaveHandle(p)
             \/ ReturnLen(p) \/ Uncount(p) \/ CloseSocket(p) \/ WakeDone(p)
      PROVE  UNCHANGED Abs!vars
  BY <1>a, <1>q, <1>3, <1>b
     DEF CountOngoing, Park, LeaveHandle, DropHandle, BreakConn, ReturnLen, Uncount, AfterUncount,
         CloseSocket, WakeDone, WakePCs, AfterWake, ErrOwned, NoFallback, At, OngoingPCs, local
\* Steps that PoolAbs sees.
<1>v. ASSUME NEW p \in Tasks, NEW l, Goto(p, l), UNCHANGED new
      PROVE  /\ (pc[p] \in OpeningPCs <=> l \in OpeningPCs) => AbsOpening' = AbsOpening
             /\ pc[p] \in OpeningPCs /\ l \notin OpeningPCs => AbsOpening' = AbsOpening - 1
             /\ pc[p] \notin OpeningPCs /\ l \in OpeningPCs => AbsOpening' = AbsOpening + 1
  <2>1. /\ (pc[p] \in OpeningPCs <=> l \in OpeningPCs) => Count(pc', OpeningPCs) = Count(pc, OpeningPCs)
        /\ pc[p] \in OpeningPCs /\ l \notin OpeningPCs
             => Count(pc', OpeningPCs) = Count(pc, OpeningPCs) - 1
        /\ pc[p] \notin OpeningPCs /\ l \in OpeningPCs
             => Count(pc', OpeningPCs) = Count(pc, OpeningPCs) + 1
    BY ONLY <1>a, <1>v, CountMove
  <2> QED
    BY ONLY <1>a, <1>b, <1>c, <1>v, <2>1
<1>4. ASSUME NEW p \in Tasks, Request(p) PROVE Abs!Request(p)
  <2>1. Goto(p, "pending") /\ pc[p] = "out" /\ UNCHANGED <<new, idle, first_err>>
    BY <1>4 DEF Request, local
  <2>2. /\ AbsPhase' = [AbsPhase EXCEPT ![p] = "waiting"] /\ AbsPhase[p] = "out"
        /\ AbsOpening' = AbsOpening
    BY <1>d, <1>v, <2>1
  <2>3. AbsFailed' = AbsFailed
    BY <1>a, <2>1 DEF AbsFailed, At, Goto
  <2> QED
    BY <2>1, <2>2, <2>3 DEF Abs!Request
<1>5. ASSUME NEW p \in Tasks, Cancel(p) PROVE Abs!Cancel(p)
  BY <1>a, <1>d, <1>v, <1>5 DEF Cancel, Abs!Cancel, AbsFailed, AbsPhase, At, Goto, local
<1>6. ASSUME NEW p \in Tasks, Reserve(p) PROVE Abs!Open(p) \/ UNCHANGED Abs!vars
  <2>1. CASE SlotFree
    <3>1. Goto(p, "enqueue") /\ pc[p] = "reserve" /\ UNCHANGED <<new, idle, first_err>>
      BY <1>6, <2>1 DEF Reserve, local
    <3>2. AbsPhase' = AbsPhase /\ AbsPhase[p] = "waiting" /\ AbsOpening' = AbsOpening + 1
      BY <1>d, <1>v, <3>1
    <3>3. AbsFailed' = AbsFailed
      BY <1>a, <3>1 DEF AbsFailed, At, Goto, ErrOwned
    <3> QED
      BY <2>1, <3>1, <3>2, <3>3, AbsTotal DEF SlotFree, Abs!Open
  <2>2. CASE ~SlotFree
    BY <1>a, <1>q, <1>6, <2>2 DEF Reserve, ErrOwned, local
  <2> QED
    BY <2>1, <2>2
<1>7. ASSUME NEW p \in Tasks, Store(p) PROVE Abs!Opened(p)
  <2>1. /\ Goto(p, "scan") /\ pc[p] = "store" /\ UNCHANGED <<new, first_err>> /\ idle' = idle + 1
    BY <1>a, <1>b, <1>7 DEF Store, NoFallback, At
  <2>2. AbsPhase' = AbsPhase /\ AbsPhase[p] = "waiting" /\ AbsOpening' = AbsOpening - 1
    BY <1>d, <1>v, <2>1
  <2>3. AbsOpening > 0
    <3>1. Count(pc, OpeningPCs) > 0
      BY <2>1, CountPositive
    <3> QED
      BY ONLY <1>a, <1>b, <1>c, <3>1
  <2>4. AbsFailed' = AbsFailed
    BY <1>a, <2>1 DEF AbsFailed, At, Goto
  <2> QED
    BY <2>1, <2>2, <2>3, <2>4 DEF Abs!Opened
<1>8. ASSUME NEW p \in Tasks, FailOpen(p) PROVE Abs!OpenFailed(p)
  <2>1. /\ Goto(p, "scan") /\ pc[p] = "fail_open" /\ UNCHANGED <<new, idle>>
        /\ first_err' = [first_err EXCEPT ![p] = TRUE]
    BY <1>8 DEF FailOpen
  <2>2. AbsPhase' = AbsPhase /\ AbsPhase[p] = "waiting" /\ AbsOpening' = AbsOpening - 1
    BY <1>d, <1>v, <2>1
  <2>3. AbsOpening > 0
    <3>1. Count(pc, OpeningPCs) > 0
      BY <2>1, CountPositive
    <3> QED
      BY ONLY <1>a, <1>b, <1>c, <3>1
  <2>4. AbsFailed' = AbsFailed \cup {p}
    BY <1>a, <2>1 DEF AbsFailed, At, Goto
  <2> QED
    BY <2>1, <2>2, <2>3, <2>4 DEF Abs!OpenFailed
<1>9. ASSUME NEW p \in Tasks, TakeConn(p) PROVE Abs!Grant(p) \/ UNCHANGED Abs!vars
  <2>1. CASE idle > 0
    <3>1. /\ Goto(p, "count") /\ pc[p] = "take" /\ UNCHANGED new /\ idle' = idle - 1
          /\ first_err' = [first_err EXCEPT ![p] = FALSE]
      BY <1>9, <2>1 DEF TakeConn
    <3>2. /\ AbsPhase' = [AbsPhase EXCEPT ![p] = "holding"] /\ AbsPhase[p] = "waiting"
          /\ AbsOpening' = AbsOpening
      BY <1>d, <1>v, <3>1
    <3>3. AbsFailed' = AbsFailed \ {p}
      BY <1>a, <3>1 DEF AbsFailed, At, Goto
    <3> QED
      BY <2>1, <3>1, <3>2, <3>3 DEF Abs!Grant
  <2>2. CASE ~(idle > 0)
    BY <1>a, <1>q, <1>9, <2>2 DEF TakeConn
  <2> QED
    BY <2>1, <2>2
<1>10. ASSUME NEW p \in Tasks, CheckErr(p) PROVE Abs!Refuse(p) \/ UNCHANGED Abs!vars
  <2>1. CASE first_err[p]
    <3>1. /\ Goto(p, "out") /\ pc[p] = "check_err" /\ UNCHANGED <<new, idle>>
          /\ first_err' = [first_err EXCEPT ![p] = FALSE]
      BY <1>10, <2>1 DEF CheckErr
    <3>2. /\ AbsPhase' = [AbsPhase EXCEPT ![p] = "out"] /\ AbsPhase[p] = "waiting"
          /\ AbsOpening' = AbsOpening
      BY <1>d, <1>v, <3>1
    <3>3. p \in AbsFailed /\ AbsFailed' = AbsFailed \ {p}
      BY <1>a, <2>1, <3>1 DEF AbsFailed, At, Goto
    <3> QED
      BY <3>1, <3>2, <3>3 DEF Abs!Refuse
  <2>2. CASE ~first_err[p]
    BY <1>a, <1>q, <1>10, <2>2 DEF CheckErr
  <2> QED
    BY <2>1, <2>2
<1>11. ASSUME NEW p \in Tasks, ReturnPush(p) PROVE Abs!Keep(p)
  <2>1. /\ Goto(p, "uncount_kept") /\ pc[p] = "ret_push" /\ UNCHANGED <<new, first_err>>
        /\ idle' = idle + 1
    BY <1>b, <1>11 DEF ReturnPush, NoFallback, At, local
  <2>2. /\ AbsPhase' = [AbsPhase EXCEPT ![p] = "out"] /\ AbsPhase[p] = "holding"
        /\ AbsOpening' = AbsOpening
    BY <1>d, <1>v, <2>1
  <2>3. AbsFailed' = AbsFailed
    BY <1>a, <2>1 DEF AbsFailed, At, Goto
  <2> QED
    BY <2>1, <2>2, <2>3 DEF Abs!Keep
<1>12. ASSUME NEW p \in Tasks, FreeSlot(p) PROVE Abs!Discard(p)
  <2>1. PICK l \in {"wake_closing", "wake_rel"} : Goto(p, l)
    BY <1>12 DEF FreeSlot
  <2>2. pc[p] \in {"free_slot", "rel_slot"} /\ UNCHANGED <<new, idle, first_err>>
    BY <1>12 DEF FreeSlot, local
  <2>3. /\ AbsPhase' = [AbsPhase EXCEPT ![p] = "out"] /\ AbsPhase[p] = "holding"
        /\ AbsOpening' = AbsOpening
    BY <1>d, <1>v, <2>1, <2>2
  <2>4. AbsFailed' = AbsFailed
    BY <1>a, <2>1, <2>2 DEF AbsFailed, At, Goto
  <2> QED
    BY <2>2, <2>3, <2>4 DEF Abs!Discard
<1>13. CASE Resolve
  <2>1. UNCHANGED <<idle, pc, first_err>> /\ Len(new') = Len(new)
    BY <1>a, <1>13 DEF Resolve, local
  <2> QED
    BY <1>c, <2>1 DEF Abs!vars, AbsPhase, AbsFailed, At
<1>14. CASE UNCHANGED vars
  BY <1>14 DEF vars, local, Abs!vars, AbsPhase, AbsOpening, AbsFailed, At
<1> QED
  BY <1>1, <1>2, <1>3, <1>4, <1>5, <1>6, <1>7, <1>8, <1>9, <1>10, <1>11, <1>12, <1>13, <1>14
     DEF Next, RunStep, PollStep, ReturnStep, Abs!Next

(* The lock-free pool keeps what PoolAbs promises: connections never       *)
(* exceed pool_max together, a grant hands over one spare connection to    *)
(* one caller, and a failed open refuses at most one caller, who drove it  *)
(* (src/pool/mod.rs, poll, return_conn and release_conn).                  *)
THEOREM PoolImplementsAbs == Spec => ImplementsAbs
<1>1. Init => ErrOwned
  BY DEF Init, ErrOwned
<1>2. IInv => TypeOK
  BY DEF IInv
<1>3. Spec => []ErrOwned
  BY <1>1, <1>2, SpecIInv, NextErrOwned, PTL DEF Spec
<1> QED
  BY <1>3, SpecIInv, InitImplements, NextImplements, PTL DEF Spec, ImplementsAbs, Abs!Spec

-----------------------------------------------------------------------------
(* No wake-up is lost on one thread.                                       *)

(* At most one task is inside a call.                                      *)
OneRuns == SingleThreaded => \A p, q \in At(PCs \ RestPCs) : p = q

(* A task that waits was scheduled, or left its waker in `tasks`.          *)
Parked == At({"pending"}) \subseteq woken \cup tasks

(* A task that is on its way to wake_tasks.                                *)
WillWake(r) == \/ pc[r] \in WakePCs \cup {"uncount_kept"}
               \/ pc[r] \in {"scan", "requeue", "store", "fail_open"} /\ wake_waiters[r]

(* If a waiter can be served, it has been scheduled or is about to be.     *)
Room       == idle > 0 \/ conn_slots < Max
RoomServed == Room => At({"pending"}) \subseteq woken \/ \E r \in Tasks : WillWake(r)

(* What a task saw on its way to park is still so when it parks.           *)
Looked == \A r \in Tasks : /\ pc[r] \in {"check_err", "reserve", "park"} => idle = 0
                           /\ pc[r] = "park" => conn_slots = Max

WakeInv == OneRuns /\ Parked /\ (SingleThreaded => RoomServed /\ Looked)

(* Init and every step keep OneRuns and Parked, on any executor.           *)
LEMMA NextOneRuns == TypeOK /\ OneRuns /\ [Next]_vars => OneRuns'
<1> SUFFICES ASSUME TypeOK, OneRuns, [Next]_vars, SingleThreaded
             PROVE  \A p, q \in At(PCs \ RestPCs)' : p = q
  BY RuntimeAssumption DEF OneRuns
<1> DEFINE Active == PCs \ RestPCs
<1>1. pc \in [Tasks -> PCs]
  BY DEF TypeOK
<1>2. ASSUME NEW p \in Tasks, NEW l, Goto(p, l), Runs(p) \/ pc[p] \in Active \/ l \in RestPCs
      PROVE  \A r, q \in At(Active)' : r = q
  <2>1. At(Active)' \subseteq At(Active) \cup {p}
    BY <1>1, <1>2 DEF At, Goto
  <2>2. CASE l \in RestPCs
    <3>1. At(Active)' \subseteq At(Active)
      BY <1>1, <1>2, <2>2 DEF At, Goto
    <3> QED
      BY <3>1 DEF OneRuns
  <2>3. CASE Runs(p) \/ pc[p] \in Active
    <3>1. At(Active) \subseteq {p}
      BY <2>3 DEF Runs, OneRuns, At
    <3> QED
      BY <2>1, <3>1
  <2> QED
    BY <1>2, <2>2, <2>3
<1>3. ASSUME UNCHANGED pc PROVE \A r, q \in At(Active)' : r = q
  BY <1>3 DEF OneRuns, At
<1> USE DEF PCs, RestPCs, PollPCs, ReturnPCs, BreakPCs
<1>4. ASSUME NEW p \in Tasks,
             \/ Request(p) \/ Cancel(p) \/ Nudge(p) \/ PollStart(p) \/ LeaveHandle(p)
      PROVE  \A r, q \in At(Active)' : r = q
  BY <1>2, <1>3, <1>4 DEF Request, Cancel, Nudge, PollStart, LeaveHandle, DropHandle, BreakConn
<1>5. ASSUME NEW p \in Tasks, PollStep(p)
      PROVE  \A r, q \in At(Active)' : r = q
  <2>1. pc[p] \in Active /\ \E l : Goto(p, l)
    BY <1>5 DEF PollStep, ScanPop, ScanDone, Requeue, Store, FailOpen, TakeConn, CountOngoing,
                CheckErr, Reserve, Enqueue, Park
  <2> QED
    BY <1>2, <2>1
<1>6. ASSUME NEW p \in Tasks, ReturnStep(p) \/ WakeOne(p) \/ WakeDone(p)
      PROVE  \A r, q \in At(Active)' : r = q
  <2>1. pc[p] \in Active /\ (UNCHANGED pc \/ \E l : Goto(p, l))
    BY <1>6 DEF ReturnStep, ReturnLen, ReturnPush, Uncount, FreeSlot, CloseSocket, WakeOne,
                WakeDone, WakePCs
  <2> QED
    BY <1>2, <1>3, <2>1
<1>7. CASE Resolve \/ UNCHANGED vars
  BY <1>3, <1>7 DEF Resolve, vars
<1> QED
  BY <1>4, <1>5, <1>6, <1>7 DEF Next, RunStep

(* Every step keeps a parked task where a wake will find it.               *)
LEMMA NextParked == TypeOK /\ NoFallback /\ Parked /\ [Next]_vars => Parked'
<1> SUFFICES ASSUME TypeOK, NoFallback, Parked, [Next]_vars PROVE Parked'
  OBVIOUS
<1>1. pc \in [Tasks -> PCs]
  BY DEF TypeOK
<1>2. ASSUME NEW p \in Tasks, NEW l, Goto(p, l), l = "pending" => p \in woken' \cup tasks',
             woken \ {p} \subseteq woken', tasks \subseteq tasks'
      PROVE  Parked'
  BY <1>1, <1>2 DEF Parked, At, Goto
<1>3. ASSUME UNCHANGED <<pc, tasks>>, woken \subseteq woken' PROVE Parked'
  BY <1>3 DEF Parked, At
<1>4. ASSUME NEW p \in Tasks,
             \/ Request(p) \/ Cancel(p) \/ Nudge(p) \/ PollStart(p) \/ LeaveHandle(p)
      PROVE  Parked'
  BY <1>2, <1>3, <1>4 DEF Request, Cancel, Nudge, PollStart, LeaveHandle, DropHandle, BreakConn
<1>5. ASSUME NEW p \in Tasks,
             \/ ScanPop(p) \/ ScanDone(p) \/ Requeue(p) \/ Store(p) \/ FailOpen(p)
             \/ CountOngoing(p) \/ Reserve(p) \/ TakeConn(p) \/ CheckErr(p)
      PROVE  Parked'
  <2>1. PICK l \in PCs \ {"pending"} : Goto(p, l)
    BY <1>5 DEF ScanPop, ScanDone, AfterScan, Requeue, Store, FailOpen, CountOngoing, Reserve,
                TakeConn, CheckErr, PCs, RestPCs, PollPCs
  <2>2. UNCHANGED tasks /\ woken \ {p} \subseteq woken'
    BY <1>5 DEF ScanPop, ScanDone, Requeue, Store, FailOpen, CountOngoing, Reserve,
                TakeConn, CheckErr
  <2> QED
    BY <1>2, <2>1, <2>2
<1>6. ASSUME NEW p \in Tasks, Enqueue(p) \/ Park(p) PROVE Parked'
  <2>1. CASE Enqueue(p)
    BY <1>1, <1>2, <2>1 DEF Enqueue, NoFallback, At, Woken, Awaiting, PollPCs
  <2>2. CASE Park(p)
    BY <1>2, <2>2 DEF Park
  <2> QED
    BY <1>6, <2>1, <2>2
<1>7. ASSUME NEW p \in Tasks, ReturnStep(p) \/ WakeDone(p) PROVE Parked'
  <2>1. PICK l \in PCs \ {"pending"} : Goto(p, l)
    BY <1>7 DEF ReturnStep, ReturnLen, ReturnPush, Uncount, AfterUncount, FreeSlot, CloseSocket,
                WakeDone, WakePCs, AfterWake, PCs, RestPCs, PollPCs, ReturnPCs, BreakPCs
  <2>2. UNCHANGED <<tasks, woken>>
    BY <1>7 DEF ReturnStep, ReturnLen, ReturnPush, Uncount, FreeSlot, CloseSocket, WakeDone
  <2> QED
    BY <1>2, <2>1, <2>2
<1>8. ASSUME NEW p \in Tasks, WakeOne(p) PROVE Parked'
  BY <1>8 DEF WakeOne, Parked, At, Woken, Awaiting
<1>9. CASE Resolve \/ UNCHANGED vars
  BY <1>3, <1>9 DEF Resolve, vars, Woken
<1> QED
  BY <1>4, <1>5, <1>6, <1>7, <1>8, <1>9 DEF Next, RunStep, PollStep


(* On one thread, a step that makes room is followed by wake_tasks, and    *)
(* what a task saw before it parks cannot change before it has parked.     *)
LEMMA NextRoomServed ==
  ASSUME SingleThreaded, IInv, WakeInv, [Next]_vars
  PROVE  RoomServed' /\ Looked'
<1>1. /\ pc \in [Tasks -> PCs] /\ idle \in Nat /\ conn_slots \in Nat /\ conn_slots <= Max
      /\ wake_waiters \in [Tasks -> BOOLEAN] /\ NoFallback /\ Max \in Nat
  BY IInvNoFallback, LimitsAssumption DEF IInv, TypeOK
<1>2. OneRuns /\ Parked /\ RoomServed /\ Looked
  BY DEF WakeInv
<1> DEFINE Active == PCs \ RestPCs
\* The three ways in which RoomServed is kept, and the one of Looked.
<1>a. ASSUME NEW p \in Tasks, NEW l, Goto(p, l), Room' => Room, woken \ {p} \subseteq woken',
             l = "pending" => p \in woken', WillWake(p) => WillWake(p)',
             \A r \in Tasks \ {p} : wake_waiters'[r] = wake_waiters[r]
      PROVE  RoomServed'
  BY <1>1, <1>2, <1>a DEF RoomServed, WillWake, At, Goto
<1>b. ASSUME NEW p \in Tasks, WillWake(p)' PROVE RoomServed'
  BY <1>b DEF RoomServed
<1>c. ASSUME NEW p \in Tasks, NEW l, Goto(p, l),
             UNCHANGED <<idle, conn_slots>> \/ pc[p] \in Active,
             l \in {"check_err", "reserve", "park"} => idle' = 0,
             l = "park" => conn_slots' = Max
      PROVE  Looked'
  <2>1. CASE UNCHANGED <<idle, conn_slots>>
    BY <1>1, <1>2, <1>c, <2>1 DEF Looked, Goto
  <2>2. CASE pc[p] \in Active
    <3>1. \A r \in Tasks \ {p} : pc[r] \in RestPCs /\ pc'[r] = pc[r]
      BY <1>1, <1>2, <1>c, <2>2 DEF OneRuns, At, Goto
    <3> QED
      BY <1>1, <1>c, <3>1 DEF Looked, Goto, RestPCs
  <2> QED
    BY <1>c, <2>1, <2>2
<1> USE DEF local, PCs, RestPCs, PollPCs, ReturnPCs, BreakPCs, WakePCs
<1>3. ASSUME NEW p \in Tasks,
             \/ Request(p) \/ Cancel(p) \/ PollStart(p) \/ LeaveHandle(p)
             \/ ReturnLen(p) \/ CloseSocket(p) \/ CountOngoing(p)
      PROVE  RoomServed' /\ Looked'
  <2>1. PICK l \in PCs : /\ Goto(p, l) /\ pc[p] \notin WakePCs \cup {"uncount_kept"}
                         /\ pc[p] \notin {"scan", "requeue", "store", "fail_open"}
                         /\ l \notin {"check_err", "reserve", "park"}
                         /\ l = "pending" => p \in woken'
    BY <1>3 DEF Request, Cancel, PollStart, LeaveHandle, DropHandle, BreakConn, ReturnLen,
                CloseSocket, CountOngoing
  <2>2. UNCHANGED <<idle, conn_slots, wake_waiters>> /\ woken \ {p} \subseteq woken'
    BY <1>3 DEF Request, Cancel, PollStart, LeaveHandle, DropHandle, BreakConn, ReturnLen,
                CloseSocket, CountOngoing
  <2> QED
    BY <1>a, <1>c, <2>1, <2>2 DEF WillWake, Room
<1>4. ASSUME NEW p \in Tasks, ScanPop(p) \/ ScanDone(p) \/ Requeue(p)
      PROVE  RoomServed' /\ Looked'
  <2>1. PICK l \in {"requeue", "store", "fail_open", "wake_hf", "take", "scan"} :
          /\ Goto(p, l) /\ pc[p] \in {"scan", "requeue"}
          /\ l \notin {"wake_hf", "take"} => wake_waiters' = wake_waiters
          /\ l = "take" => ~wake_waiters[p] /\ wake_waiters' = [wake_waiters EXCEPT ![p] = FALSE]
    BY <1>1, <1>4 DEF ScanPop, ScanDone, AfterScan, Requeue, NoFallback, At
  <2>2. UNCHANGED <<idle, conn_slots, woken>>
    BY <1>1, <1>4 DEF ScanPop, ScanDone, Requeue, NoFallback, At
  <2>3. pc'[p] = l
    BY <1>1, <2>1 DEF Goto
  <2>4. RoomServed'
    <3>1. CASE l = "wake_hf"
      BY <1>b, <2>3, <3>1 DEF WillWake
    <3>2. CASE l # "wake_hf"
      BY <1>1, <1>a, <2>1, <2>2, <2>3, <3>2 DEF WillWake, Room
    <3> QED
      BY <3>1, <3>2
  <2> QED
    BY <1>c, <2>1, <2>2, <2>4
<1>5. ASSUME NEW p \in Tasks, Store(p) \/ FailOpen(p) \/ ReturnPush(p) \/ FreeSlot(p)
      PROVE  RoomServed' /\ Looked'
  <2>1. PICK l \in {"scan", "uncount_kept", "wake_closing", "wake_rel"} :
          /\ Goto(p, l) /\ pc[p] \in Active
          /\ l = "scan" => wake_waiters' = [wake_waiters EXCEPT ![p] = TRUE]
    BY <1>1, <1>5 DEF Store, FailOpen, ReturnPush, FreeSlot, NoFallback, At
  <2>2. WillWake(p)'
    BY <1>1, <2>1 DEF WillWake, Goto
  <2> QED
    BY <1>b, <1>c, <2>1, <2>2
<1>6. ASSUME NEW p \in Tasks, Uncount(p) PROVE RoomServed' /\ Looked'
  <2>1. PICK l \in {"wake_kept", "free_slot", "rel_slot"} :
          /\ Goto(p, l) /\ pc[p] \in {"uncount_kept", "ret_drop", "rel"}
          /\ (pc[p] = "uncount_kept" => l = "wake_kept")
    BY <1>6 DEF Uncount, AfterUncount
  <2>2. UNCHANGED <<idle, conn_slots, woken, wake_waiters>> /\ pc'[p] = l
    BY <1>1, <1>6, <2>1 DEF Uncount, Goto
  <2>3. WillWake(p) => WillWake(p)'
    BY <2>1, <2>2 DEF WillWake
  <2> QED
    BY <1>a, <1>c, <2>1, <2>2, <2>3 DEF Room
<1>7. ASSUME NEW p \in Tasks, WakeOne(p) PROVE RoomServed' /\ Looked'
  <2>1. WillWake(p)'
    BY <1>7 DEF WakeOne, WillWake
  <2> QED
    BY <1>2, <1>7, <1>b, <2>1 DEF WakeOne, Looked
<1>8. ASSUME NEW p \in Tasks, WakeDone(p) PROVE RoomServed' /\ Looked'
  <2>1. PICK l \in {"take", "closing", "out"} : Goto(p, l)
    BY <1>8 DEF WakeDone, AfterWake
  <2>2. At({"pending"})' \subseteq woken'
    BY <1>1, <1>2, <1>8, <2>1 DEF WakeDone, Parked, At, Goto
  <2> QED
    BY <1>8, <1>c, <2>1, <2>2 DEF WakeDone, RoomServed
<1>9. ASSUME NEW p \in Tasks, TakeConn(p) PROVE RoomServed' /\ Looked'
  <2>1. /\ pc[p] = "take" /\ woken \ {p} \subseteq woken' /\ UNCHANGED <<conn_slots, wake_waiters>>
        /\ idle' > 0 => idle > 0
    BY <1>1, <1>9 DEF TakeConn
  <2>2. PICK l \in {"count", "check_err"} : Goto(p, l) /\ (l = "check_err" => idle' = 0)
    BY <1>1, <1>9 DEF TakeConn
  <2> QED
    BY <1>a, <1>c, <2>1, <2>2 DEF WillWake, Room
<1>10. ASSUME NEW p \in Tasks, CheckErr(p) PROVE RoomServed' /\ Looked'
  <2>1. /\ pc[p] = "check_err" /\ woken \ {p} \subseteq woken'
        /\ UNCHANGED <<idle, conn_slots, wake_waiters>>
    BY <1>10 DEF CheckErr
  <2>2. PICK l \in {"out", "reserve"} : Goto(p, l)
    BY <1>10 DEF CheckErr
  <2> QED
    BY <1>2, <1>a, <1>c, <2>1, <2>2 DEF WillWake, Room, Looked
<1>11. ASSUME NEW p \in Tasks, Reserve(p) PROVE RoomServed' /\ Looked'
  <2>1. /\ pc[p] = "reserve" /\ UNCHANGED <<idle, woken, wake_waiters>>
        /\ conn_slots' < Max => conn_slots < Max
    BY <1>1, <1>11 DEF Reserve, SlotFree
  <2>2. PICK l \in {"enqueue", "park"} : Goto(p, l) /\ (l = "park" => conn_slots' = Max)
    BY <1>1, <1>11 DEF Reserve, SlotFree
  <2> QED
    BY <1>2, <1>a, <1>c, <2>1, <2>2 DEF WillWake, Room, Looked
<1>12. ASSUME NEW p \in Tasks, Enqueue(p) PROVE RoomServed' /\ Looked'
  <2>1. /\ pc[p] = "enqueue" /\ Goto(p, "pending") /\ woken' = Woken({p})
        /\ UNCHANGED <<idle, conn_slots, wake_waiters>>
    BY <1>1, <1>12 DEF Enqueue, NoFallback, At
  <2>2. p \in woken' /\ woken \subseteq woken'
    BY <2>1 DEF Woken, Awaiting, At
  <2> QED
    BY <1>a, <1>c, <2>1, <2>2 DEF WillWake, Room
<1>13. ASSUME NEW p \in Tasks, Park(p) PROVE RoomServed' /\ Looked'
  <2>1. pc[p] = "park" /\ Goto(p, "pending") /\ UNCHANGED <<idle, conn_slots>>
    BY <1>13 DEF Park
  <2>2. ~Room'
    BY <1>1, <1>2, <2>1 DEF Looked, Room
  <2> QED
    BY <1>c, <2>1, <2>2 DEF RoomServed
<1>14. ASSUME NEW p \in Tasks, Nudge(p) PROVE RoomServed' /\ Looked'
  BY <1>2, <1>14 DEF Nudge, RoomServed, Looked, Room, At, WillWake
<1>15. CASE Resolve
  <2>1. UNCHANGED <<idle, conn_slots, pc, wake_waiters>> /\ woken \subseteq woken'
    BY <1>15 DEF Resolve, Woken
  <2> QED
    BY <1>2, <2>1 DEF RoomServed, Looked, Room, At, WillWake
<1>16. CASE UNCHANGED vars
  BY <1>2, <1>16 DEF vars, RoomServed, Looked, Room, At, WillWake
<1> QED
  BY <1>3, <1>4, <1>5, <1>6, <1>7, <1>8, <1>9, <1>10, <1>11, <1>12, <1>13, <1>14, <1>15, <1>16
     DEF Next, RunStep, PollStep, ReturnStep

(* On a current-thread runtime a task that could be served is scheduled    *)
(* whenever no task is inside a call of the pool, however polls, returns,  *)
(* broken connections and dropped futures follow each other (wake_tasks in *)
(* src/pool/mod.rs).  With several threads it is not so: see README.md.    *)
THEOREM PoolNoStranded == Spec => []NoStranded
<1>1. Init => WakeInv
  BY DEF Init, WakeInv, OneRuns, Parked, RoomServed, Looked, Room, At, PCs, RestPCs
<1>2. IInv /\ WakeInv /\ [Next]_vars => WakeInv'
  <2> SUFFICES ASSUME IInv, WakeInv, [Next]_vars PROVE WakeInv'
    OBVIOUS
  <2>1. TypeOK /\ NoFallback
    BY IInvNoFallback DEF IInv
  <2>2. OneRuns' /\ Parked'
    BY <2>1, NextOneRuns, NextParked DEF WakeInv
  <2>3. SingleThreaded => RoomServed' /\ Looked'
    BY NextRoomServed
  <2> QED
    BY <2>2, <2>3 DEF WakeInv
<1>3. WakeInv => NoStranded
  <2> SUFFICES ASSUME WakeInv, SingleThreaded, AtRest, Room PROVE At({"pending"}) \subseteq woken
    BY DEF NoStranded, Room
  <2>1. \A r \in Tasks : ~WillWake(r)
    BY DEF AtRest, At, WillWake, WakePCs, RestPCs
  <2> QED
    BY <2>1 DEF WakeInv, RoomServed
<1> QED
  BY <1>1, <1>2, <1>3, SpecIInv, PTL DEF Spec

=============================================================================
