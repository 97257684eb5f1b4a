--------------------------- MODULE TSQueueProofs ---------------------------
(***************************************************************************)
(* Type correctness of the queue, mutual exclusion on the deque and the    *)
(* absence of a lock cycle, for any number of threads, any items and any   *)
(* length. The inductive invariant adds to the types who holds which mutex *)
(* (LocksHeld), that a push which has not inserted yet carries an item and *)
(* that only wait() sleeps and only a push notifies.                       *)
(***************************************************************************)
EXTENDS TSQueue, SequenceTheorems, TLAPS

WaitLabels == {"park", "parked", "asleep", "awake", "resumed"}

ArgsOK ==
  \A t \in Threads :
    /\ pc[t] \in {"lock", "locked"} /\ op[t] \in Pushes => item[t] \in Items
    /\ pc[t] \in WaitLabels => op[t] = "wait"
    /\ pc[t] \in {"notify", "notified"} => op[t] \in Pushes

QueueInv == QueueTypeOK /\ LocksHeld /\ ArgsOK

\* A call as the class allows it: a push with an item, anything else without.
LegalCall(t) ==
  \/ \E o \in Pushes, i \in Items : Call(t, o, i)
  \/ \E o \in Ops \ Pushes : Call(t, o, NoItem)

\* The steps of the queue without the bound on its length.
QueueStepOf(t) == LegalCall(t) \/ Progress(t) \/ SpuriousWakeup(t)

LEMMA QueueInvInit == QueueInit => QueueInv
BY TSQueueAssumption DEF QueueInit, QueueInv, QueueTypeOK, LocksHeld, ArgsOK,
   HoldsQueue, HoldsBlocking, WaitLabels, Labels, Ops, Pushes, Pops

\* Every step of any thread keeps the invariant.
LEMMA QueueInvStep ==
  ASSUME QueueInv, NEW t \in Threads, QueueStepOf(t)
  PROVE  QueueInv'
<1> USE TSQueueAssumption DEF QueueInv, QueueTypeOK, LocksHeld, ArgsOK,
        HoldsQueue, HoldsBlocking, WaitLabels, Labels, Ops, Pushes, Pops, Goto, Unlocked
<1>1. CASE \E o \in Pushes, i \in Items : Call(t, o, i)
  BY <1>1 DEF Call
<1>2. CASE \E o \in Ops \ Pushes : Call(t, o, NoItem)
  BY <1>2 DEF Call
<1>3. CASE LockQueue(t)
  BY <1>3 DEF LockQueue
<1>4. CASE Insert(t)
  <2>1. item[t] \in Items /\ <<item[t]>> \in Seq(Items)
    BY <1>4 DEF Insert
  <2>2. Append(deqQueue, item[t]) \in Seq(Items)
    BY <2>1, AppendProperties
  <2>3. <<item[t]>> \o deqQueue \in Seq(Items)
    BY <2>1, ConcatProperties
  <2>4. deqQueue' \in Seq(Items)
    BY <1>4, <2>2, <2>3 DEF Insert
  <2>. QED BY <1>4, <2>4 DEF Insert
<1>5. CASE NotifyOne(t)
  BY <1>5 DEF NotifyOne, Sleepers
<1>6. CASE ReturnFromPush(t)
  BY <1>6 DEF ReturnFromPush
<1>7. CASE Pop(t)
  <2>1. deqQueue # <<>> /\ Len(deqQueue) \in Nat \ {0}
    BY <1>7, EmptySeq DEF Pop
  <2>2. Head(deqQueue) \in Items /\ Tail(deqQueue) \in Seq(Items)
    BY <2>1, HeadTailProperties
  <2>3. deqQueue[Len(deqQueue)] \in Items
    BY <2>1, ElementOfSeq
  <2>4. SubSeq(deqQueue, 1, Len(deqQueue) - 1) \in Seq(Items)
    BY <2>1, SubSeqProperties, ElementOfSeq
  <2>5. deqQueue' \in Seq(Items) /\ item' \in [Threads -> Items \cup {NoItem}]
    BY <1>7, <2>2, <2>3, <2>4 DEF Pop
  <2>. QED BY <1>7, <2>5 DEF Pop
<1>8. CASE Empty(t)
  BY <1>8 DEF Empty
<1>9. CASE Clear(t)
  BY <1>9 DEF Clear
<1>10. CASE WaitTest(t)
  BY <1>10 DEF WaitTest
<1>11. CASE Park(t) \/ Resume(t)
  BY <1>11 DEF Park, Resume, LockBlocking
<1>12. CASE Sleep(t) \/ Retest(t)
  BY <1>12 DEF Sleep, Retest, UnlockBlocking
<1>13. CASE SpuriousWakeup(t)
  BY <1>13 DEF SpuriousWakeup
<1>. HIDE DEF QueueInv
<1>. QED
  BY ONLY QueueStepOf(t), <1>1, <1>2, <1>3, <1>4, <1>5, <1>6, <1>7, <1>8, <1>9, <1>10, <1>11, <1>12, <1>13
  DEF QueueStepOf, LegalCall, Progress, Continue

LEMMA QueueInvUnchanged == QueueInv /\ UNCHANGED queueVars => QueueInv'
BY DEF QueueInv, QueueTypeOK, LocksHeld, ArgsOK, queueVars

\* The invariant of the queue alone, whatever its threads call.
LEMMA QueueInvariant == QueueSpec => []QueueInv
<1>1. QueueInv /\ [QueueNext]_queueVars => QueueInv'
  <2> SUFFICES ASSUME QueueInv, [QueueNext]_queueVars PROVE QueueInv'
    OBVIOUS
  <2>1. ASSUME NEW t \in Threads, AnyCall(t) \/ Progress(t) \/ SpuriousWakeup(t)
        PROVE  QueueInv'
    BY <2>1, QueueInvStep DEF AnyCall, QueueStepOf, LegalCall
  <2>2. CASE UNCHANGED queueVars
    BY <2>2, QueueInvUnchanged
  <2>. QED BY <2>1, <2>2 DEF QueueNext
<1>. QED BY <1>1, QueueInvInit, PTL DEF QueueSpec

-----------------------------------------------------------------------------
\* The variables of the queue keep their types (net_tsqueue.h:100-104).
THEOREM QueueTypeCorrect == QueueSpec => []QueueTypeOK
BY QueueInvariant, PTL DEF QueueInv

LEMMA LocksGiveExclusion == LocksHeld => NoDataRace /\ NoLockCycle
BY DEF LocksHeld, NoDataRace, NoLockCycle, HoldsQueue, HoldsBlocking

\* muxQueue keeps any two threads from being inside the deque at once
\* (the scoped_lock every member of net_tsqueue.h begins with).
THEOREM QueueDataRaceFree == QueueSpec => []NoDataRace
<1>1. QueueInv => NoDataRace
  BY LocksGiveExclusion DEF QueueInv
<1>. QED BY <1>1, QueueInvariant, PTL

\* muxBlocking is never held by a thread that goes on to lock muxQueue, the
\* order opposite to that of push_back (net_tsqueue.h:50-57 and 90-98).
THEOREM QueueLockOrder == QueueSpec => []NoLockCycle
<1>1. QueueInv => NoLockCycle
  BY LocksGiveExclusion DEF QueueInv
<1>. QED BY <1>1, QueueInvariant, PTL

-----------------------------------------------------------------------------
(* The queue as an atomic one. A step of the mutexes or of the condition   *)
(* variable is a stutter there; the effect of a call is one step.          *)

Settled == {"ready", "notify", "notified"}

Pending == [t \in Threads |-> IF pc[t] \in Settled THEN "none" ELSE op[t]]

\* A thread that stays inside its call, or stays outside of any effect.
LEMMA PendingSame ==
  ASSUME QueueInv, NEW t \in Threads, NEW label, Goto(t, label), UNCHANGED op,
         pc[t] \in Settled <=> label \in Settled
  PROVE  Pending' = Pending
BY DEF Pending, Goto, QueueInv, QueueTypeOK

\* A thread whose call takes effect.
LEMMA PendingDone ==
  ASSUME QueueInv, NEW t \in Threads, NEW label \in Settled, Goto(t, label),
         UNCHANGED op, pc[t] = "locked"
  PROVE  Pending[t] = op[t] /\ Pending' = [Pending EXCEPT ![t] = "none"]
BY DEF Pending, Settled, Goto, QueueInv, QueueTypeOK

\* A thread that calls a member function.
LEMMA PendingCall ==
  ASSUME QueueInv, NEW t \in Threads, NEW o, NEW i, Call(t, o, i)
  PROVE  Pending[t] = "none" /\ Pending' = [Pending EXCEPT ![t] = o]
BY DEF Pending, Settled, Call, Goto, QueueInv, QueueTypeOK

\* The steps of the mutexes and the condition variable change nothing that is
\* promised.
LEMMA LockStepsStutter ==
  ASSUME QueueInv, NEW t \in Threads,
         \/ LockQueue(t) \/ NotifyOne(t) \/ ReturnFromPush(t)
         \/ WaitTest(t) /\ deqQueue = <<>>
         \/ Park(t) \/ Sleep(t) \/ Resume(t) \/ Retest(t) \/ SpuriousWakeup(t)
  PROVE  Pending' = Pending /\ UNCHANGED <<deqQueue, item, isEmpty>>
<1>1. CASE NotifyOne(t)
  BY <1>1 DEF NotifyOne, Sleepers, Goto, Pending, Settled, QueueInv, QueueTypeOK
<1>2. CASE LockQueue(t) \/ ReturnFromPush(t)
  BY <1>2, PendingSame DEF LockQueue, ReturnFromPush, Settled
<1>3. CASE WaitTest(t) /\ deqQueue = <<>>
  BY <1>3, PendingSame DEF WaitTest, Unlocked, Settled
<1>4. CASE Park(t) \/ Sleep(t) \/ Resume(t) \/ Retest(t)
  BY <1>4, PendingSame DEF Park, Sleep, Resume, Retest, LockBlocking, UnlockBlocking, Settled
<1>5. CASE SpuriousWakeup(t)
  BY <1>5, PendingSame DEF SpuriousWakeup, Settled
<1>. QED BY <1>1, <1>2, <1>3, <1>4, <1>5

\* Every step of a thread is a step of the atomic queue or a stutter.
LEMMA AtomicStep ==
  ASSUME QueueInv, NEW t \in Threads, QueueStepOf(t)
  PROVE  [Atomic!AtomicNext]_Atomic!atomicVars
<1>p. /\ Pending = [u \in Threads |->
                      IF pc[u] \in {"ready", "notify", "notified"} THEN "none" ELSE op[u]]
      /\ Pending' = [u \in Threads |->
                       IF pc'[u] \in {"ready", "notify", "notified"} THEN "none" ELSE op'[u]]
  BY DEF Pending, Settled
<1>s. Pending' = Pending /\ UNCHANGED <<deqQueue, item, isEmpty>>
        => UNCHANGED Atomic!atomicVars
  BY <1>p DEF Atomic!atomicVars
<1>1. ASSUME NEW o \in Ops, NEW i \in Items \cup {NoItem}, Call(t, o, i),
             o \in Pushes => i \in Items, o \notin Pushes => i = NoItem
      PROVE  Atomic!AtomicNext
  <2>1. /\ Pending[t] = "none" /\ Pending' = [Pending EXCEPT ![t] = o]
        /\ item' = [item EXCEPT ![t] = i] /\ UNCHANGED <<deqQueue, isEmpty>>
    BY <1>1, PendingCall DEF Call
  <2>2. Atomic!Invoke(t, o, i)
    BY <1>p, <2>1 DEF Atomic!Invoke
  <2>. QED BY <1>1, <2>2
       DEF Atomic!AtomicNext, Atomic!Puts, Atomic!Others, Ops, Pushes, Pops
<1>2. CASE Insert(t)
  <2>1. Pending[t] = op[t] /\ Pending' = [Pending EXCEPT ![t] = "none"]
    BY <1>2, PendingDone DEF Insert, Settled
  <2>2. Atomic!Put(t)
    BY <1>2, <1>p, <2>1 DEF Insert, Atomic!Put, Atomic!Effect
  <2>. QED BY <2>2 DEF Atomic!AtomicNext
<1>3. CASE Pop(t)
  <2>1. Pending[t] = op[t] /\ Pending' = [Pending EXCEPT ![t] = "none"]
    BY <1>3, PendingDone DEF Pop, Unlocked, Settled
  <2>2. Atomic!Take(t)
    BY <1>3, <1>p, <2>1 DEF Pop, Atomic!Take, Atomic!Effect
  <2>. QED BY <2>2 DEF Atomic!AtomicNext
<1>4. CASE Empty(t)
  <2>1. Pending[t] = op[t] /\ Pending' = [Pending EXCEPT ![t] = "none"]
    BY <1>4, PendingDone DEF Empty, Unlocked, Settled
  <2>2. Atomic!Look(t)
    BY <1>4, <1>p, <2>1 DEF Empty, Atomic!Look, Atomic!Effect
  <2>. QED BY <2>2 DEF Atomic!AtomicNext
<1>5. CASE Clear(t)
  <2>1. Pending[t] = op[t] /\ Pending' = [Pending EXCEPT ![t] = "none"]
    BY <1>5, PendingDone DEF Clear, Unlocked, Settled
  <2>2. Atomic!Discard(t)
    BY <1>5, <1>p, <2>1 DEF Clear, Atomic!Discard, Atomic!Effect
  <2>. QED BY <2>2 DEF Atomic!AtomicNext
<1>6. CASE WaitTest(t) /\ deqQueue # <<>>
  <2>1. Pending[t] = op[t] /\ Pending' = [Pending EXCEPT ![t] = "none"]
    BY <1>6, PendingDone DEF WaitTest, Unlocked, Settled
  <2>2. Atomic!Wait(t)
    BY <1>6, <1>p, <2>1 DEF WaitTest, Atomic!Wait, Atomic!Effect
  <2>. QED BY <2>2 DEF Atomic!AtomicNext
<1>7. CASE \/ LockQueue(t) \/ NotifyOne(t) \/ ReturnFromPush(t)
           \/ WaitTest(t) /\ deqQueue = <<>>
           \/ Park(t) \/ Sleep(t) \/ Resume(t) \/ Retest(t) \/ SpuriousWakeup(t)
  BY <1>7, <1>s, LockStepsStutter
<1>8. CASE LegalCall(t)
  BY <1>1, <1>8 DEF LegalCall, Ops
<1>. QED BY <1>2, <1>3, <1>4, <1>5, <1>6, <1>7, <1>8
     DEF QueueStepOf, Progress, Continue

\* The queue starts as the atomic one does.
LEMMA AtomicStart == QueueInit => Atomic!AtomicInit
BY DEF QueueInit, Atomic!AtomicInit

\* A stutter of the queue is one of the atomic queue.
LEMMA AtomicStutter == UNCHANGED queueVars => UNCHANGED Atomic!atomicVars
BY DEF queueVars, Atomic!atomicVars

\* The mutexes and the condition variable make the queue an atomic one: each
\* call takes effect once, and wait() returns only when it is not empty
\* (net_tsqueue.h:32-98).
THEOREM QueueIsLinearizable == QueueSpec => Linearizable
<1>1. QueueInv /\ [QueueNext]_queueVars => [Atomic!AtomicNext]_Atomic!atomicVars
  <2> SUFFICES ASSUME QueueInv, [QueueNext]_queueVars
               PROVE  [Atomic!AtomicNext]_Atomic!atomicVars
    OBVIOUS
  <2>1. ASSUME NEW t \in Threads, AnyCall(t) \/ Progress(t) \/ SpuriousWakeup(t)
        PROVE  [Atomic!AtomicNext]_Atomic!atomicVars
    BY <2>1, AtomicStep DEF AnyCall, QueueStepOf, LegalCall
  <2>2. CASE UNCHANGED queueVars
    BY <2>2, AtomicStutter
  <2>. QED BY <2>1, <2>2 DEF QueueNext
<1>. QED BY <1>1, AtomicStart, QueueInvariant, PTL
     DEF QueueSpec, Linearizable, Atomic!AtomicSpec
=============================================================================
