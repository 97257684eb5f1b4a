------------------------------ MODULE TSQueue ------------------------------
(***************************************************************************)
(* tsqueue<T> of server/include/net_tsqueue.h: a std::deque guarded by     *)
(* muxQueue, with a condition variable cvBlocking, guarded by muxBlocking, *)
(* on which wait() sleeps while the queue is empty.                        *)
(*                                                                         *)
(* Each thread runs one member function at a time; pc says where it is:    *)
(*                                                                         *)
(*   ready      in no call                                                 *)
(*   lock       about to lock muxQueue                                     *)
(*   locked     holds muxQueue, about to touch deqQueue                    *)
(*   notify     has inserted, still holds muxQueue, about to lock          *)
(*              muxBlocking and notify                                     *)
(*   notified   has notified, holds both mutexes, about to return          *)
(*   park       wait() saw an empty queue and has released muxQueue        *)
(*   parked     holds muxBlocking, about to sleep on cvBlocking            *)
(*   asleep     sleeps on cvBlocking, holds nothing                        *)
(*   awake      woken, about to lock muxBlocking again                     *)
(*   resumed    cvBlocking.wait has returned, holds muxBlocking            *)
(*                                                                         *)
(* The read-only front(), back() and count() are left out: they change     *)
(* nothing and no caller depends on their value across threads.            *)
(***************************************************************************)
EXTENDS Naturals, Sequences

CONSTANTS Threads,    \* the threads that share the queue
          Items,      \* what can be queued
          NoThread,   \* the owner of a free mutex
          NoItem,     \* the argument or result of a call that has none
          MaxLen      \* bound: no push starts on a queue this long

ASSUME TSQueueAssumption == /\ NoThread \notin Threads
                            /\ NoItem \notin Items
                            /\ MaxLen \in Nat

VARIABLES
  deqQueue,     \* the items, front first
  muxQueue,     \* the thread that holds muxQueue, or NoThread
  muxBlocking,  \* the thread that holds muxBlocking, or NoThread
  pc,           \* where each thread is
  op,           \* the member function each thread called last
  item,         \* the item it passes in, or the one a pop returned
  isEmpty       \* what its last empty() returned

queueVars == <<deqQueue, muxQueue, muxBlocking, pc, op, item, isEmpty>>

Pushes == {"push_back", "push_front"}
Pops   == {"pop_front", "pop_back"}
Ops    == Pushes \cup Pops \cup {"empty", "clear", "wait"}

Labels == {"ready", "lock", "locked", "notify", "notified",
           "park", "parked", "asleep", "awake", "resumed"}

HoldsQueue    == {"locked", "notify", "notified"}
HoldsBlocking == {"notified", "parked", "resumed"}

Goto(t, label) == pc' = [pc EXCEPT ![t] = label]

QueueInit ==
  /\ deqQueue = <<>>
  /\ muxQueue = NoThread
  /\ muxBlocking = NoThread
  /\ pc = [t \in Threads |-> "ready"]
  /\ op = [t \in Threads |-> "clear"]
  /\ item = [t \in Threads |-> NoItem]
  /\ isEmpty = [t \in Threads |-> TRUE]

-----------------------------------------------------------------------------
(* Calls. Every member function but wait() begins by locking muxQueue;     *)
(* wait() begins with empty(), which does.                                 *)

Call(t, o, i) ==
  /\ pc[t] = "ready"
  /\ op' = [op EXCEPT ![t] = o]
  /\ item' = [item EXCEPT ![t] = i]
  /\ Goto(t, "lock")
  /\ UNCHANGED <<deqQueue, muxQueue, muxBlocking, isEmpty>>

\* Mutant: no scoped_lock on muxQueue.
EnterUnlocked(t) ==
  /\ pc[t] = "lock"
  /\ muxQueue' = t
  /\ Goto(t, "locked")
  /\ UNCHANGED <<deqQueue, muxBlocking, op, item, isEmpty>>

LockQueue(t) ==
  /\ pc[t] = "lock"
  /\ muxQueue = NoThread
  /\ muxQueue' = t
  /\ Goto(t, "locked")
  /\ UNCHANGED <<deqQueue, muxBlocking, op, item, isEmpty>>

-----------------------------------------------------------------------------
(* push_back and push_front: insert, then notify_one under muxBlocking,    *)
(* both while muxQueue is still held.                                      *)

\* Mutant: the item is moved from twice and an empty one is queued.
InsertMovedFrom(t) ==
  /\ pc[t] = "locked"
  /\ op[t] \in Pushes
  /\ deqQueue' = Append(deqQueue, NoItem)
  /\ Goto(t, "notify")
  /\ UNCHANGED <<muxQueue, muxBlocking, op, item, isEmpty>>

\* Mutant: push_back puts the item in front.
InsertAtFront(t) ==
  /\ pc[t] = "locked"
  /\ op[t] \in Pushes
  /\ deqQueue' = <<item[t]>> \o deqQueue
  /\ Goto(t, "notify")
  /\ UNCHANGED <<muxQueue, muxBlocking, op, item, isEmpty>>

Insert(t) ==
  /\ pc[t] = "locked"
  /\ \/ op[t] = "push_back"  /\ deqQueue' = Append(deqQueue, item[t])
     \/ op[t] = "push_front" /\ deqQueue' = <<item[t]>> \o deqQueue
  /\ Goto(t, "notify")
  /\ UNCHANGED <<muxQueue, muxBlocking, op, item, isEmpty>>

Sleepers == {t \in Threads : pc[t] = "asleep"}

\* Mutant: push_back never calls notify_one.
NotifyNobody(t) ==
  /\ pc[t] = "notify"
  /\ muxBlocking = NoThread
  /\ muxBlocking' = t
  /\ Goto(t, "notified")
  /\ UNCHANGED <<deqQueue, muxQueue, op, item, isEmpty>>

\* notify_one wakes one sleeper, any of them, and is lost when there is none.
NotifyOne(t) ==
  /\ pc[t] = "notify"
  /\ muxBlocking = NoThread
  /\ muxBlocking' = t
  /\ \/ /\ Sleepers = {}
        /\ Goto(t, "notified")
     \/ \E s \in Sleepers :
          pc' = [pc EXCEPT ![t] = "notified", ![s] = "awake"]
  /\ UNCHANGED <<deqQueue, muxQueue, op, item, isEmpty>>

\* The scoped locks are released on return, muxBlocking first.
ReturnFromPush(t) ==
  /\ pc[t] = "notified"
  /\ muxBlocking' = NoThread
  /\ muxQueue' = NoThread
  /\ Goto(t, "ready")
  /\ UNCHANGED <<deqQueue, op, item, isEmpty>>

-----------------------------------------------------------------------------
(* The other members release muxQueue as they return.                      *)

Unlocked(t, label) == muxQueue' = NoThread /\ Goto(t, label)

\* std::deque leaves a pop from an empty deque undefined: no step is given
\* for it, and Undefined names the states in which a thread runs into it.
Undefined(t) == pc[t] = "locked" /\ op[t] \in Pops /\ deqQueue = <<>>

Pop(t) ==
  /\ pc[t] = "locked"
  /\ deqQueue # <<>>
  /\ \/ /\ op[t] = "pop_front"
        /\ item' = [item EXCEPT ![t] = Head(deqQueue)]
        /\ deqQueue' = Tail(deqQueue)
     \/ /\ op[t] = "pop_back"
        /\ item' = [item EXCEPT ![t] = deqQueue[Len(deqQueue)]]
        /\ deqQueue' = SubSeq(deqQueue, 1, Len(deqQueue) - 1)
  /\ Unlocked(t, "ready")
  /\ UNCHANGED <<muxBlocking, op, isEmpty>>

Empty(t) ==
  /\ pc[t] = "locked"
  /\ op[t] = "empty"
  /\ isEmpty' = [isEmpty EXCEPT ![t] = (deqQueue = <<>>)]
  /\ Unlocked(t, "ready")
  /\ UNCHANGED <<deqQueue, muxBlocking, op, item>>

Clear(t) ==
  /\ pc[t] = "locked"
  /\ op[t] = "clear"
  /\ deqQueue' = <<>>
  /\ Unlocked(t, "ready")
  /\ UNCHANGED <<muxBlocking, op, item, isEmpty>>

-----------------------------------------------------------------------------
(* wait(): while (empty()) { lock muxBlocking; cvBlocking.wait(); }        *)

WaitTest(t) ==
  /\ pc[t] = "locked"
  /\ op[t] = "wait"
  /\ \/ deqQueue = <<>> /\ Unlocked(t, "park")
     \/ deqQueue # <<>> /\ Unlocked(t, "ready")
  /\ UNCHANGED <<deqQueue, muxBlocking, op, item, isEmpty>>

LockBlocking(t, from, to) ==
  /\ pc[t] = from
  /\ muxBlocking = NoThread
  /\ muxBlocking' = t
  /\ Goto(t, to)
  /\ UNCHANGED <<deqQueue, muxQueue, op, item, isEmpty>>

UnlockBlocking(t, from, to) ==
  /\ pc[t] = from
  /\ muxBlocking' = NoThread
  /\ Goto(t, to)
  /\ UNCHANGED <<deqQueue, muxQueue, op, item, isEmpty>>

\* Mutant: the unique_lock is declared outside the loop of wait().
RetestKeepingLock(t) ==
  /\ pc[t] = "resumed"
  /\ Goto(t, "lock")
  /\ UNCHANGED <<deqQueue, muxQueue, muxBlocking, op, item, isEmpty>>

\* Mutant: if instead of while: wait() does not look at the queue again.
RetestNever(t) == UnlockBlocking(t, "resumed", "ready")

Park(t)   == LockBlocking(t, "park", "parked")
Sleep(t)  == UnlockBlocking(t, "parked", "asleep")
Resume(t) == LockBlocking(t, "awake", "resumed")
Retest(t) == UnlockBlocking(t, "resumed", "lock")

\* A condition variable may wake a sleeper that nobody notified.
SpuriousWakeup(t) ==
  /\ pc[t] = "asleep"
  /\ Goto(t, "awake")
  /\ UNCHANGED <<deqQueue, muxQueue, muxBlocking, op, item, isEmpty>>

-----------------------------------------------------------------------------
\* The steps a thread takes on its own once it has called a member function.
Continue(t) ==
  \/ LockQueue(t)
  \/ NotifyOne(t) \/ ReturnFromPush(t)
  \/ Pop(t) \/ Empty(t) \/ Clear(t)
  \/ WaitTest(t) \/ Park(t) \/ Sleep(t) \/ Resume(t) \/ Retest(t)

Progress(t) == Insert(t) \/ Continue(t)

\* Any thread may call any member function.
AnyCall(t) ==
  \/ \E o \in Pushes, i \in Items : Len(deqQueue) < MaxLen /\ Call(t, o, i)
  \/ \E o \in Ops \ Pushes : Call(t, o, NoItem)

QueueNext == \E t \in Threads : AnyCall(t) \/ Progress(t) \/ SpuriousWakeup(t)

QueueSpec == QueueInit /\ [][QueueNext]_queueVars

-----------------------------------------------------------------------------
QueueTypeOK ==
  /\ deqQueue \in Seq(Items)
  /\ muxQueue \in Threads \cup {NoThread}
  /\ muxBlocking \in Threads \cup {NoThread}
  /\ pc \in [Threads -> Labels]
  /\ op \in [Threads -> Ops]
  /\ item \in [Threads -> Items \cup {NoItem}]
  /\ isEmpty \in [Threads -> BOOLEAN]

\* A mutex is held by the thread whose position in the code says so, and by
\* no other: the labels between a lock and its release.
LocksHeld ==
  \A t \in Threads : /\ (muxQueue = t) <=> (pc[t] \in HoldsQueue)
                     /\ (muxBlocking = t) <=> (pc[t] \in HoldsBlocking)

\* No two threads are inside the deque at the same time, not even one that
\* inserts and one that wait() made look at it: std::deque is not thread safe.
NoDataRace ==
  \A t, u \in Threads : pc[t] \in HoldsQueue /\ pc[u] \in HoldsQueue => t = u

\* push_back takes muxBlocking while it holds muxQueue, so the opposite order
\* must never occur: wait() re-tests empty() only after its unique_lock on
\* muxBlocking has gone out of scope. Otherwise a waiter and a pusher would
\* block each other for ever.
NoLockCycle ==
  \A t \in Threads : muxBlocking = t => pc[t] \notin {"lock", "notify"}

\* A member function has taken effect once it has changed or seen the deque,
\* although a push has the notification left to do; wait() has not as long as
\* it is going to test again.
Atomic == INSTANCE AtomicQueue WITH
  queue <- deqQueue, carries <- item, wasEmpty <- isEmpty,
  pending <- [t \in Threads |->
                IF pc[t] \in {"ready", "notify", "notified"} THEN "none" ELSE op[t]]

\* Whatever the threads call, and whoever is woken by whom or by nobody, the
\* two mutexes and the condition variable make one queue of it, on which each
\* call takes effect once, and wait() returns only when it is not empty.
Linearizable == Atomic!AtomicSpec
=============================================================================
