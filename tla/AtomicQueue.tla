---------------------------- MODULE AtomicQueue ----------------------------
(***************************************************************************)
(* What tsqueue promises to the threads that share it: each member         *)
(* function takes effect once, at one moment between its call and its      *)
(* return, as if no other thread were in the queue, and wait() returns     *)
(* only at a moment at which the queue is not empty.                       *)
(***************************************************************************)
EXTENDS Naturals, Sequences

CONSTANTS Threads, Items, NoItem

VARIABLES queue,   \* the items, front first
          pending, \* the operation of each thread that has yet to take effect
          carries, \* the item it puts in, or the one it took out last
          wasEmpty \* what each thread has seen of the queue

atomicVars == <<queue, pending, carries, wasEmpty>>

Puts   == {"push_back", "push_front"}
Others == {"pop_front", "pop_back", "empty", "clear", "wait"}

AtomicInit ==
  /\ queue = <<>>
  /\ pending = [t \in Threads |-> "none"]
  /\ carries = [t \in Threads |-> NoItem]
  /\ wasEmpty = [t \in Threads |-> TRUE]

Invoke(t, o, i) ==
  /\ pending[t] = "none"
  /\ pending' = [pending EXCEPT ![t] = o]
  /\ carries' = [carries EXCEPT ![t] = i]
  /\ UNCHANGED <<queue, wasEmpty>>

\* The operation o of t takes effect.
Effect(t, o) == pending[t] = o /\ pending' = [pending EXCEPT ![t] = "none"]

Put(t) ==
  /\ \/ Effect(t, "push_back") /\ queue' = Append(queue, carries[t])
     \/ Effect(t, "push_front") /\ queue' = <<carries[t]>> \o queue
  /\ UNCHANGED <<carries, wasEmpty>>

Take(t) ==
  /\ queue # <<>>
  /\ \/ /\ Effect(t, "pop_front")
        /\ queue' = Tail(queue)
        /\ carries' = [carries EXCEPT ![t] = Head(queue)]
     \/ /\ Effect(t, "pop_back")
        /\ queue' = SubSeq(queue, 1, Len(queue) - 1)
        /\ carries' = [carries EXCEPT ![t] = queue[Len(queue)]]
  /\ UNCHANGED wasEmpty

Look(t) ==
  /\ Effect(t, "empty")
  /\ wasEmpty' = [wasEmpty EXCEPT ![t] = (queue = <<>>)]
  /\ UNCHANGED <<queue, carries>>

Discard(t) ==
  Effect(t, "clear") /\ queue' = <<>> /\ UNCHANGED <<carries, wasEmpty>>

Wait(t) ==
  Effect(t, "wait") /\ queue # <<>> /\ UNCHANGED <<queue, carries, wasEmpty>>

AtomicNext ==
  \E t \in Threads :
    \/ \E o \in Puts, i \in Items : Invoke(t, o, i)
    \/ \E o \in Others : Invoke(t, o, NoItem)
    \/ Put(t) \/ Take(t) \/ Look(t) \/ Discard(t) \/ Wait(t)

AtomicSpec == AtomicInit /\ [][AtomicNext]_atomicVars
=============================================================================
