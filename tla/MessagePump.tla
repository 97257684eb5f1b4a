---------------------------- MODULE MessagePump ----------------------------
(***************************************************************************)
(* The server's message pump: the io_context thread (a member of Pushers)  *)
(* queues every message that arrives with m_qMessagesIn.push_back, and the *)
(* main thread runs                                                        *)
(*                                                                         *)
(*   while (true) server.Update(-1, true)                                  *)
(*                                                                         *)
(* where Update (server/include/net_server.h) waits for the queue, then    *)
(* pops and handles messages until it is empty or nMaxMessages of them     *)
(* have been handled. The queue is TSQueue; nothing here but calls of its  *)
(* members. The main thread's position in Update is loop:                  *)
(*                                                                         *)
(*   update    about to enter Update (and to call wait)                    *)
(*   head      at the head of the while loop, once the pending call ends   *)
(*   test      calling m_qMessagesIn.empty()                               *)
(*   pop       calling m_qMessagesIn.pop_front()                           *)
(***************************************************************************)
EXTENDS TSQueue

CONSTANTS Main,         \* the thread that runs Update
          nMaxMessages, \* its argument: main passes -1, the largest size_t
          MaxPushes     \* bound: no push starts once this many have inserted

Pushers == Threads \ {Main}

ASSUME PumpAssumption == /\ Main \in Threads
                         /\ nMaxMessages \in Nat \ {0}
                         /\ MaxPushes \in Nat

VARIABLES
  loop,          \* where the main thread is in Update
  nMessageCount, \* how many messages this Update has handled
  pushed,        \* history: the items inserted, in order
  handled        \* history: the items given to OnMessage, in order

pumpVars == <<loop, nMessageCount, pushed, handled>>
vars == <<queueVars, pumpVars>>

Init ==
  /\ QueueInit
  /\ loop = "update"
  /\ nMessageCount = 0
  /\ pushed = <<>>
  /\ handled = <<>>

-----------------------------------------------------------------------------
(* The main thread, between two calls of the queue.                        *)

\* Mutant: nMessageCount outlives the call of Update.
EnterUpdateKeepingCount ==
  /\ loop = "update"
  /\ Call(Main, "wait", NoItem)
  /\ loop' = "head"
  /\ UNCHANGED <<nMessageCount, pushed, handled>>

EnterUpdate ==
  /\ loop = "update"
  /\ Call(Main, "wait", NoItem)
  /\ nMessageCount' = 0
  /\ loop' = "head"
  /\ UNCHANGED <<pushed, handled>>

\* while (nMessageCount < nMaxMessages && !m_qMessagesIn.empty())
LoopHead ==
  /\ loop = "head"
  /\ pc[Main] = "ready"
  /\ \/ /\ nMessageCount < nMaxMessages
        /\ Call(Main, "empty", NoItem)
        /\ loop' = "test"
     \/ /\ nMessageCount >= nMaxMessages
        /\ loop' = "update"
        /\ UNCHANGED queueVars
  /\ UNCHANGED <<nMessageCount, pushed, handled>>

\* Mutant: the result of empty() is not looked at.
PopUnconditionally ==
  /\ loop = "test"
  /\ Call(Main, "pop_front", NoItem)
  /\ loop' = "pop"
  /\ UNCHANGED <<nMessageCount, pushed, handled>>

LoopTest ==
  /\ loop = "test"
  /\ pc[Main] = "ready"
  /\ \/ /\ ~isEmpty[Main]
        /\ Call(Main, "pop_front", NoItem)
        /\ loop' = "pop"
     \/ /\ isEmpty[Main]
        /\ loop' = "update"
        /\ UNCHANGED queueVars
  /\ UNCHANGED <<nMessageCount, pushed, handled>>

Handle ==
  /\ loop = "pop"
  /\ pc[Main] = "ready"
  /\ handled' = Append(handled, item[Main])
  /\ nMessageCount' = nMessageCount + 1
  /\ loop' = "head"
  /\ UNCHANGED <<queueVars, pushed>>

-----------------------------------------------------------------------------
(* The io_context thread.                                                  *)

Receive(t, i) ==
  /\ Len(pushed) < MaxPushes
  /\ Call(t, "push_back", i)
  /\ UNCHANGED pumpVars

\* A step of the queue itself; an insertion is recorded.
QueueStep(t) ==
  /\ \/ Insert(t) /\ pushed' = Append(pushed, item[t])
     \/ Continue(t) /\ UNCHANGED pushed
  /\ UNCHANGED <<loop, nMessageCount, handled>>

Wakeup(t) == SpuriousWakeup(t) /\ UNCHANGED pumpVars

MainStep == EnterUpdate \/ LoopHead \/ LoopTest \/ Handle

Next ==
  \/ MainStep
  \/ \E t \in Pushers, i \in Items : Receive(t, i)
  \/ \E t \in Threads : QueueStep(t) \/ Wakeup(t)

Spec == Init /\ [][Next]_vars

(* Every thread keeps running, and one that waits for a mutex which is     *)
(* released again and again gets it. Arrivals and spurious wakeups owe     *)
(* nothing.                                                                *)
Fairness == WF_vars(MainStep) /\ \A t \in Threads : SF_vars(QueueStep(t))

FairSpec == Spec /\ Fairness

-----------------------------------------------------------------------------
PumpTypeOK ==
  /\ QueueTypeOK
  /\ loop \in {"update", "head", "test", "pop"}
  /\ nMessageCount \in 0..nMaxMessages
  /\ pushed \in Seq(Items)
  /\ handled \in Seq(Items)

\* The main thread tests empty() and calls pop_front() in two calls, with the
\* mutex released in between: the test still holds when it pops, because no
\* other thread ever takes from m_qMessagesIn.
PopSafe == \A t \in Threads : ~Undefined(t)

\* The message pop_front has returned and OnMessage has not been given yet.
InHand == IF loop = "pop" /\ pc[Main] = "ready" THEN <<item[Main]>> ELSE <<>>

\* Every message that arrived is in the queue, in the main thread's hand or
\* handled, once, and they are handled in the order of arrival.
InOrder == pushed = handled \o InHand \o deqQueue

\* m_qMessagesIn and Update, seen as one direction that never breaks: what is
\* inserted is sent, what is handled has arrived.
Handling == INSTANCE MessageChannel WITH
  Message <- Items, sent <- pushed, arrived <- handled, broken <- FALSE

\* Each step of the pump handles at most one message, the oldest that has not
\* been handled, and takes back neither a message nor its handling: to a client
\* the queue is as if the connection went on into OnMessage.
PumpIsChannel == Handling!ChannelSafety

\* push_back returns: the io_context thread is never blocked for good by a
\* main thread that waits.
PushReturns == \A t \in Pushers : pc[t] = "lock" ~> pc[t] = "ready"

\* A message is handled unless the main thread is asleep: nothing else, not
\* the bound nMaxMessages of a round either, can leave one behind.
HandledUnlessAsleep ==
  \A n \in 1..MaxPushes :
    Len(pushed) >= n ~> (Len(handled) >= n \/ pc[Main] = "asleep")

\* A push that notifies a sleeping main thread gets everything handled, what
\* an earlier, missed notification left in the queue included.
NotifiedDrains ==
  (pc[Main] = "asleep" /\ \E t \in Pushers : pc[t] = "notify")
    ~> deqQueue = <<>>

\* The main thread sleeps on a queue with messages in it, and no push is about
\* to wake it.
SleepsOnMessages ==
  pc[Main] = "asleep" /\ deqQueue # <<>> /\ \A t \in Pushers : pc[t] # "notify"

\* There is one way to get there: a push fell between the empty() of wait() and
\* the sleep. A push that finds the main thread asleep wakes it, however many
\* push at once and whatever they left in the queue.
MissedOnlyInWindow ==
  [][~SleepsOnMessages /\ SleepsOnMessages' => pc[Main] = "parked"]_vars

\* What the comment on notify_one says, "notifying stops blocking and awakes
\* from sleeping": whatever was pushed, and notified, is handled.
EveryPushHandled ==
  \A n \in 1..MaxPushes : Len(pushed) >= n ~> Len(handled) >= n
=============================================================================
