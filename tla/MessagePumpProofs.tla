------------------------- MODULE MessagePumpProofs -------------------------
(***************************************************************************)
(* The message pump, for any number of threads that push and any bound on  *)
(* a round: the main thread never pops from an empty deque and handles     *)
(* every message once, in the order of arrival.                            *)
(*                                                                         *)
(* PopSafe relates two calls of the queue with the mutex released between  *)
(* them, so its inductive form has to follow the result of empty() through *)
(* Update (LoopOK) and to say that nobody else takes from the queue        *)
(* (CallsOK).                                                              *)
(***************************************************************************)
EXTENDS MessagePump, TSQueueProofs

\* The member function Update is in when it is not between two calls.
LoopOp == [l \in {"update", "head", "test", "pop"} |->
             CASE l = "test" -> "empty" [] l = "pop" -> "pop_front"
               [] OTHER -> "wait"]

CallsOK ==
  /\ \A t \in Pushers : pc[t] # "ready" => op[t] = "push_back"
  /\ pc[Main] # "ready" => op[Main] = LoopOp[loop]

LoopOK ==
  /\ loop = "update" => pc[Main] = "ready"
  /\ loop \in {"test", "pop"} => nMessageCount < nMaxMessages
  /\ loop = "test" /\ pc[Main] = "ready" /\ ~isEmpty[Main] => deqQueue # <<>>
  /\ loop = "pop" /\ pc[Main] # "ready" => deqQueue # <<>>
  /\ loop = "pop" /\ pc[Main] = "ready" => item[Main] \in Items

PumpInv == PumpTypeOK /\ QueueInv /\ CallsOK /\ LoopOK /\ InOrder

LEMMA PumpInvInit == Init => PumpInv
<1> SUFFICES ASSUME Init PROVE PumpInv
  OBVIOUS
<1>1. QueueInv
  BY QueueInvInit DEF Init
<1>2. PumpTypeOK
  BY <1>1, PumpAssumption, EmptySeq DEF Init, PumpTypeOK, QueueInv
<1>3. CallsOK /\ LoopOK
  BY PumpAssumption, TSQueueAssumption
  DEF Init, QueueInit, CallsOK, LoopOK, Pushers
<1>4. InOrder
  BY ConcatEmptySeq, EmptySeq DEF Init, QueueInit, InOrder, InHand
<1>. QED BY <1>1, <1>2, <1>3, <1>4 DEF PumpInv

\* The pump uses the queue only through its member functions.
LEMMA PumpUsesQueue ==
  ASSUME Next
  PROVE  UNCHANGED queueVars \/ \E t \in Threads : QueueStepOf(t)
<1> USE PumpAssumption
<1>1. CASE MainStep
  BY <1>1 DEF MainStep, EnterUpdate, LoopHead, LoopTest, Handle,
     QueueStepOf, LegalCall, Ops, Pushes, Pops
<1>2. ASSUME NEW t \in Pushers, NEW i \in Items, Receive(t, i)
      PROVE  QueueStepOf(t)
  BY <1>2 DEF Receive, QueueStepOf, LegalCall, Pushes
<1>3. ASSUME NEW t \in Threads, QueueStep(t) \/ Wakeup(t)
      PROVE  QueueStepOf(t)
  BY <1>3 DEF QueueStep, Wakeup, QueueStepOf, Progress
<1>. QED BY <1>1, <1>2, <1>3 DEF Next, Pushers

\* What a call of the queue changes for its caller.
LEMMA CallEffect ==
  ASSUME QueueInv, NEW t \in Threads, NEW o, NEW i, Call(t, o, i)
  PROVE  /\ pc' = [pc EXCEPT ![t] = "lock"]
         /\ pc[t] = "ready" /\ pc'[t] = "lock" /\ op'[t] = o
         /\ \A u \in Threads \ {t} : pc'[u] = pc[u] /\ op'[u] = op[u]
                                     /\ item'[u] = item[u]
         /\ UNCHANGED <<deqQueue, isEmpty>>
BY DEF Call, Goto, QueueInv, QueueTypeOK

\* Update's own steps keep the invariant.
LEMMA MainStepInv ==
  ASSUME PumpInv, MainStep, QueueInv'
  PROVE  PumpInv'
<1> USE PumpAssumption DEF PumpInv, PumpTypeOK
<1>q. QueueTypeOK /\ QueueTypeOK'
  BY DEF QueueInv
<1>m. \A t \in Pushers : t # Main /\ t \in Threads
  BY DEF Pushers
<1>1. CASE EnterUpdate
  <2>1. Call(Main, "wait", NoItem) /\ loop = "update" /\ loop' = "head"
        /\ nMessageCount' = 0 /\ UNCHANGED <<pushed, handled>>
    BY <1>1 DEF EnterUpdate
  <2>2. CallsOK' /\ LoopOK'
    BY <2>1, <1>m, CallEffect DEF CallsOK, LoopOK, LoopOp
  <2>3. InOrder'
    BY <2>1, CallEffect DEF InOrder, InHand
  <2>. QED BY <2>1, <2>2, <2>3, <1>q
<1>2. CASE LoopHead
  <2>1. CASE Call(Main, "empty", NoItem)
    <3>1. loop = "head" /\ loop' = "test" /\ nMessageCount < nMaxMessages
          /\ UNCHANGED <<nMessageCount, pushed, handled>>
      BY <1>2, <2>1, CallEffect, <1>q
      DEF LoopHead, queueVars, QueueTypeOK
    <3>2. CallsOK' /\ LoopOK'
      BY <2>1, <3>1, <1>m, CallEffect DEF CallsOK, LoopOK, LoopOp
    <3>3. InOrder'
      BY <2>1, <3>1, CallEffect DEF InOrder, InHand
    <3>. QED BY <3>1, <3>2, <3>3, <1>q
  <2>2. CASE UNCHANGED queueVars
    <3>1. loop = "head" /\ loop' = "update" /\ pc[Main] = "ready"
          /\ UNCHANGED <<nMessageCount, pushed, handled>>
      BY <1>2, <2>2, CallEffect DEF LoopHead, queueVars
    <3>2. CallsOK' /\ LoopOK' /\ InOrder'
      BY <2>2, <3>1 DEF CallsOK, LoopOK, InOrder, InHand, queueVars
    <3>. QED BY <3>1, <3>2, <1>q
  <2>. QED BY <1>2, <2>1, <2>2 DEF LoopHead
<1>3. CASE LoopTest
  <2>1. CASE Call(Main, "pop_front", NoItem)
    <3>1. loop = "test" /\ loop' = "pop" /\ ~isEmpty[Main] /\ pc[Main] = "ready"
          /\ UNCHANGED <<nMessageCount, pushed, handled>>
      BY <1>3, <2>1, CallEffect DEF LoopTest, queueVars
    <3>2. CallsOK' /\ LoopOK'
      BY <2>1, <3>1, <1>m, CallEffect DEF CallsOK, LoopOK, LoopOp
    <3>3. InOrder'
      BY <2>1, <3>1, CallEffect DEF InOrder, InHand
    <3>. QED BY <3>1, <3>2, <3>3, <1>q
  <2>2. CASE UNCHANGED queueVars
    <3>1. loop = "test" /\ loop' = "update" /\ pc[Main] = "ready"
          /\ UNCHANGED <<nMessageCount, pushed, handled>>
      BY <1>3, <2>2, CallEffect DEF LoopTest, queueVars
    <3>2. CallsOK' /\ LoopOK' /\ InOrder'
      BY <2>2, <3>1 DEF CallsOK, LoopOK, InOrder, InHand, queueVars
    <3>. QED BY <3>1, <3>2, <1>q
  <2>. QED BY <1>3, <2>1, <2>2 DEF LoopTest
<1>4. CASE Handle
  <2>1. /\ loop = "pop" /\ loop' = "head" /\ pc[Main] = "ready"
        /\ handled' = Append(handled, item[Main])
        /\ nMessageCount' = nMessageCount + 1
        /\ UNCHANGED <<queueVars, pushed>>
    BY <1>4 DEF Handle
  <2>2. item[Main] \in Items /\ nMessageCount < nMaxMessages
    BY <2>1 DEF LoopOK
  <2>3. handled' \in Seq(Items) /\ handled' = handled \o <<item[Main]>>
    BY <2>1, <2>2, AppendProperties, AppendIsConcat
  <2>4. nMessageCount' \in 0..nMaxMessages
    BY <2>1, <2>2
  <2>5. CallsOK' /\ LoopOK'
    BY <2>1, <1>m DEF CallsOK, LoopOK, LoopOp, queueVars
  <2>6. InOrder'
    <3>1. InHand = <<item[Main]>> /\ InHand' = <<>> /\ deqQueue' = deqQueue
      BY <2>1 DEF InHand, queueVars
    <3>2. handled' \o <<>> = handled'
      BY <2>3, ConcatEmptySeq
    <3>. QED BY <2>1, <2>3, <3>1, <3>2 DEF InOrder
  <2>. QED BY <2>1, <2>3, <2>4, <2>5, <2>6, <1>q
<1>. QED BY <1>1, <1>2, <1>3, <1>4 DEF MainStep

\* An arrival, and the queue's own steps, keep it too.
LEMMA ReceiveInv ==
  ASSUME PumpInv, NEW t \in Pushers, NEW i \in Items, Receive(t, i), QueueInv'
  PROVE  PumpInv'
<1>1. t \in Threads /\ t # Main /\ Call(t, "push_back", i)
      /\ UNCHANGED <<loop, nMessageCount, pushed, handled>>
  BY DEF Receive, pumpVars, Pushers
<1>2. PumpTypeOK'
  BY <1>1 DEF PumpInv, PumpTypeOK, QueueInv
<1>3. CallsOK' /\ LoopOK'
  BY <1>1, CallEffect, PumpAssumption DEF PumpInv, CallsOK, LoopOK, Pushers
<1>4. InOrder'
  BY <1>1, CallEffect, PumpAssumption DEF PumpInv, InOrder, InHand
<1>. QED BY <1>2, <1>3, <1>4 DEF PumpInv

LEMMA InsertInv ==
  ASSUME PumpInv, NEW t \in Threads, Insert(t), QueueInv',
         pushed' = Append(pushed, item[t]),
         UNCHANGED <<loop, nMessageCount, handled>>
  PROVE  PumpInv'
<1> USE PumpAssumption DEF PumpInv, PumpTypeOK
<1>1. pc[t] = "locked" /\ item[t] \in Items
  BY DEF Insert, QueueInv, ArgsOK, Pushes
<1>2. t # Main /\ t \in Pushers /\ op[t] = "push_back"
  BY <1>1 DEF CallsOK, LoopOp, Insert, Pushers
<1>3. /\ deqQueue' = Append(deqQueue, item[t]) /\ deqQueue' # <<>>
      /\ pushed' \in Seq(Items)
  BY <1>1, <1>2, AppendProperties DEF Insert, QueueInv, QueueTypeOK
<1>4. /\ \A u \in Threads \ {t} : pc'[u] = pc[u]
      /\ UNCHANGED <<op, item, isEmpty>>
  BY DEF Insert, Goto, QueueInv, QueueTypeOK
<1>5. CallsOK' /\ LoopOK'
  BY <1>2, <1>3, <1>4 DEF CallsOK, LoopOK, Pushers
<1>6. InOrder'
  <2>1. InHand' = InHand /\ InHand \in Seq(Items)
    BY <1>2, <1>4 DEF InHand, LoopOK
  <2>2. handled \o InHand \in Seq(Items) /\ deqQueue \in Seq(Items)
    BY <2>1, ConcatProperties DEF QueueInv, QueueTypeOK
  <2>3. deqQueue' = deqQueue \o <<item[t]>> /\ pushed' = pushed \o <<item[t]>>
    BY <1>1, <1>3, <2>2, AppendIsConcat
  <2>4. ((handled \o InHand) \o deqQueue) \o <<item[t]>>
          = (handled \o InHand) \o (deqQueue \o <<item[t]>>)
    BY <1>1, <2>2, ConcatAssociative
  <2>. QED BY <2>1, <2>3, <2>4 DEF InOrder
<1>. QED BY <1>3, <1>5, <1>6 DEF QueueInv

LEMMA PopInv ==
  ASSUME PumpInv, NEW t \in Threads, Pop(t), QueueInv', UNCHANGED pumpVars
  PROVE  PumpInv'
<1> USE PumpAssumption DEF PumpInv, PumpTypeOK, pumpVars
<1>1. t = Main /\ loop = "pop" /\ op[t] = "pop_front" /\ pc[t] = "locked"
  BY DEF Pop, CallsOK, LoopOp, Pushers
<1>2. /\ deqQueue # <<>> /\ deqQueue' = Tail(deqQueue)
      /\ item'[Main] = Head(deqQueue) /\ pc'[Main] = "ready"
      /\ \A u \in Threads \ {Main} : pc'[u] = pc[u]
      /\ UNCHANGED op
  BY <1>1 DEF Pop, Unlocked, Goto, QueueInv, QueueTypeOK
<1>3. Head(deqQueue) \in Items /\ Tail(deqQueue) \in Seq(Items)
  BY <1>2, HeadTailProperties DEF QueueInv, QueueTypeOK
<1>4. CallsOK' /\ LoopOK'
  BY <1>1, <1>2, <1>3 DEF CallsOK, LoopOK, Pushers
<1>5. InOrder'
  <2>1. InHand = <<>> /\ InHand' = <<Head(deqQueue)>>
    BY <1>1, <1>2 DEF InHand
  <2>2. deqQueue = <<Head(deqQueue)>> \o Tail(deqQueue)
    <3>1. deqQueue \in Seq(Items)
      BY DEF QueueInv, QueueTypeOK
    <3>. QED BY <1>2, <3>1
  <2>3. handled \o <<>> = handled
    BY ConcatEmptySeq
  <2>4. handled \o (<<Head(deqQueue)>> \o Tail(deqQueue))
          = (handled \o <<Head(deqQueue)>>) \o Tail(deqQueue)
    BY <1>3, ConcatAssociative
  <2>. QED BY <1>2, <2>1, <2>2, <2>3, <2>4 DEF InOrder
<1>. QED BY <1>4, <1>5 DEF QueueInv

\* Every other step of the queue leaves its items alone.
LEMMA ContinueInv ==
  ASSUME PumpInv, NEW t \in Threads, Continue(t) \/ SpuriousWakeup(t),
         QueueInv', UNCHANGED pumpVars
  PROVE  PumpInv'
<1> USE PumpAssumption DEF PumpInv, PumpTypeOK, pumpVars
<1> DEFINE Quiet == /\ CallsOK' /\ LoopOK'
                    /\ UNCHANGED deqQueue /\ InHand' = InHand
<1>q. Quiet => PumpInv'
  BY DEF InOrder, QueueInv
<1>t. QueueTypeOK /\ ArgsOK
  BY DEF QueueInv
<1> USE DEF QueueTypeOK, CallsOK, LoopOK, InHand, LoopOp, Pushers, Goto, Unlocked
<1> HIDE DEF Quiet, PumpInv
<1>i. PumpTypeOK /\ CallsOK /\ LoopOK
  BY DEF PumpInv
<1>1. CASE LockQueue(t)
  BY <1>1, <1>i, <1>t, <1>q DEF LockQueue, Quiet
<1>2. CASE NotifyOne(t)
  <2>1. /\ \A u \in Threads : pc'[u] = "ready" <=> pc[u] = "ready"
        /\ UNCHANGED <<deqQueue, op, item, isEmpty>>
    BY <1>2, <1>t DEF NotifyOne, Sleepers
  <2>. QED BY <2>1, <1>i, <1>q DEF Quiet
<1>3. CASE ReturnFromPush(t)
  <2>1. op[t] \in Pushes
    BY <1>3, <1>t DEF ReturnFromPush, ArgsOK
  <2>2. t # Main
    BY <1>3, <2>1, <1>i DEF ReturnFromPush, Pushes
  <2>. QED BY <1>3, <2>2, <1>i, <1>t, <1>q DEF ReturnFromPush, Quiet
<1>4. CASE Pop(t)
  BY <1>4, PopInv DEF PumpInv
<1>5. CASE Empty(t)
  BY <1>5, <1>i, <1>t, <1>q DEF Empty, Quiet
<1>6. CASE Clear(t)
  BY <1>6, <1>i, <1>t, <1>q DEF Clear, Quiet
<1>7. CASE WaitTest(t)
  BY <1>7, <1>i, <1>t, <1>q DEF WaitTest, Quiet
<1>8. CASE Park(t) \/ Resume(t)
  BY <1>8, <1>i, <1>t, <1>q DEF Park, Resume, LockBlocking, Quiet
<1>9. CASE Sleep(t) \/ Retest(t)
  BY <1>9, <1>i, <1>t, <1>q DEF Sleep, Retest, UnlockBlocking, Quiet
<1>10. CASE SpuriousWakeup(t)
  BY <1>10, <1>i, <1>t, <1>q DEF SpuriousWakeup, Quiet
<1>. QED
  BY ONLY Continue(t) \/ SpuriousWakeup(t),
     <1>1, <1>2, <1>3, <1>4, <1>5, <1>6, <1>7, <1>8, <1>9, <1>10 DEF Continue

LEMMA PumpInvariant == Spec => []PumpInv
<1>1. ASSUME PumpInv, Next PROVE PumpInv'
  <2>1. QueueInv'
    BY <1>1, PumpUsesQueue, QueueInvStep, QueueInvUnchanged DEF PumpInv
  <2>2. CASE MainStep
    BY <1>1, <2>1, <2>2, MainStepInv
  <2>3. CASE \E t \in Pushers, i \in Items : Receive(t, i)
    BY <1>1, <2>1, <2>3, ReceiveInv
  <2>4. ASSUME NEW t \in Threads, QueueStep(t) \/ Wakeup(t) PROVE PumpInv'
    BY <1>1, <2>1, <2>4, InsertInv, ContinueInv DEF QueueStep, Wakeup, pumpVars
  <2>. QED BY <1>1, <2>2, <2>3, <2>4 DEF Next
<1>2. PumpInv /\ UNCHANGED vars => PumpInv'
  BY QueueInvUnchanged
  DEF PumpInv, PumpTypeOK, CallsOK, LoopOK, InOrder, InHand, QueueInv,
      vars, pumpVars, queueVars
<1>. QED BY <1>1, <1>2, PumpInvInit, PTL DEF Spec

-----------------------------------------------------------------------------
\* The variables of the pump keep their types; a round never handles more
\* than nMaxMessages messages (net_server.h:155-175).
THEOREM PumpTypeCorrect == Spec => []PumpTypeOK
BY PumpInvariant, PTL DEF PumpInv

\* pop_front is never called on an empty deque, although empty() and
\* pop_front() lock muxQueue separately (net_server.h:164-167).
THEOREM PumpNeverPopsEmpty == Spec => []PopSafe
<1>1. PumpInv => PopSafe
  BY PumpAssumption
  DEF PumpInv, PumpTypeOK, CallsOK, LoopOK, LoopOp, PopSafe, Undefined, Pops,
      Pushers
<1>. QED BY <1>1, PumpInvariant, PTL

\* Messages are handled once each, in the order in which they arrived
\* (net_server.h:155-175, net_connection.h:243-257).
THEOREM PumpHandlesInOrder == Spec => []InOrder
BY PumpInvariant, PTL DEF PumpInv

-----------------------------------------------------------------------------
(* The pump as a channel that never breaks.                                *)

\* What is in hand is the oldest message that has not been handled.
LEMMA OldestInHand ==
  ASSUME PumpInv, InHand = <<item[Main]>>, item[Main] \in Items
  PROVE  Len(handled) < Len(pushed) /\ pushed[Len(handled) + 1] = item[Main]
<1>1. handled \in Seq(Items) /\ <<item[Main]>> \in Seq(Items) /\ deqQueue \in Seq(Items)
  BY DEF PumpInv, PumpTypeOK, QueueInv, QueueTypeOK
<1>2. pushed = handled \o <<item[Main]>> \o deqQueue
  BY DEF PumpInv, InOrder
<1>3. PICK s : s = handled \o <<item[Main]>>
  OBVIOUS
<1>4. s \in Seq(Items) /\ Len(s) = Len(handled) + 1 /\ s[Len(handled) + 1] = item[Main]
  BY <1>1, <1>3
<1>5. pushed = s \o deqQueue
  BY <1>2, <1>3
<1>. QED BY <1>1, <1>4, <1>5

\* A step of the pump queues one message, handles one or does neither.
LEMMA PumpStep ==
  ASSUME PumpInv, [Next]_vars
  PROVE  \/ \E i \in Items : pushed' = Append(pushed, i) /\ UNCHANGED handled
         \/ /\ handled' = Append(handled, item[Main]) /\ UNCHANGED pushed
            /\ InHand = <<item[Main]>> /\ item[Main] \in Items
         \/ UNCHANGED <<pushed, handled>>
<1>1. CASE EnterUpdate \/ LoopHead \/ LoopTest
  BY <1>1 DEF EnterUpdate, LoopHead, LoopTest
<1>2. CASE Handle
  BY <1>2 DEF Handle, InHand, PumpInv, LoopOK
<1>3. ASSUME NEW t \in Pushers, NEW i \in Items, Receive(t, i)
      PROVE  UNCHANGED <<pushed, handled>>
  BY <1>3 DEF Receive, pumpVars
<1>4. ASSUME NEW t \in Threads, Wakeup(t) PROVE UNCHANGED <<pushed, handled>>
  BY <1>4 DEF Wakeup, pumpVars
<1>5. ASSUME NEW t \in Threads, QueueStep(t)
      PROVE  \/ \E i \in Items : pushed' = Append(pushed, i) /\ UNCHANGED handled
             \/ UNCHANGED <<pushed, handled>>
  <2>1. Insert(t) => item[t] \in Items
    BY DEF Insert, PumpInv, QueueInv, ArgsOK, Pushes
  <2>. QED BY <1>5, <2>1 DEF QueueStep
<1>6. CASE UNCHANGED vars
  BY <1>6 DEF vars, pumpVars
<1>. QED BY <1>1, <1>2, <1>3, <1>4, <1>5, <1>6 DEF Next, MainStep

\* The queue and Update carry the messages on as the connection does: each is
\* handled once and in order, and none is taken back (net_server.h:155-175).
THEOREM PumpImplementsChannel == Spec => PumpIsChannel
<1>1. Init => Handling!ChannelInit
  BY DEF Init, Handling!ChannelInit
<1>2. PumpInv /\ [Next]_vars => [Handling!ChannelNext]_Handling!channelVars
  <2> SUFFICES ASSUME PumpInv, [Next]_vars
               PROVE  [Handling!ChannelNext]_Handling!channelVars
    OBVIOUS
  <2> USE DEF Handling!ChannelNext, Handling!channelVars
  <2>1. CASE \E i \in Items : pushed' = Append(pushed, i) /\ UNCHANGED handled
    BY <2>1 DEF Handling!SendMessage
  <2>2. CASE /\ handled' = Append(handled, item[Main]) /\ UNCHANGED pushed
             /\ InHand = <<item[Main]>> /\ item[Main] \in Items
    BY <2>2, OldestInHand DEF Handling!Arrive
  <2>3. CASE UNCHANGED <<pushed, handled>>
    BY <2>3
  <2>. QED BY <2>1, <2>2, <2>3, PumpStep
<1>. QED BY <1>1, <1>2, PumpInvariant, PTL
     DEF Spec, PumpIsChannel, Handling!ChannelSafety

\* The queue of the pump is an atomic one too: Update and the io_context thread
\* use it only through its member functions (net_server.h:155-175).
THEOREM PumpQueueIsLinearizable == Spec => Linearizable
<1>1. PumpInv /\ [Next]_vars => [Atomic!AtomicNext]_Atomic!atomicVars
  BY PumpUsesQueue, AtomicStep, AtomicStutter DEF PumpInv, vars
<1>2. Init => Atomic!AtomicInit
  BY AtomicStart DEF Init
<1>. QED BY <1>1, <1>2, PumpInvariant, PTL DEF Spec, Linearizable, Atomic!AtomicSpec

-----------------------------------------------------------------------------
(* What a notification reaches.                                            *)

\* Only the main thread sleeps, so the one sleeper a push can wake is it.
LEMMA OnlyMainSleeps ==
  ASSUME PumpInv, NEW t \in Pushers
  PROVE  pc[t] # "asleep"
BY DEF PumpInv, CallsOK, QueueInv, ArgsOK, WaitLabels, Pushers

\* A push that notifies leaves the main thread awake.
LEMMA NotifyWakesMain ==
  ASSUME PumpInv, NEW t \in Threads, NotifyOne(t)
  PROVE  pc'[Main] # "asleep"
<1>0. Main \in Threads /\ pc \in [Threads -> Labels]
  BY PumpAssumption DEF PumpInv, QueueInv, QueueTypeOK
<1>1. CASE Sleepers = {}
  BY <1>0, <1>1 DEF NotifyOne, Sleepers, Goto
<1>2. CASE Sleepers # {}
  <2>1. PICK s \in Sleepers : pc' = [pc EXCEPT ![t] = "notified", ![s] = "awake"]
    BY <1>2 DEF NotifyOne
  <2>2. s = Main
    BY <2>1, OnlyMainSleeps DEF Sleepers, Pushers
  <2>. QED BY <1>0, <2>1, <2>2
<1>. QED BY <1>1, <1>2

\* The steps that neither insert nor notify do not leave it asleep on a message,
\* but for its own way to sleep.
LEMMA QuietStepForgets ==
  ASSUME PumpInv, [Next]_vars, ~SleepsOnMessages, SleepsOnMessages',
         pc[Main] # "parked"
  PROVE  \E t \in Threads : Insert(t) \/ NotifyOne(t)
<1> SUFFICES ASSUME \A t \in Threads : ~Insert(t) /\ ~NotifyOne(t) PROVE FALSE
  OBVIOUS
<1>0. /\ Main \in Threads /\ pc \in [Threads -> Labels]
      /\ \A t \in Pushers : t \in Threads /\ t # Main
  BY PumpAssumption DEF PumpInv, QueueInv, QueueTypeOK, Pushers
<1> DEFINE Kept == /\ pc'[Main] = "asleep" => pc[Main] = "asleep"
                   /\ deqQueue' = deqQueue
                   /\ \A t \in Pushers : pc[t] = "notify" => pc'[t] = "notify"
<1>k. ~Kept
  BY DEF SleepsOnMessages
<1> HIDE DEF Kept
<1>1. ASSUME NEW t \in Threads, NEW o, NEW i, Call(t, o, i) PROVE Kept
  BY <1>0, <1>1 DEF Call, Goto, Kept
<1>2. CASE MainStep
  <2>1. UNCHANGED queueVars => Kept
    BY DEF queueVars, Kept
  <2>. QED BY <1>0, <1>1, <1>2, <1>k, <2>1
           DEF MainStep, EnterUpdate, LoopHead, LoopTest, Handle
<1>3. ASSUME NEW t \in Pushers, NEW i \in Items, Receive(t, i) PROVE FALSE
  BY <1>0, <1>1, <1>3, <1>k DEF Receive
<1>4. ASSUME NEW t \in Threads, LockQueue(t) \/ Empty(t) \/ WaitTest(t) \/ Park(t)
                                 \/ Resume(t) \/ Retest(t) \/ SpuriousWakeup(t)
      PROVE  FALSE
  <2>1. /\ UNCHANGED deqQueue
        /\ \E l \in Labels \ {"asleep"} : Goto(t, l) /\ pc[t] # "notify"
    BY <1>4 DEF LockQueue, Empty, WaitTest, Park, Resume, Retest, SpuriousWakeup,
                LockBlocking, UnlockBlocking, Unlocked, Labels
  <2>. QED BY <1>0, <1>k, <2>1 DEF Goto, Kept
<1>5. ASSUME NEW t \in Threads, Sleep(t) PROVE FALSE
  <2>1. t # Main /\ UNCHANGED deqQueue /\ Goto(t, "asleep") /\ pc[t] = "parked"
    BY <1>5 DEF Sleep, UnlockBlocking
  <2>. QED BY <1>0, <1>k, <2>1 DEF Goto, Kept
<1>6. ASSUME NEW t \in Threads, ReturnFromPush(t) PROVE FALSE
  BY <1>0, <1>6, <1>k DEF ReturnFromPush, Goto, Kept
<1>7. ASSUME NEW t \in Threads, Pop(t) \/ Clear(t) PROVE FALSE
  <2>1. t = Main \/ op[t] = "push_back"
    BY <1>0, <1>7 DEF Pop, Clear, PumpInv, CallsOK, Pushers
  <2>2. t = Main
    BY <1>7, <2>1 DEF Pop, Clear
  <2>. QED BY <1>0, <1>7, <2>2 DEF Pop, Clear, Unlocked, Goto, SleepsOnMessages
<1>8. CASE UNCHANGED vars
  BY <1>8, <1>k DEF vars, queueVars, Kept
<1>9. ASSUME NEW t \in Threads, QueueStep(t) \/ Wakeup(t) PROVE FALSE
  BY <1>4, <1>5, <1>6, <1>7, <1>9 DEF QueueStep, Wakeup, Continue
<1>. QED BY <1>2, <1>3, <1>8, <1>9 DEF Next

\* The main thread is left asleep on a message only by a push that falls between
\* the empty() of wait() and its sleep (net_tsqueue.h:90-98).
THEOREM MissedOnlyInWindowAlways == Spec => MissedOnlyInWindow
<1>1. ASSUME PumpInv, [Next]_vars, ~SleepsOnMessages, SleepsOnMessages'
      PROVE  pc[Main] = "parked"
  <2>1. ASSUME NEW t \in Threads, Insert(t) PROVE FALSE
    <3>1. /\ pc[t] = "locked" /\ op[t] \in Pushes /\ Goto(t, "notify")
          /\ pc \in [Threads -> Labels]
      BY <1>1, <2>1 DEF Insert, Pushes, PumpInv, QueueInv, QueueTypeOK
    <3>2. t \in Pushers
      BY <1>1, <3>1, PumpAssumption DEF PumpInv, PumpTypeOK, CallsOK, LoopOp, Pushes, Pushers
    <3>. QED BY <1>1, <3>1, <3>2 DEF Goto, SleepsOnMessages
  <2>2. ASSUME NEW t \in Threads, NotifyOne(t) PROVE FALSE
    BY <1>1, <2>2, NotifyWakesMain DEF SleepsOnMessages
  <2>. QED BY <1>1, <2>1, <2>2, QuietStepForgets
<1>2. PumpInv /\ [Next]_vars
        => [~SleepsOnMessages /\ SleepsOnMessages' => pc[Main] = "parked"]_vars
  BY <1>1
<1>. QED BY <1>2, PumpInvariant, PTL DEF Spec, MissedOnlyInWindow
=============================================================================
