--------------------------- MODULE ChannelProofs ---------------------------
(***************************************************************************)
(* Each direction of a Connection implements the safety part of            *)
(* MessageChannel, for any ids and bodies and any number of messages.      *)
(*                                                                         *)
(* The invariant numbers what is on its way: every part on the wire, the   *)
(* message in the reader, every message in m_qMessagesOut and every posted *)
(* send is the message of its number in sent, and the numbers go up by one *)
(* from the reader to the last posted task. The numberings are not part of *)
(* the model, so the invariant says that there is one; a step moves it     *)
(* along. What the writer still has counts only while its socket is open,  *)
(* and what is on the wire only while the reader goes on: a direction that *)
(* has broken delivers nothing more.                                       *)
(***************************************************************************)
EXTENDS ConnectionProofs

Held(f) == IF reading[f] \in {"headerDone", "body", "bodyDone"} THEN 1 ELSE 0

BegunBy(e) == IF writing[e] \in {"headerDone", "body", "bodyDone"} THEN 1 ELSE 0

\* What arrived at the other end is what e sent, from the first on.
PrefixArrived(e) ==
  /\ Len(m_qMessagesIn[Peer(e)]) <= Len(sent[e])
  /\ \A i \in 1 .. Len(m_qMessagesIn[Peer(e)]) :
       Visible(m_qMessagesIn[Peer(e)][i]) = sent[e][i]

\* The message in the reader is the next one.
ReaderFollows(e) ==
  Held(Peer(e)) = 1 =>
    LET n == Len(m_qMessagesIn[Peer(e)]) + 1
        t == m_msgTemporaryIn[Peer(e)]
    IN  /\ n <= Len(sent[e])
        /\ t.id = sent[e][n].id /\ t.size = sent[e][n].size
        /\ reading[Peer(e)] = "bodyDone" => t.body = sent[e][n].body

\* at[i] is the number of the message that part i of the wire belongs to.
PartsAdd(p)   == IF p.part = "header" THEN 1 ELSE 0
PartOf(p, m)  == p = HeaderPart(m) \/ p = BodyPart(m)

WireNumbered(e, at) ==
  /\ at \in [0 .. Len(wire[e]) -> Nat]
  /\ at[0] = Len(m_qMessagesIn[Peer(e)]) + Held(Peer(e))
  /\ \A i \in 1 .. Len(wire[e]) :
       /\ at[i] = at[i - 1] + PartsAdd(wire[e][i])
       /\ at[i] \in 1 .. Len(sent[e])
       /\ PartOf(wire[e][i], sent[e][at[i]])

\* m_qMessagesOut goes on after message n, and due[i] is the number of the
\* last message up to task i.
TasksAdd(t) == IF t.run = "send" THEN 1 ELSE 0

QueueNumbered(e, n) ==
  \A j \in 1 .. Len(m_qMessagesOut[e]) :
    n + j <= Len(sent[e]) /\ m_qMessagesOut[e][j] = sent[e][n + j]

TasksNumbered(e, n, due) ==
  /\ due \in [0 .. Len(posted[e]) -> Nat]
  /\ due[0] = n + Len(m_qMessagesOut[e])
  /\ \A i \in 1 .. Len(posted[e]) :
       /\ due[i] = due[i - 1] + TasksAdd(posted[e][i])
       /\ posted[e][i].run = "send" =>
            /\ due[i] \in 1 .. Len(sent[e])
            /\ posted[e][i].msg = sent[e][due[i]]
  /\ due[Len(posted[e])] = Len(sent[e])

\* The rest of what was sent is still with e, w messages having been begun.
StillHere(e, w) ==
  \E n \in Nat : /\ n + BegunBy(e) = w
                 /\ QueueNumbered(e, n)
                 /\ \E due : TasksNumbered(e, n, due)

OnTheWay(e) ==
  /\ ReaderFollows(e)
  /\ \E at : /\ WireNumbered(e, at)
             /\ isOpen[e] => StillHere(e, at[Len(wire[e])])

Way(e) == PrefixArrived(e) /\ (reading[Peer(e)] # "stopped" => OnTheWay(e))

\* A reader that reads has a link to read from.
LinkOK == \A f \in Ends : reading[f] \notin {"unstarted", "stopped"} => link \in {"up", "reset"}

ChannelInv == ConnectionInv /\ LinkOK /\ \A e \in Ends : Way(e)

-----------------------------------------------------------------------------
\* A step that moves nothing of direction e: the reader may stop, and what a
\* closed writer has left does not matter.
LEMMA WayFrame ==
  ASSUME NEW e \in Ends, Way(e),
         wire'[e] = wire[e], sent'[e] = sent[e],
         m_qMessagesIn'[Peer(e)] = m_qMessagesIn[Peer(e)],
         m_msgTemporaryIn'[Peer(e)] = m_msgTemporaryIn[Peer(e)],
         \/ reading'[Peer(e)] = "stopped"
         \/ /\ reading[Peer(e)] # "stopped" /\ Held(Peer(e))' = Held(Peer(e))
            /\ reading'[Peer(e)] = "bodyDone" => reading[Peer(e)] = "bodyDone",
         isOpen'[e] => /\ isOpen[e]
                       /\ BegunBy(e)' = BegunBy(e) /\ posted'[e] = posted[e]
                       /\ m_qMessagesOut'[e] = m_qMessagesOut[e]
  PROVE  Way(e)'
<1>1. PrefixArrived(e)'
  BY DEF Way, PrefixArrived
<1>2. ASSUME reading'[Peer(e)] # "stopped" PROVE OnTheWay(e)'
  <2>1. PICK at : WireNumbered(e, at) /\ (isOpen[e] => StillHere(e, at[Len(wire[e])]))
    BY <1>2 DEF Way, OnTheWay
  <2>2. ReaderFollows(e)'
    BY <1>2 DEF Way, OnTheWay, ReaderFollows
  <2>3. WireNumbered(e, at)'
    BY <1>2, <2>1 DEF WireNumbered
  <2>4. ASSUME isOpen'[e] PROVE StillHere(e, at[Len(wire[e])])'
    <3>1. PICK n \in Nat : /\ n + BegunBy(e) = at[Len(wire[e])] /\ QueueNumbered(e, n)
                           /\ \E due : TasksNumbered(e, n, due)
      BY <2>1, <2>4 DEF StillHere
    <3>2. PICK due : TasksNumbered(e, n, due)
      BY <3>1
    <3>3. TasksNumbered(e, n, due)'
      BY <2>4, <3>2 DEF TasksNumbered
    <3>4. n + BegunBy(e)' = at[Len(wire'[e])] /\ QueueNumbered(e, n)'
      BY <2>4, <3>1 DEF QueueNumbered
    <3>. QED BY <3>3, <3>4 DEF StillHere
  <2>. QED BY <2>2, <2>3, <2>4 DEF OnTheWay
<1>. QED BY <1>1, <1>2 DEF Way

\* A task is posted: a close, or a send of what is appended to sent.
LEMMA PostWay ==
  ASSUME NEW e \in Ends, Way(e), ConnectionTypeOK, NEW t \in TaskSet,
         posted'[e] = Append(posted[e], t),
         \/ t.run = "close" /\ sent'[e] = sent[e]
         \/ t.run = "send" /\ t.msg \in Message /\ sent'[e] = Append(sent[e], t.msg),
         wire'[e] = wire[e], writing'[e] = writing[e],
         m_qMessagesOut'[e] = m_qMessagesOut[e],
         m_qMessagesIn'[Peer(e)] = m_qMessagesIn[Peer(e)],
         m_msgTemporaryIn'[Peer(e)] = m_msgTemporaryIn[Peer(e)],
         reading'[Peer(e)] = reading[Peer(e)], isOpen'[e] = isOpen[e]
  PROVE  Way(e)'
<1> DEFINE L == Len(sent[e])
           P == Len(posted[e])
           s == sent[e]
           k == Len(m_qMessagesIn[Peer(e)])
<1>0. /\ L \in Nat /\ P \in Nat /\ s \in Seq(Message) /\ posted[e] \in Seq(TaskSet)
      /\ k \in Nat
  BY TwoEnds, LenProperties DEF ConnectionTypeOK
<1>1. /\ TasksAdd(t) \in {0, 1}
      /\ (t.run = "send") <=> (TasksAdd(t) = 1)
      /\ Len(sent'[e]) = L + TasksAdd(t)
      /\ \A i \in 1 .. L : sent'[e][i] = s[i]
      /\ t.run = "send" => sent'[e][L + 1] = t.msg
  <2>1. CASE t.run = "close"
    BY <1>0, <2>1 DEF TasksAdd
  <2>2. CASE t.run = "send" /\ t.msg \in Message /\ sent'[e] = Append(s, t.msg)
    BY <1>0, <2>2, AppendProperties DEF TasksAdd
  <2>. QED BY <2>1, <2>2
<1>2. /\ Len(posted'[e]) = P + 1
      /\ \A i \in 1 .. P : posted'[e][i] = posted[e][i]
      /\ posted'[e][P + 1] = t
  BY <1>0, AppendProperties
<1>3. Len(sent'[e]) \in Nat /\ L <= Len(sent'[e])
  BY <1>0, <1>1
<1>. HIDE DEF L, P
<1>4. PrefixArrived(e)'
  <2>1. k <= L /\ \A i \in 1 .. k : Visible(m_qMessagesIn[Peer(e)][i]) = s[i]
    BY DEF Way, PrefixArrived, L
  <2>2. \A i \in 1 .. k : i \in 1 .. L
    BY <1>0, <2>1
  <2>3. k <= Len(sent'[e])
    BY <1>0, <1>3, <2>1
  <2>4. \A i \in 1 .. k : Visible(m_qMessagesIn[Peer(e)][i]) = sent'[e][i]
    BY <1>1, <2>1, <2>2
  <2>. QED BY <2>3, <2>4 DEF PrefixArrived
<1>5. ASSUME reading[Peer(e)] # "stopped" PROVE OnTheWay(e)'
  <2>1. PICK at : WireNumbered(e, at) /\ (isOpen[e] => StillHere(e, at[Len(wire[e])]))
    BY <1>5 DEF Way, OnTheWay
  <2>2. ReaderFollows(e)'
    <3>1. ReaderFollows(e) /\ Held(Peer(e))' = Held(Peer(e))
      BY <1>5 DEF Way, OnTheWay, Held
    <3>2. ASSUME Held(Peer(e)) = 1 PROVE k + 1 \in 1 .. L
      BY <1>0, <3>1, <3>2 DEF ReaderFollows, L
    <3>3. ASSUME Held(Peer(e)) = 1 PROVE sent'[e][k + 1] = s[k + 1] /\ k + 1 <= Len(sent'[e])
      BY <1>0, <1>1, <1>3, <3>2, <3>3
    <3>. QED BY <3>1, <3>3 DEF ReaderFollows
  <2>3. WireNumbered(e, at)'
    <3>1. ASSUME NEW i \in 1 .. Len(wire[e]) PROVE at[i] \in 1 .. L
      BY <2>1 DEF WireNumbered, L
    <3>2. ASSUME NEW i \in 1 .. Len(wire[e])
          PROVE  at[i] \in 1 .. Len(sent'[e]) /\ sent'[e][at[i]] = s[at[i]]
      BY <1>0, <1>1, <1>3, <3>1
    <3>. QED BY <2>1, <3>2 DEF WireNumbered, Held
  <2>4. ASSUME isOpen[e] PROVE StillHere(e, at[Len(wire[e])])'
    <3>1. PICK n \in Nat : /\ n + BegunBy(e) = at[Len(wire[e])] /\ QueueNumbered(e, n)
                           /\ \E due : TasksNumbered(e, n, due)
      BY <2>1, <2>4 DEF StillHere
    <3>2. PICK due : TasksNumbered(e, n, due)
      BY <3>1
    <3>3. n + BegunBy(e)' = at[Len(wire'[e])] /\ QueueNumbered(e, n)'
      <4>1. n + BegunBy(e)' = at[Len(wire'[e])]
        BY <3>1 DEF BegunBy
      <4>2. ASSUME NEW j \in 1 .. Len(m_qMessagesOut[e])
            PROVE  n + j <= Len(sent'[e]) /\ m_qMessagesOut[e][j] = sent'[e][n + j]
        <5>1. n + j \in 1 .. L /\ m_qMessagesOut[e][j] = s[n + j]
          BY <1>0, <3>1 DEF QueueNumbered, L
        <5>. QED BY <1>0, <1>1, <1>3, <5>1
      <4>. QED BY <4>1, <4>2 DEF QueueNumbered
    <3>9. PICK due2 : due2 = [i \in 0 .. P + 1 |-> IF i = P + 1 THEN L + TasksAdd(t) ELSE due[i]]
      OBVIOUS
    <3>4. /\ due \in [0 .. P -> Nat] /\ due[P] = L /\ due[0] = n + Len(m_qMessagesOut[e])
          /\ \A i \in 1 .. P :
               /\ due[i] = due[i - 1] + TasksAdd(posted[e][i])
               /\ posted[e][i].run = "send" =>
                    due[i] \in 1 .. L /\ posted[e][i].msg = s[due[i]]
      BY <3>2 DEF TasksNumbered, P, L
    <3>5. due2 \in [0 .. P + 1 -> Nat]
      BY <1>0, <1>1, <3>4, <3>9
    <3>6. /\ due2[P + 1] = L + TasksAdd(t) /\ 0 \in 0 .. P /\ P \in 0 .. P
          /\ \A i \in 0 .. P : due2[i] = due[i]
      BY <1>0, <3>9
    <3>7. ASSUME NEW i \in 1 .. P + 1
          PROVE  /\ due2[i] = due2[i - 1] + TasksAdd(posted'[e][i])
                 /\ posted'[e][i].run = "send" =>
                      due2[i] \in 1 .. Len(sent'[e]) /\ posted'[e][i].msg = sent'[e][due2[i]]
      <4>1. CASE i = P + 1
        <5>1. i - 1 = P
          BY <1>0, <4>1
        <5>2. due2[i] = L + TasksAdd(t) /\ due2[i - 1] = L /\ posted'[e][i] = t
          BY <1>2, <3>4, <3>6, <4>1, <5>1
        <5>3. t.run = "send" => L + TasksAdd(t) = L + 1 /\ L + 1 \in 1 .. Len(sent'[e])
          BY <1>0, <1>1
        <5>4. t.run = "send" => t.msg = sent'[e][L + 1]
          BY <1>1
        <5>. QED BY <5>2, <5>3, <5>4
      <4>2. CASE i # P + 1
        <5>1. i \in 1 .. P /\ i - 1 \in 0 .. P /\ i \in 0 .. P
          BY <1>0, <4>2
        <5>2. due2[i] = due[i] /\ due2[i - 1] = due[i - 1] /\ posted'[e][i] = posted[e][i]
          BY <1>2, <3>6, <5>1
        <5>3. due[i] \in 1 .. L => due[i] \in 1 .. Len(sent'[e]) /\ sent'[e][due[i]] = s[due[i]]
          BY <1>0, <1>1, <1>3
        <5>4. /\ due[i] = due[i - 1] + TasksAdd(posted[e][i])
              /\ posted[e][i].run = "send" => due[i] \in 1 .. L /\ posted[e][i].msg = s[due[i]]
          BY <3>4, <5>1
        <5>5. due2[i] = due2[i - 1] + TasksAdd(posted'[e][i])
          BY <5>2, <5>4
        <5>6. ASSUME posted'[e][i].run = "send"
              PROVE  due2[i] \in 1 .. Len(sent'[e]) /\ posted'[e][i].msg = sent'[e][due2[i]]
          BY <5>2, <5>3, <5>4, <5>6
        <5>. QED BY <5>5, <5>6
      <4>. QED BY <4>1, <4>2
    <3>8. TasksNumbered(e, n, due2)'
      BY <1>1, <1>2, <3>4, <3>5, <3>6, <3>7 DEF TasksNumbered
    <3>. QED BY <3>3, <3>8 DEF StillHere
  <2>. QED BY <2>1, <2>2, <2>3, <2>4 DEF OnTheWay
<1>. QED BY <1>4, <1>5 DEF Way

\* The task of Send runs on an open socket: the message moves from the first
\* task to the end of m_qMessagesOut.
LEMMA RunSendWay ==
  ASSUME NEW e \in Ends, Way(e), ConnectionTypeOK, ChainAt(e), RunSend(e)
  PROVE  Way(e)'
<1> DEFINE q == m_qMessagesOut[e]
           t == posted[e]
           m == Head(posted[e]).msg
           k == Len(q)
           P == Len(t)
<1>1. t \in Seq(TaskSet) /\ t # <<>> /\ q \in Seq(Message) /\ k \in Nat /\ P \in Nat
  BY LenProperties DEF RunSend, NextTask, ConnectionTypeOK
<1>2. /\ Head(t) \in TaskSet /\ Head(t).run = "send" /\ Head(t) = t[1]
      /\ Len(Tail(t)) = P - 1 /\ P > 0
      /\ \A i \in 1 .. P - 1 : Tail(t)[i] = t[i + 1]
  BY <1>1, HeadTailProperties, EmptySeq DEF RunSend, NextTask
<1>3. m \in Message
  BY <1>2 DEF TaskSet, SendTask, CloseTask
<1>4. /\ m_qMessagesOut'[e] = Append(q, m) /\ posted'[e] = Tail(t)
      /\ writing'[e] = writing[e] \/ (q = <<>> /\ writing'[e] = "header")
      /\ UNCHANGED <<link, isOpen, wire, readVars, sent>>
  BY DEF RunSend, NextTask, ConnectionTypeOK
<1>5. /\ Len(Append(q, m)) = k + 1 /\ Append(q, m)[k + 1] = m
      /\ \A j \in 1 .. k : Append(q, m)[j] = q[j]
  BY <1>1, <1>3, AppendProperties
<1>6. BegunBy(e)' = BegunBy(e)
  BY <1>4 DEF BegunBy, ChainAt
<1>7. PrefixArrived(e)'
  BY <1>4 DEF Way, PrefixArrived, readVars
<1>. HIDE DEF m
<1>8. ASSUME reading[Peer(e)] # "stopped" PROVE OnTheWay(e)'
  <2>1. PICK at : WireNumbered(e, at) /\ (isOpen[e] => StillHere(e, at[Len(wire[e])]))
    BY <1>8 DEF Way, OnTheWay
  <2>2. ReaderFollows(e)' /\ WireNumbered(e, at)'
    BY <1>4, <1>8, <2>1 DEF Way, OnTheWay, ReaderFollows, WireNumbered, Held, readVars
  <2>3. ASSUME isOpen[e] PROVE StillHere(e, at[Len(wire[e])])'
    <3>1. PICK n \in Nat : /\ n + BegunBy(e) = at[Len(wire[e])] /\ QueueNumbered(e, n)
                           /\ \E due : TasksNumbered(e, n, due)
      BY <2>1, <2>3 DEF StillHere
    <3>2. PICK due : TasksNumbered(e, n, due)
      BY <3>1
    <3>3. /\ due \in [0 .. P -> Nat] /\ due[0] = n + k
          /\ \A i \in 1 .. P :
               /\ due[i] = due[i - 1] + TasksAdd(t[i])
               /\ t[i].run = "send" => due[i] \in 1 .. Len(sent[e]) /\ t[i].msg = sent[e][due[i]]
          /\ due[P] = Len(sent[e])
      BY <3>2 DEF TasksNumbered
    <3>4. due[1] = n + k + 1 /\ due[1] <= Len(sent[e]) /\ m = sent[e][n + k + 1]
      <4>1. 1 \in 1 .. P /\ 1 - 1 = 0 /\ t[1].run = "send" /\ TasksAdd(t[1]) = 1
            /\ t[1].msg = m
        BY <1>1, <1>2 DEF TasksAdd, m
      <4>. QED BY <1>1, <3>3, <4>1
    <3>5. QueueNumbered(e, n)'
      <4>1. ASSUME NEW j \in 1 .. k + 1
            PROVE  n + j <= Len(sent[e]) /\ Append(q, m)[j] = sent[e][n + j]
        <5>1. CASE j = k + 1
          BY <1>1, <1>5, <3>4, <5>1
        <5>2. CASE j # k + 1
          BY <1>1, <1>5, <3>1, <5>2 DEF QueueNumbered
        <5>. QED BY <5>1, <5>2
      <4>. QED BY <1>4, <1>5, <4>1 DEF QueueNumbered
    <3>6. PICK due2 : due2 = [i \in 0 .. P - 1 |-> due[i + 1]]
      OBVIOUS
    <3>7. TasksNumbered(e, n, due2)'
      <4>1. due2 \in [0 .. P - 1 -> Nat] /\ due2[0] = due[1] /\ due2[P - 1] = due[P]
        BY <1>1, <1>2, <3>3, <3>6
      <4>2. ASSUME NEW i \in 1 .. P - 1
            PROVE  /\ due2[i] = due2[i - 1] + TasksAdd(Tail(t)[i])
                   /\ Tail(t)[i].run = "send" =>
                        due2[i] \in 1 .. Len(sent[e]) /\ Tail(t)[i].msg = sent[e][due2[i]]
        <5>1. i + 1 \in 1 .. P /\ (i + 1) - 1 = i /\ due2[i] = due[i + 1] /\ due2[i - 1] = due[i]
          BY <1>1, <3>6
        <5>. QED BY <1>2, <3>3, <5>1
      <4>3. due2[0] = n + (k + 1)
        BY <1>1, <3>4, <4>1
      <4>. QED BY <1>2, <1>4, <1>5, <3>3, <4>1, <4>2, <4>3 DEF TasksNumbered
    <3>8. n + BegunBy(e)' = at[Len(wire'[e])]
      BY <1>4, <1>6, <3>1
    <3>. QED BY <3>5, <3>7, <3>8 DEF StillHere
  <2>. QED BY <1>4, <2>1, <2>2, <2>3 DEF OnTheWay
<1>. QED BY <1>4, <1>7, <1>8 DEF Way, readVars

\* A part of the message being written is put on the wire: the header begins
\* the next number, the body has the number of its header.
LEMMA TransmitWay ==
  ASSUME NEW e \in Ends, Way(e), ConnectionTypeOK, ChainAt(e), Transmit(e)
  PROVE  Way(e)'
<1> DEFINE m == BeingWritten(e)
           w == wire[e]
           W == Len(wire[e])
<1>1. PICK p :
        /\ wire'[e] = Append(w, p)
        /\ \/ writing[e] = "header" /\ writing'[e] = "headerDone" /\ p = HeaderPart(m)
           \/ writing[e] = "body" /\ writing'[e] = "bodyDone" /\ p = BodyPart(m)
  BY DEF Transmit, ConnectionTypeOK
<1>2. isOpen[e] /\ UNCHANGED <<link, isOpen, posted, m_qMessagesOut, readVars, sent>>
  BY DEF Transmit
<1>3. m \in Message /\ m_qMessagesOut[e] \in Seq(Message) /\ m = m_qMessagesOut[e][1]
      /\ 1 \in 1 .. Len(m_qMessagesOut[e])
  BY <1>1, HeadTailProperties, EmptySeq, LenProperties
  DEF ConnectionTypeOK, ChainAt, BeingWritten
<1>. HIDE DEF m
<1>4. /\ w \in Seq(Parts) /\ W \in Nat /\ Len(Append(w, p)) = W + 1
      /\ Append(w, p)[W + 1] = p /\ \A i \in 1 .. W : Append(w, p)[i] = w[i]
  BY <1>1, <1>3, WrittenParts, AppendProperties, LenProperties DEF ConnectionTypeOK
<1>5. PartOf(p, m) /\ BegunBy(e)' = 1
      /\ PartsAdd(p) + BegunBy(e) = 1 /\ PartsAdd(p) \in {0, 1} /\ BegunBy(e) \in {0, 1}
  BY <1>1 DEF PartOf, HeaderPart, BodyPart, PartsAdd, BegunBy
<1>6. PrefixArrived(e)'
  BY <1>2 DEF Way, PrefixArrived, readVars
<1>7. ASSUME reading[Peer(e)] # "stopped" PROVE OnTheWay(e)'
  <2>1. PICK at : WireNumbered(e, at) /\ StillHere(e, at[Len(wire[e])])
    BY <1>2, <1>7 DEF Way, OnTheWay
  <2>2. PICK n \in Nat : /\ n + BegunBy(e) = at[W] /\ QueueNumbered(e, n)
                         /\ \E due : TasksNumbered(e, n, due)
    BY <2>1 DEF StillHere
  <2>3. n + 1 <= Len(sent[e]) /\ m = sent[e][n + 1]
    BY <1>3, <2>2 DEF QueueNumbered
  <2>4. PICK at2 : at2 = [i \in 0 .. W + 1 |-> IF i = W + 1 THEN n + 1 ELSE at[i]]
    OBVIOUS
  <2>5. /\ at \in [0 .. W -> Nat]
        /\ at[0] = Len(m_qMessagesIn[Peer(e)]) + Held(Peer(e))
        /\ \A i \in 1 .. W : /\ at[i] = at[i - 1] + PartsAdd(w[i])
                           /\ at[i] \in 1 .. Len(sent[e])
                           /\ PartOf(w[i], sent[e][at[i]])
    BY <2>1 DEF WireNumbered
  <2>6. at2 \in [0 .. W + 1 -> Nat] /\ at2[W + 1] = n + 1 /\ \A i \in 0 .. W : at2[i] = at[i]
    BY <1>4, <2>4, <2>5
  <2>7. ASSUME NEW i \in 1 .. W + 1
        PROVE  /\ at2[i] = at2[i - 1] + PartsAdd(Append(w, p)[i])
               /\ at2[i] \in 1 .. Len(sent[e])
               /\ PartOf(Append(w, p)[i], sent[e][at2[i]])
    <3>1. CASE i = W + 1
      <4>1. i - 1 = W /\ at2[i - 1] = at[W] /\ at2[i] = n + 1 /\ Append(w, p)[i] = p
        BY <1>4, <2>6, <3>1
      <4>2. n + 1 = at[W] + PartsAdd(p)
        BY <1>5, <2>2
      <4>3. n + 1 \in 1 .. Len(sent[e])
        BY <2>3, LenProperties DEF ConnectionTypeOK
      <4>. QED BY <1>5, <2>3, <4>1, <4>2, <4>3
    <3>2. CASE i # W + 1
      <4>1. i \in 1 .. W /\ i \in 0 .. W /\ i - 1 \in 0 .. W
        BY <1>4, <3>2
      <4>2. at2[i] = at[i] /\ at2[i - 1] = at[i - 1] /\ Append(w, p)[i] = w[i]
        BY <1>4, <2>6, <4>1
      <4>. QED BY <2>5, <4>1, <4>2
    <3>. QED BY <3>1, <3>2
  <2>8. WireNumbered(e, at2)'
    <3>1. at2[0] = Len(m_qMessagesIn[Peer(e)]) + Held(Peer(e))
      BY <1>4, <2>5, <2>6
    <3>2. Held(Peer(e))' = Held(Peer(e)) /\ m_qMessagesIn' = m_qMessagesIn
      BY <1>2 DEF Held, readVars
    <3>. QED BY <1>1, <1>2, <1>4, <2>6, <2>7, <3>1, <3>2 DEF WireNumbered
  <2>9. StillHere(e, at2[Len(wire[e])])'
    <3>1. QueueNumbered(e, n)' /\ \E due : TasksNumbered(e, n, due)'
      BY <1>2, <2>2 DEF QueueNumbered, TasksNumbered
    <3>2. n + BegunBy(e)' = at2[Len(wire'[e])]
      BY <1>1, <1>4, <1>5, <2>6
    <3>. QED BY <3>1, <3>2 DEF StillHere
  <2>10. ReaderFollows(e)'
    BY <1>2, <1>7 DEF Way, OnTheWay, ReaderFollows, Held, readVars
  <2>. QED BY <2>8, <2>9, <2>10 DEF OnTheWay
<1>. QED BY <1>2, <1>6, <1>7 DEF Way, readVars

\* A message has been written: it leaves m_qMessagesOut.
LEMMA WriteNextWay ==
  ASSUME NEW e \in Ends, Way(e), ConnectionTypeOK, ChainAt(e), WriteNext(e),
         writing[e] \in {"headerDone", "bodyDone"},
         UNCHANGED <<link, isOpen, posted, wire, readVars, sent>>
  PROVE  Way(e)'
<1> DEFINE q == m_qMessagesOut[e]
           k == Len(q)
<1>1. q \in Seq(Message) /\ q # <<>> /\ m_qMessagesOut'[e] = Tail(q)
  BY DEF ConnectionTypeOK, ChainAt, WriteNext
<1>2. k \in Nat /\ k > 0 /\ Len(Tail(q)) = k - 1 /\ \A j \in 1 .. k - 1 : Tail(q)[j] = q[j + 1]
  BY <1>1, HeadTailProperties, EmptySeq, LenProperties
<1>3. BegunBy(e) = 1 /\ BegunBy(e)' = 0
  BY DEF BegunBy, WriteNext, ConnectionTypeOK
<1>4. PrefixArrived(e)'
  BY DEF Way, PrefixArrived, readVars
<1>5. ASSUME reading[Peer(e)] # "stopped" PROVE OnTheWay(e)'
  <2>1. PICK at : WireNumbered(e, at) /\ (isOpen[e] => StillHere(e, at[Len(wire[e])]))
    BY <1>5 DEF Way, OnTheWay
  <2>2. ReaderFollows(e)' /\ WireNumbered(e, at)'
    BY <1>5, <2>1 DEF Way, OnTheWay, ReaderFollows, WireNumbered, Held, readVars
  <2>3. ASSUME isOpen[e] PROVE StillHere(e, at[Len(wire[e])])'
    <3>1. PICK n \in Nat : /\ n + 1 = at[Len(wire[e])] /\ QueueNumbered(e, n)
                           /\ \E due : TasksNumbered(e, n, due)
      BY <1>3, <2>1, <2>3 DEF StillHere
    <3>2. QueueNumbered(e, n + 1)'
      <4>1. ASSUME NEW j \in 1 .. k - 1
            PROVE  (n + 1) + j <= Len(sent[e]) /\ Tail(q)[j] = sent[e][(n + 1) + j]
        <5>1. j + 1 \in 1 .. k /\ n + (j + 1) = (n + 1) + j
          BY <1>2
        <5>. QED BY <1>2, <3>1, <5>1 DEF QueueNumbered
      <4>. QED BY <1>1, <1>2, <4>1 DEF QueueNumbered
    <3>3. \E due : TasksNumbered(e, n + 1, due)'
      <4>1. PICK due : TasksNumbered(e, n, due)
        BY <3>1
      <4>2. \A x, y \in Nat : x + y = (x + 1) + (y - 1)
        OBVIOUS
      <4>3. n + k = (n + 1) + (k - 1)
        BY <1>2, <4>2
      <4>. QED BY <1>1, <1>2, <4>1, <4>3 DEF TasksNumbered
    <3>4. (n + 1) + BegunBy(e)' = at[Len(wire'[e])] /\ n + 1 \in Nat
      BY <1>3, <3>1
    <3>. QED BY <3>2, <3>3, <3>4 DEF StillHere
  <2>. QED BY <2>1, <2>2, <2>3 DEF OnTheWay
<1>. QED BY <1>4, <1>5 DEF Way, readVars

-----------------------------------------------------------------------------
\* The reader of end e takes the first part off its peer's wire.
LEMMA ReceiveWay ==
  ASSUME NEW e \in Ends, Way(Peer(e)), ConnectionTypeOK, Receive(e)
  PROVE  Way(Peer(e))'
<1> DEFINE f == Peer(e)
           w == wire[Peer(e)]
           W == Len(wire[Peer(e)])
           p == Head(wire[Peer(e)])
           k == Len(m_qMessagesIn[e])
           t == m_msgTemporaryIn[e]
<1>1. /\ Peer(e) \in Ends /\ Peer(Peer(e)) = e /\ w \in Seq(Parts) /\ w # <<>> /\ W \in Nat
      /\ t \in Received /\ k \in Nat /\ sent[f] \in Seq(Message)
  BY TwoEnds, LenProperties DEF Receive, ConnectionTypeOK
<1>2. /\ p = w[1] /\ W > 0 /\ Len(Tail(w)) = W - 1
      /\ \A i \in 1 .. W - 1 : Tail(w)[i] = w[i + 1]
  BY <1>1, HeadTailProperties, EmptySeq
<1>3. /\ reading[e] \in {"header", "body"} /\ p.part = reading[e]
      /\ wire'[f] = Tail(w)
      /\ \/ /\ p.part = "header" /\ reading'[e] = "headerDone"
            /\ m_msgTemporaryIn'[e] = [id |-> p.id, size |-> p.size, body |-> t.body]
         \/ /\ p.part = "body" /\ reading'[e] = "bodyDone"
            /\ m_msgTemporaryIn'[e] = [id |-> t.id, size |-> t.size, body |-> p.body]
      /\ UNCHANGED <<link, isOpen, posted, writeVars, m_qMessagesIn, sent>>
  BY <1>1 DEF Receive, ConnectionTypeOK
<1>. HIDE DEF p
<1>4. PrefixArrived(f)'
  BY <1>1, <1>3 DEF Way, PrefixArrived
<1>5. PICK at : WireNumbered(f, at) /\ (isOpen[f] => StillHere(f, at[W]))
  BY <1>1, <1>3 DEF Way, OnTheWay
<1>6. /\ at \in [0 .. W -> Nat] /\ at[0] = k + Held(e)
      /\ \A i \in 1 .. W : /\ at[i] = at[i - 1] + PartsAdd(w[i])
                         /\ at[i] \in 1 .. Len(sent[f])
                         /\ PartOf(w[i], sent[f][at[i]])
  BY <1>1, <1>5 DEF WireNumbered
<1>7. /\ at[1] = k + Held(e) + PartsAdd(p) /\ at[1] \in 1 .. Len(sent[f])
      /\ PartOf(p, sent[f][at[1]])
  <2>1. 1 \in 1 .. W /\ 1 - 1 = 0
    BY <1>1, <1>2
  <2>. QED BY <1>2, <1>6, <2>1
<1>8. Held(e)' = 1 /\ at[1] = k + 1
  <2>1. Held(e)' = 1
    BY <1>3 DEF Held
  <2>2. Held(e) + PartsAdd(p) = 1 /\ Held(e) \in {0, 1} /\ PartsAdd(p) \in {0, 1}
    BY <1>3 DEF Held, PartsAdd
  <2>. QED BY <1>1, <1>7, <2>1, <2>2
<1>9. ReaderFollows(f)'
  <2>1. CASE p.part = "header"
    <3>1. p.id = sent[f][k + 1].id /\ p.size = sent[f][k + 1].size
      BY <1>7, <1>8, <2>1 DEF PartOf, HeaderPart, BodyPart
    <3>. QED BY <1>1, <1>3, <1>7, <1>8, <2>1, <3>1 DEF ReaderFollows
  <2>2. CASE p.part = "body"
    <3>1. p.body = sent[f][k + 1].body
      BY <1>7, <1>8, <2>2 DEF PartOf, HeaderPart, BodyPart
    <3>2. t.id = sent[f][k + 1].id /\ t.size = sent[f][k + 1].size
      BY <1>1, <1>3, <2>2 DEF Way, OnTheWay, ReaderFollows, Held
    <3>. QED BY <1>1, <1>3, <1>7, <1>8, <2>2, <3>1, <3>2 DEF ReaderFollows
  <2>. QED BY <1>3, <2>1, <2>2
<1>10. PICK at2 : at2 = [i \in 0 .. W - 1 |-> at[i + 1]]
  OBVIOUS
<1>11. at2 \in [0 .. W - 1 -> Nat] /\ at2[0] = at[1] /\ at2[W - 1] = at[W]
  BY <1>1, <1>2, <1>6, <1>10
<1>12. WireNumbered(f, at2)'
  <2>1. ASSUME NEW i \in 1 .. W - 1
        PROVE  /\ at2[i] = at2[i - 1] + PartsAdd(Tail(w)[i])
               /\ at2[i] \in 1 .. Len(sent[f])
               /\ PartOf(Tail(w)[i], sent[f][at2[i]])
    <3>1. i + 1 \in 1 .. W /\ (i + 1) - 1 = i /\ at2[i] = at[i + 1] /\ at2[i - 1] = at[i]
      BY <1>1, <1>10
    <3>. QED BY <1>2, <1>6, <3>1
  <2>. QED BY <1>1, <1>2, <1>3, <1>8, <1>11, <2>1 DEF WireNumbered
<1>13. ASSUME isOpen[f] PROVE StillHere(f, at2[Len(wire[f])])'
  <2>1. at2[Len(wire'[f])] = at[W]
    BY <1>2, <1>3, <1>11
  <2>. QED BY <1>3, <1>5, <1>13, <2>1
       DEF StillHere, BegunBy, QueueNumbered, TasksNumbered, writeVars
<1>. QED BY <1>3, <1>4, <1>9, <1>12, <1>13 DEF Way, OnTheWay

\* The message in the reader of end e is given to the incoming queue.
LEMMA DeliverWay ==
  ASSUME NEW e \in Ends, Way(Peer(e)), ConnectionTypeOK, AddToIncomingMessageQueue(e),
         \/ reading[e] = "headerDone" /\ m_msgTemporaryIn[e].size = 0
         \/ reading[e] = "bodyDone",
         UNCHANGED <<link, isOpen, posted, writeVars, wire, m_msgTemporaryIn, sent>>
  PROVE  /\ Way(Peer(e))'
         /\ Len(m_qMessagesIn[e]) + 1 <= Len(sent[Peer(e)])
         /\ Visible(m_msgTemporaryIn[e]) = sent[Peer(e)][Len(m_qMessagesIn[e]) + 1]
<1> DEFINE f == Peer(e)
           q == m_qMessagesIn[e]
           k == Len(m_qMessagesIn[e])
           t == m_msgTemporaryIn[e]
           s == sent[Peer(e)]
<1>1. /\ Peer(e) \in Ends /\ Peer(Peer(e)) = e /\ t \in Received /\ q \in Seq(Received)
      /\ k \in Nat /\ s \in Seq(Message) /\ Len(s) \in Nat
  BY TwoEnds, LenProperties DEF ConnectionTypeOK
<1>2. /\ m_qMessagesIn'[e] = Append(q, t) /\ reading'[e] = "header"
      /\ Held(e) = 1 /\ Held(e)' = 0
  BY DEF AddToIncomingMessageQueue, ConnectionTypeOK, Held
<1>3. Len(Append(q, t)) = k + 1 /\ Append(q, t)[k + 1] = t
      /\ \A i \in 1 .. k : Append(q, t)[i] = q[i]
  BY <1>1, AppendProperties
<1>4. ReaderFollows(f) /\ PrefixArrived(f)
  BY <1>1 DEF Way, OnTheWay
<1>5. k + 1 \in 1 .. Len(s)
  BY <1>1, <1>2, <1>4 DEF ReaderFollows
<1>6. Visible(t) = s[k + 1]
  <2>1. PICK id \in Ids, b \in Bodies : s[k + 1] = [id |-> id, size |-> Len(b), body |-> b]
    <3>1. s[k + 1] \in Message
      BY <1>1, <1>5, ElementOfSeq
    <3>2. \A m \in Message : \E id \in Ids, b \in Bodies : m = [id |-> id, size |-> Len(b), body |-> b]
      BY DEF Message, MessageOf
    <3>. QED BY <3>1, <3>2
  <2>2. b \in Seq(0 .. 255)
    BY ConnectionAssumption
  <2>3. Len(b) = 0 => b = <<>>
    BY <2>2, EmptySeq
  <2>4. t.id = id /\ t.size = Len(b) /\ (reading[e] = "bodyDone" => t.body = b)
    BY <1>1, <1>2, <1>4, <2>1 DEF ReaderFollows
  <2>5. t = [id |-> t.id, size |-> t.size, body |-> t.body]
    BY <1>1 DEF Received
  <2>6. CASE t.size = 0
    BY <2>1, <2>3, <2>4, <2>5, <2>6 DEF Visible
  <2>7. CASE t.size # 0
    BY <2>1, <2>4, <2>5, <2>7 DEF Visible
  <2>. QED BY <2>6, <2>7
<1>7. PrefixArrived(f)'
  <2>1. ASSUME NEW i \in 1 .. k + 1 PROVE Visible(Append(q, t)[i]) = s[i]
    BY <1>1, <1>3, <1>4, <1>6 DEF PrefixArrived
  <2>. QED BY <1>1, <1>2, <1>3, <1>5, <2>1 DEF PrefixArrived
<1>8. ReaderFollows(f)'
  BY <1>1, <1>2 DEF ReaderFollows
<1>9. PICK at : WireNumbered(f, at) /\ (isOpen[f] => StillHere(f, at[Len(wire[f])]))
  BY <1>1 DEF Way, OnTheWay
<1>10. WireNumbered(f, at)'
  <2>1. at[0] = Len(m_qMessagesIn'[e]) + Held(e)'
    BY <1>1, <1>2, <1>3, <1>9 DEF WireNumbered
  <2>. QED BY <1>1, <1>9, <2>1 DEF WireNumbered
<1>11. isOpen[f] => StillHere(f, at[Len(wire[f])])'
  BY <1>9 DEF StillHere, BegunBy, QueueNumbered, TasksNumbered, writeVars
<1>. QED BY <1>5, <1>6, <1>7, <1>8, <1>10, <1>11 DEF Way, OnTheWay

-----------------------------------------------------------------------------
LEMMA ChannelInvInit == Init => ChannelInv
<1> SUFFICES ASSUME Init PROVE ChannelInv
  OBVIOUS
<1>1. LinkOK
  BY DEF Init, LinkOK
<1>2. ASSUME NEW e \in Ends PROVE Way(e)
  <2>1. /\ Peer(e) \in Ends /\ Held(Peer(e)) = 0 /\ BegunBy(e) = 0 /\ isOpen[e]
        /\ m_qMessagesIn[Peer(e)] = <<>> /\ sent[e] = <<>> /\ wire[e] = <<>>
        /\ m_qMessagesOut[e] = <<>> /\ posted[e] = <<>>
    BY TwoEnds DEF Init, Held, BegunBy
  <2>2. PICK at : at = [i \in 0 .. 0 |-> 0]
    OBVIOUS
  <2>3. at \in [0 .. 0 -> Nat] /\ at[0] = 0
    BY <2>2
  <2>4. WireNumbered(e, at)
    BY <2>1, <2>3 DEF WireNumbered
  <2>5. QueueNumbered(e, 0) /\ TasksNumbered(e, 0, at)
    BY <2>1, <2>3 DEF QueueNumbered, TasksNumbered
  <2>6. StillHere(e, at[Len(wire[e])])
    BY <2>1, <2>3, <2>5 DEF StillHere
  <2>. QED BY <2>1, <2>4, <2>6 DEF Way, OnTheWay, PrefixArrived, ReaderFollows
<1>. QED BY <1>1, <1>2, ConnectionInvInit DEF ChannelInv

LEMMA LinkStep == ChannelInv /\ [Next]_vars => LinkOK'
<1> SUFFICES ASSUME ChannelInv, [Next]_vars PROVE LinkOK'
  OBVIOUS
<1> USE DEF ChannelInv, LinkOK
<1>0. Client \in Ends /\ Server \in Ends /\ reading \in [Ends -> {"unstarted", "header",
        "headerDone", "body", "bodyDone", "stopped"}]
  BY DEF Ends, ConnectionInv, ConnectionTypeOK
<1>1. CASE Established \/ Refused \/ LinkFails
  BY <1>1 DEF Established, Refused, LinkFails, readVars
<1>2. CASE ConnectToServer
  BY <1>0, <1>2 DEF ConnectToServer
<1>3. CASE ConnectToClient
  BY <1>0, <1>3 DEF ConnectToClient
<1>4. CASE ProgramEnds
  BY <1>0, <1>4 DEF ProgramEnds
<1>5. ASSUME NEW e \in Ends,
             (\E m \in Message : Send(e, m)) \/ Disconnect(e) \/ Tasks(e) \/ Writes(e)
      PROVE  LinkOK'
  BY <1>5 DEF Send, Disconnect, Tasks, RunSend, RunClose, Writes, Transmit, HeaderWritten,
     BodyWritten, WriteFails, readVars
<1>6. ASSUME NEW e \in Ends, Reads(e) PROVE LinkOK'
  BY <1>0, <1>6 DEF Reads, Receive, HeaderRead, BodyRead, ReadFails,
     AddToIncomingMessageQueue
<1>7. CASE UNCHANGED vars
  BY <1>7 DEF vars, readVars
<1>. QED BY <1>1, <1>2, <1>3, <1>4, <1>5, <1>6, <1>7 DEF Next, Handshake

\* The calls and tasks of end e: nothing arrives.
LEMMA CallsWay ==
  ASSUME ChannelInv, NEW e \in Ends, NEW d \in Ends,
         (\E m \in Message : Send(e, m)) \/ Disconnect(e) \/ Tasks(e)
  PROVE  Way(d)' /\ UNCHANGED readVars
<1> USE DEF ChannelInv, ConnectionInv
<1>0. UNCHANGED <<link, wire, readVars>>
  BY DEF Send, Disconnect, Tasks, RunSend, RunClose
<1>1. CASE d # e
  <2>1. /\ sent'[d] = sent[d] /\ posted'[d] = posted[d] /\ isOpen'[d] = isOpen[d]
        /\ m_qMessagesOut'[d] = m_qMessagesOut[d] /\ writing'[d] = writing[d]
    BY <1>1 DEF Send, Disconnect, Tasks, RunSend, RunClose, Post, NextTask, writeVars,
       ConnectionTypeOK
  <2>. QED BY <1>0, <2>1, WayFrame DEF BegunBy, readVars, Held, Way
<1>2. CASE d = e /\ \E m \in Message : Send(e, m)
  <2>1. PICK m \in Message : Send(e, m)
    BY <1>2
  <2>2. SendTask(m) \in TaskSet /\ SendTask(m).run = "send" /\ SendTask(m).msg = m
    BY DEF TaskSet, SendTask
  <2>. QED BY <1>0, <1>2, <2>1, <2>2, PostWay
       DEF Send, Post, readVars, writeVars, ConnectionTypeOK
<1>3. CASE d = e /\ Disconnect(e)
  <2>1. CloseTask \in TaskSet /\ CloseTask.run = "close"
    BY DEF TaskSet, CloseTask
  <2>. QED BY <1>0, <1>3, <2>1, PostWay
       DEF Disconnect, Post, readVars, writeVars, ConnectionTypeOK
<1>4. CASE d = e /\ RunSend(e)
  BY <1>0, <1>4, RunSendWay DEF Direction
<1>5. CASE d = e /\ RunClose(e)
  <2>1. isOpen'[e] = FALSE /\ sent' = sent
    BY <1>5 DEF RunClose, ConnectionTypeOK
  <2>. QED BY <1>0, <1>5, <2>1, WayFrame DEF BegunBy, readVars, Held, Way
<1>. QED BY <1>0, <1>1, <1>2, <1>3, <1>4, <1>5 DEF Tasks

LEMMA WritesWay ==
  ASSUME ChannelInv, NEW e \in Ends, NEW d \in Ends, Writes(e)
  PROVE  Way(d)' /\ UNCHANGED readVars /\ UNCHANGED sent
<1> USE DEF ChannelInv, ConnectionInv
<1>0. UNCHANGED readVars /\ UNCHANGED sent
  BY DEF Writes, Transmit, HeaderWritten, BodyWritten, WriteFails
<1>1. CASE d # e
  <2>1. /\ wire'[d] = wire[d] /\ posted'[d] = posted[d] /\ isOpen'[d] = isOpen[d]
        /\ m_qMessagesOut'[d] = m_qMessagesOut[d] /\ writing'[d] = writing[d]
    BY <1>1 DEF Writes, Transmit, HeaderWritten, BodyWritten, WriteFails, WriteNext,
       ConnectionTypeOK
  <2>. QED BY <1>0, <2>1, WayFrame DEF BegunBy, readVars, Held, Way
<1>2. CASE d = e /\ Transmit(e)
  BY <1>0, <1>2, TransmitWay DEF Direction
<1>3. CASE d = e /\ HeaderWritten(e) /\ BeingWritten(e).body # <<>>
  <2>1. /\ UNCHANGED <<wire, posted, isOpen, m_qMessagesOut>>
        /\ BegunBy(e)' = BegunBy(e) /\ Held(Peer(e))' = Held(Peer(e))
    BY <1>0, <1>3 DEF HeaderWritten, BegunBy, ConnectionTypeOK, Held, readVars
  <2>. QED BY <1>0, <1>3, <2>1, WayFrame DEF readVars, Way
<1>4. CASE d = e /\ BeingWritten(e).body = <<>> /\ HeaderWritten(e)
  BY <1>0, <1>4, WriteNextWay DEF HeaderWritten, Direction
<1>5. CASE d = e /\ BodyWritten(e)
  BY <1>0, <1>5, WriteNextWay DEF BodyWritten, Direction
<1>6. CASE d = e /\ WriteFails(e)
  <2>1. isOpen'[e] = FALSE /\ UNCHANGED wire
    BY <1>6 DEF WriteFails, ConnectionTypeOK
  <2>. QED BY <1>0, <1>6, <2>1, WayFrame DEF BegunBy, readVars, Held, Way
<1>. QED BY <1>0, <1>1, <1>2, <1>3, <1>4, <1>5, <1>6 DEF Writes

\* Reading: at most the next message arrives, at the end that reads.
Delivered(e) ==
  /\ reading[e] \in {"headerDone", "bodyDone"}
  /\ Len(m_qMessagesIn[e]) + 1 <= Len(sent[Peer(e)])
  /\ Visible(m_msgTemporaryIn[e]) = sent[Peer(e)][Len(m_qMessagesIn[e]) + 1]
  /\ m_qMessagesIn' = [m_qMessagesIn EXCEPT ![e] = Append(@, m_msgTemporaryIn[e])]
  /\ reading'[e] = "header"

LEMMA ReadsWay ==
  ASSUME ChannelInv, NEW e \in Ends, NEW d \in Ends, Reads(e)
  PROVE  /\ Way(d)' /\ UNCHANGED <<link, sent>>
         /\ UNCHANGED m_qMessagesIn \/ Delivered(e)
         /\ \A c \in Ends : reading[c] = "stopped" => reading'[c] = "stopped"
<1> USE DEF ChannelInv, ConnectionInv
<1>0. UNCHANGED <<link, posted, writeVars, sent>> /\ Peer(e) \in Ends /\ Peer(e) # e
      /\ Peer(Peer(e)) = e
  BY TwoEnds DEF Reads, Receive, HeaderRead, BodyRead, ReadFails
<1>1. \A c \in Ends : reading[c] = "stopped" => reading'[c] = "stopped"
  BY DEF Reads, Receive, HeaderRead, BodyRead, ReadFails, AddToIncomingMessageQueue,
     ConnectionTypeOK
<1>2. Way(e)'
  <2>1. /\ wire'[e] = wire[e] /\ (isOpen'[e] => isOpen[e])
        /\ m_qMessagesIn'[Peer(e)] = m_qMessagesIn[Peer(e)]
        /\ m_msgTemporaryIn'[Peer(e)] = m_msgTemporaryIn[Peer(e)]
        /\ reading'[Peer(e)] = reading[Peer(e)]
    BY <1>0 DEF Reads, Receive, HeaderRead, BodyRead, ReadFails, AddToIncomingMessageQueue,
       ConnectionTypeOK
  <2>2. Held(Peer(e))' = Held(Peer(e)) /\ BegunBy(e)' = BegunBy(e)
    BY <1>0, <2>1 DEF Held, BegunBy, writeVars
  <2>. QED BY <1>0, <2>1, <2>2, WayFrame DEF writeVars
<1>3. CASE Receive(e)
  <2>1. Way(Peer(e))'
    BY <1>0, <1>3, ReceiveWay
  <2>2. UNCHANGED m_qMessagesIn
    BY <1>3 DEF Receive
  <2>. QED BY <1>0, <1>1, <1>2, <2>1, <2>2, TwoEnds
<1>4. CASE HeaderRead(e) /\ m_msgTemporaryIn[e].size > 0
  <2>1. m_msgTemporaryIn[e].size # 0
    BY <1>4, ConnectionAssumption, LenProperties DEF ConnectionTypeOK, Received, Sizes
  <2>2. /\ reading[e] = "headerDone" /\ reading'[e] = "body"
        /\ UNCHANGED <<m_qMessagesIn, m_msgTemporaryIn, wire, isOpen>>
    BY <1>4, <2>1 DEF HeaderRead, ConnectionTypeOK
  <2>3. Way(Peer(e))'
    BY <1>0, <2>2, WayFrame DEF BegunBy, Held, writeVars
  <2>. QED BY <1>0, <1>1, <1>2, <2>2, <2>3, TwoEnds
<1>5. CASE BodyRead(e) \/ (HeaderRead(e) /\ m_msgTemporaryIn[e].size = 0)
  <2>1. /\ AddToIncomingMessageQueue(e)
        /\ \/ reading[e] = "headerDone" /\ m_msgTemporaryIn[e].size = 0
           \/ reading[e] = "bodyDone"
        /\ UNCHANGED <<link, isOpen, posted, writeVars, wire, m_msgTemporaryIn, sent>>
    BY <1>5 DEF BodyRead, HeaderRead
  <2>2. /\ Way(Peer(e))'
        /\ Len(m_qMessagesIn[e]) + 1 <= Len(sent[Peer(e)])
        /\ Visible(m_msgTemporaryIn[e]) = sent[Peer(e)][Len(m_qMessagesIn[e]) + 1]
    BY <1>0, <2>1, DeliverWay
  <2>3. Delivered(e)
    BY <2>1, <2>2 DEF Delivered, AddToIncomingMessageQueue, ConnectionTypeOK
  <2>. QED BY <1>0, <1>1, <1>2, <2>2, <2>3, TwoEnds
<1>6. CASE ReadFails(e)
  <2>1. /\ reading'[e] = "stopped" /\ UNCHANGED <<m_qMessagesIn, m_msgTemporaryIn, wire>>
        /\ isOpen'[Peer(e)] = isOpen[Peer(e)]
    BY <1>0, <1>6 DEF ReadFails, ConnectionTypeOK
  <2>2. Way(Peer(e))'
    BY <1>0, <2>1, WayFrame DEF BegunBy, writeVars
  <2>. QED BY <1>0, <1>1, <1>2, <2>1, <2>2, TwoEnds
<1>. QED BY <1>3, <1>4, <1>5, <1>6 DEF Reads, HeaderRead

\* Connecting and ending.
LEMMA RestWay ==
  ASSUME ChannelInv, NEW d \in Ends,
         Established \/ Refused \/ Handshake \/ LinkFails \/ ProgramEnds
  PROVE  /\ Way(d)' /\ UNCHANGED m_qMessagesIn
         /\ \A c \in Ends : reading[c] = "stopped" => reading'[c] = "stopped"
<1> USE DEF ChannelInv, ConnectionInv
<1>0. Client \in Ends /\ Server \in Ends /\ Client # Server /\ Peer(d) \in Ends
  BY ConnectionAssumption, TwoEnds DEF Ends
<1>1. CASE Established \/ Refused \/ LinkFails
  BY <1>1, WayFrame DEF BegunBy, Established, Refused, LinkFails, readVars, writeVars, Held, Way
<1>2. CASE ConnectToServer
  <2>1. /\ \A c \in Ends : \/ reading'[c] = reading[c]
                           \/ reading[c] = "unstarted" /\ reading'[c] \in {"header", "stopped"}
        /\ UNCHANGED <<isOpen, posted, writeVars, wire, m_msgTemporaryIn, m_qMessagesIn, sent>>
    BY <1>0, <1>2 DEF ConnectToServer, Started, ConnectionTypeOK
  <2>. QED BY <1>0, <2>1, WayFrame DEF BegunBy, Held, writeVars, Way
<1>3. CASE ConnectToClient
  <2>1. /\ reading[Server] = "unstarted" /\ reading'[Server] = "header"
        /\ reading'[Client] = reading[Client]
        /\ UNCHANGED <<isOpen, writeVars, wire, m_msgTemporaryIn, m_qMessagesIn>>
    BY <1>0, <1>3 DEF ConnectToClient, Started, ConnectionTypeOK
  <2>2. CASE d = Server
    <3>. DEFINE greeting == MessageOf(ServerAccept, <<>>)
    <3>1. greeting \in Message
      BY ConnectionAssumption DEF Message
    <3>. HIDE DEF greeting
    <3>2. /\ SendTask(greeting) \in TaskSet /\ SendTask(greeting).run = "send"
          /\ SendTask(greeting).msg = greeting
      BY <3>1 DEF TaskSet, SendTask
    <3>3. posted'[Server] = Append(posted[Server], SendTask(greeting))
          /\ sent'[Server] = Append(sent[Server], greeting)
      BY <1>0, <1>3 DEF ConnectToClient, Post, ConnectionTypeOK, greeting
    <3>4. Peer(Server) = Client
      BY <1>0 DEF Peer
    <3>5. Way(Server)'
      BY <1>0, <2>1, <3>1, <3>2, <3>3, <3>4, PostWay DEF writeVars
    <3>. QED BY <2>1, <2>2, <3>5 DEF Ends
  <2>3. CASE d = Client
    <3>1. posted'[Client] = posted[Client] /\ sent'[Client] = sent[Client] /\ Peer(Client) = Server
      BY <1>0, <1>3 DEF ConnectToClient, Post, ConnectionTypeOK, Peer
    <3>2. Way(Client)'
      BY <1>0, <2>1, <3>1, WayFrame DEF BegunBy, Held, writeVars
    <3>. QED BY <2>1, <2>3, <3>2 DEF Ends
  <2>. QED BY <2>2, <2>3 DEF Ends
<1>4. CASE ProgramEnds
  <2>1. /\ isOpen'[Client] = FALSE /\ isOpen'[Server] = isOpen[Server]
        /\ posted'[Server] = posted[Server] /\ writing'[Server] = writing[Server]
        /\ reading'[Client] = "stopped" /\ reading'[Server] = reading[Server]
        /\ UNCHANGED <<m_qMessagesOut, wire, m_msgTemporaryIn, m_qMessagesIn, sent>>
    BY <1>0, <1>4 DEF ProgramEnds, ConnectionTypeOK
  <2>2. Peer(Client) = Server /\ Peer(Server) = Client
    BY <1>0 DEF Peer
  <2>3. Way(Client)'
    BY <1>0, <2>1, <2>2, WayFrame DEF BegunBy, Held, Way
  <2>4. Way(Server)'
    BY <1>0, <2>1, <2>2, WayFrame DEF BegunBy
  <2>. QED BY <2>1, <2>3, <2>4 DEF Ends
<1>. QED BY <1>1, <1>2, <1>3, <1>4 DEF Handshake

LEMMA ChannelInvStep == ChannelInv /\ [Next]_vars => ChannelInv'
<1> SUFFICES ASSUME ChannelInv, [Next]_vars PROVE ChannelInv'
  OBVIOUS
<1>1. ConnectionInv' /\ LinkOK'
  BY ConnectionInvStep, LinkStep DEF ChannelInv
<1>2. ASSUME NEW d \in Ends PROVE Way(d)'
  <2>1. CASE UNCHANGED vars
    <3>1. UNCHANGED <<isOpen, posted, wire, reading, m_msgTemporaryIn, m_qMessagesIn, sent,
                      m_qMessagesOut, writing>>
      BY <2>1 DEF vars, readVars, writeVars
    <3>2. Held(Peer(d))' = Held(Peer(d)) /\ BegunBy(d)' = BegunBy(d) /\ Way(d)
      BY <3>1 DEF Held, BegunBy, ChannelInv
    <3>. QED BY <3>1, <3>2, WayFrame
  <2>. QED BY <2>1, CallsWay, WritesWay, ReadsWay, RestWay DEF Next
<1>. QED BY <1>1, <1>2 DEF ChannelInv

LEMMA ChannelInvariant == Spec => []ChannelInv
BY ChannelInvInit, ChannelInvStep, PTL DEF Spec

-----------------------------------------------------------------------------
(* The refinement. A step changes at most one of what was sent, what has   *)
(* arrived and whether the direction has broken.                           *)

\* What arrives at end e, as a step of the channel.
LEMMA ArrivedStep ==
  ASSUME ChannelInv, NEW e \in Ends, Delivered(e)
  PROVE  /\ ~Broken(e) /\ Len(Arrived(e)) < Len(sent[Peer(e)])
         /\ Arrived(e)' = Append(Arrived(e), sent[Peer(e)][Len(Arrived(e)) + 1])
<1> DEFINE q == m_qMessagesIn[e]
           t == m_msgTemporaryIn[e]
           k == Len(m_qMessagesIn[e])
<1>1. q \in Seq(Received) /\ t \in Received /\ k \in Nat /\ Len(sent[Peer(e)]) \in Nat
  BY TwoEnds, LenProperties DEF ChannelInv, ConnectionInv, ConnectionTypeOK
<1>2. ~Broken(e)
  BY DEF Delivered, Broken, ChannelInv, LinkOK
<1>3. m_qMessagesIn'[e] = Append(q, t)
  BY DEF Delivered, ChannelInv, ConnectionInv, ConnectionTypeOK
<1>4. Len(Append(q, t)) = k + 1 /\ Append(q, t)[k + 1] = t
      /\ \A i \in 1 .. k : Append(q, t)[i] = q[i]
  BY <1>1, AppendProperties
<1>5. Arrived(e) = [i \in 1 .. k |-> Visible(q[i])] /\ Len(Arrived(e)) = k
  BY <1>1 DEF Arrived
<1>6. Arrived(e)' = [i \in 1 .. k + 1 |-> Visible(Append(q, t)[i])]
  BY <1>3, <1>4 DEF Arrived
<1>7. Append(Arrived(e), Visible(t)) = [i \in 1 .. k + 1 |-> IF i = k + 1 THEN Visible(t) ELSE Arrived(e)[i]]
  BY <1>1, <1>5
<1>8. Arrived(e)' = Append(Arrived(e), Visible(t))
  <2>1. ASSUME NEW i \in 1 .. k + 1
        PROVE  Visible(Append(q, t)[i]) = IF i = k + 1 THEN Visible(t) ELSE Arrived(e)[i]
    <3>1. i # k + 1 => i \in 1 .. k
      BY <1>1
    <3>. QED BY <1>4, <1>5, <3>1
  <2>. QED BY <1>6, <1>7, <2>1
<1>. QED BY <1>1, <1>2, <1>5, <1>8 DEF Delivered

\* What e sends, or nothing.
SentBy(e) == \/ sent'[e] = sent[e]
             \/ \E m \in Message : sent'[e] = Append(sent[e], m)

LEMMA BrokenStays ==
  ASSUME ChannelInv, Next, NEW e \in Ends, Broken(e)
  PROVE  Broken(e)'
<1> USE DEF ChannelInv, ConnectionInv
<1>0. Client \in Ends /\ Server \in Ends
  BY DEF Ends
<1>1. /\ \/ link' = link
         \/ link = "connecting" /\ isOpen[Client] /\ link' = "up"
         \/ link = "connecting" /\ link' = "refused"
         \/ link = "up" /\ link' = "reset"
      /\ isOpen'[Client] => isOpen[Client]
  <2>1. CASE Established \/ Refused \/ LinkFails
    BY <2>1 DEF Established, Refused, LinkFails
  <2>2. CASE Handshake \/ ProgramEnds
    BY <1>0, <2>2 DEF Handshake, ConnectToServer, ConnectToClient, ProgramEnds, ConnectionTypeOK
  <2>3. ASSUME NEW d \in Ends,
               (\E m \in Message : Send(d, m)) \/ Disconnect(d) \/ Tasks(d) \/ Writes(d) \/ Reads(d)
        PROVE  link' = link /\ (isOpen'[Client] => isOpen[Client])
    BY <1>0, <2>3 DEF Send, Disconnect, Tasks, RunSend, RunClose, Writes, Transmit,
       HeaderWritten, BodyWritten, WriteFails, Reads, Receive, HeaderRead, BodyRead,
       ReadFails, ConnectionTypeOK
  <2>. QED BY <2>1, <2>2, <2>3 DEF Next
<1>2. reading[e] = "stopped" => reading'[e] = "stopped"
  <2>1. ASSUME NEW d \in Ends,
               (\E m \in Message : Send(d, m)) \/ Disconnect(d) \/ Tasks(d) \/ Writes(d)
        PROVE  UNCHANGED readVars
    BY <2>1, CallsWay, WritesWay
  <2>. QED BY <2>1, ReadsWay, RestWay DEF Next, readVars
<1>. QED BY <1>1, <1>2 DEF Broken

LEMMA SentStep ==
  ASSUME ChannelInv, Next, NEW d \in Ends, sent'[d] # sent[d]
  PROVE  /\ \E m \in Message : sent'[d] = Append(sent[d], m)
         /\ UNCHANGED m_qMessagesIn /\ Broken(Peer(d))' = Broken(Peer(d))
<1> USE DEF ChannelInv, ConnectionInv
<1>0. Client \in Ends /\ Server \in Ends /\ Client # Server
  BY ConnectionAssumption DEF Ends
<1>1. CASE ConnectToClient
  <2>1. MessageOf(ServerAccept, <<>>) \in Message
    BY ConnectionAssumption DEF Message
  <2>2. d = Server /\ sent'[Server] = Append(sent[Server], MessageOf(ServerAccept, <<>>))
    BY <1>0, <1>1 DEF ConnectToClient, ConnectionTypeOK
  <2>3. /\ Peer(Server) = Client /\ reading'[Client] = reading[Client]
        /\ UNCHANGED <<link, isOpen, m_qMessagesIn>>
    BY <1>0, <1>1 DEF ConnectToClient, Peer, ConnectionTypeOK
  <2>. QED BY <2>1, <2>2, <2>3 DEF Broken
<1>2. ASSUME NEW e \in Ends, NEW m \in Message, Send(e, m)
      PROVE  /\ sent'[d] = Append(sent[d], m)
             /\ UNCHANGED m_qMessagesIn /\ Broken(Peer(d))' = Broken(Peer(d))
  <2>1. d = e
    BY <1>2 DEF Send, ConnectionTypeOK
  <2>. QED BY <1>2, <2>1 DEF Send, readVars, Broken, ConnectionTypeOK
<1>3. ASSUME Established \/ Refused \/ ConnectToServer \/ LinkFails \/ ProgramEnds
      PROVE  UNCHANGED sent
  BY <1>3 DEF Established, Refused, ConnectToServer, LinkFails, ProgramEnds
<1>4. ASSUME NEW e \in Ends, Disconnect(e) \/ Tasks(e) \/ Writes(e) \/ Reads(e)
      PROVE  UNCHANGED sent
  BY <1>4, WritesWay, ReadsWay DEF Disconnect, Tasks, RunSend, RunClose
<1>. QED BY <1>1, <1>2, <1>3, <1>4 DEF Next, Handshake

LEMMA DeliverStep ==
  ASSUME ChannelInv, Next, ~UNCHANGED m_qMessagesIn
  PROVE  \E e \in Ends : Delivered(e) /\ UNCHANGED <<link, sent>>
<1>1. ASSUME NEW d \in Ends,
             (\E m \in Message : Send(d, m)) \/ Disconnect(d) \/ Tasks(d) \/ Writes(d)
      PROVE  UNCHANGED m_qMessagesIn
  BY <1>1, CallsWay, WritesWay DEF readVars
<1>2. ASSUME NEW e \in Ends, Reads(e)
      PROVE  UNCHANGED m_qMessagesIn \/ (Delivered(e) /\ UNCHANGED <<link, sent>>)
  BY <1>2, ReadsWay
<1>3. ASSUME Established \/ Refused \/ Handshake \/ LinkFails \/ ProgramEnds
      PROVE  UNCHANGED m_qMessagesIn
  <2>1. Client \in Ends
    BY DEF Ends
  <2>. QED BY <1>3, <2>1, RestWay
<1>. QED BY <1>1, <1>2, <1>3 DEF Next

\* Every step is a step of the channel from d to its peer, or a stutter.
ChannelStep(d) ==
  LET f == Peer(d) IN
  \/ /\ \E m \in Message : sent'[d] = Append(sent[d], m)
     /\ Arrived(f)' = Arrived(f) /\ Broken(f)' = Broken(f)
  \/ /\ ~Broken(f) /\ Len(Arrived(f)) < Len(sent[d])
     /\ Arrived(f)' = Append(Arrived(f), sent[d][Len(Arrived(f)) + 1])
     /\ sent'[d] = sent[d] /\ Broken(f)' = Broken(f)
  \/ Broken(f)' /\ sent'[d] = sent[d] /\ Arrived(f)' = Arrived(f)
  \/ Broken(f)' = Broken(f) /\ sent'[d] = sent[d] /\ Arrived(f)' = Arrived(f)

LEMMA EveryChannelStep ==
  ASSUME ChannelInv, [Next]_vars, NEW d \in Ends
  PROVE  ChannelStep(d)
<1>0. Peer(d) \in Ends /\ Peer(Peer(d)) = d
  BY TwoEnds
<1>1. CASE UNCHANGED vars
  BY <1>1 DEF vars, readVars, writeVars, ChannelStep, Arrived, Broken
<1>2. CASE Next /\ sent'[d] # sent[d]
  <2>1. /\ \E m \in Message : sent'[d] = Append(sent[d], m)
        /\ UNCHANGED m_qMessagesIn /\ Broken(Peer(d))' = Broken(Peer(d))
    BY <1>2, SentStep
  <2>. QED BY <2>1 DEF ChannelStep, Arrived
<1>3. CASE Next /\ sent'[d] = sent[d] /\ m_qMessagesIn'[Peer(d)] = m_qMessagesIn[Peer(d)]
  <2>1. Arrived(Peer(d))' = Arrived(Peer(d))
    BY <1>3 DEF Arrived
  <2>2. Broken(Peer(d)) => Broken(Peer(d))'
    BY <1>0, <1>3, BrokenStays
  <2>3. Broken(Peer(d)) \in BOOLEAN /\ Broken(Peer(d))' \in BOOLEAN
    BY DEF Broken
  <2>. QED BY <1>3, <2>1, <2>2, <2>3 DEF ChannelStep
<1>4. CASE Next /\ sent'[d] = sent[d] /\ m_qMessagesIn'[Peer(d)] # m_qMessagesIn[Peer(d)]
  <2>1. PICK e \in Ends : Delivered(e) /\ UNCHANGED <<link, sent>>
    BY <1>4, DeliverStep
  <2>2. e = Peer(d)
    BY <1>0, <1>4, <2>1 DEF Delivered, ChannelInv, ConnectionInv, ConnectionTypeOK
  <2>3. /\ ~Broken(Peer(d)) /\ Len(Arrived(Peer(d))) < Len(sent[d])
        /\ Arrived(Peer(d))' = Append(Arrived(Peer(d)), sent[d][Len(Arrived(Peer(d))) + 1])
    BY <1>0, <2>1, <2>2, ArrivedStep
  <2>4. ~Broken(Peer(d))'
    BY <2>1, <2>2, <2>3 DEF Broken, Delivered, ChannelInv, LinkOK
  <2>5. Broken(Peer(d))' = Broken(Peer(d))
    BY <2>3, <2>4 DEF Broken
  <2>. QED BY <1>4, <2>3, <2>5 DEF ChannelStep
<1>. QED BY <1>1, <1>2, <1>3, <1>4

\* What a client sends arrives at the server in the order in which it was
\* sent, none twice and none that was not sent, until the direction breaks
\* (net_connection.h:125-241 and 393-413).
THEOREM ToServerIsChannel == Spec => ToServer!ChannelSafety
<1>1. Client \in Ends /\ Server \in Ends /\ Peer(Client) = Server
  BY ConnectionAssumption DEF Ends, Peer
<1>2. Init => ToServer!ChannelInit
  BY <1>1, ConnectionAssumption DEF Init, ToServer!ChannelInit, Arrived, Broken
<1>3. ChannelInv /\ [Next]_vars => [ToServer!ChannelNext]_ToServer!channelVars
  BY <1>1, EveryChannelStep
  DEF ChannelStep, ToServer!ChannelNext, ToServer!channelVars, ToServer!SendMessage,
      ToServer!Arrive, ToServer!Break
<1>. QED BY <1>2, <1>3, ChannelInvariant, PTL DEF Spec, ToServer!ChannelSafety

\* The same of what the server sends to a client.
THEOREM ToClientIsChannel == Spec => ToClient!ChannelSafety
<1>1. Client \in Ends /\ Server \in Ends /\ Peer(Server) = Client
  BY ConnectionAssumption DEF Ends, Peer
<1>2. Init => ToClient!ChannelInit
  BY <1>1, ConnectionAssumption DEF Init, ToClient!ChannelInit, Arrived, Broken
<1>3. ChannelInv /\ [Next]_vars => [ToClient!ChannelNext]_ToClient!channelVars
  BY <1>1, EveryChannelStep
  DEF ChannelStep, ToClient!ChannelNext, ToClient!channelVars, ToClient!SendMessage,
      ToClient!Arrive, ToClient!Break
<1>. QED BY <1>2, <1>3, ChannelInvariant, PTL DEF Spec, ToClient!ChannelSafety
=============================================================================
