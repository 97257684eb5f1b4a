-------------------------- MODULE ConnectionProofs --------------------------
(***************************************************************************)
(* Theorems about Connection, for any ids and bodies and any number of     *)
(* messages. FramesAligned is not inductive: what the writer adds fits the *)
(* end of the stream only if the writer's own position does, which is what *)
(* WriterInStep says.                                                      *)
(***************************************************************************)
EXTENDS Connection, SequenceTheorems, TLAPS

AlignedAt(e) ==
  /\ wire[e] # <<>> /\ reading[Peer(e)] # "stopped"
       => Settles(wire[e][1], OwedTo(Peer(e)))
  /\ \A i \in 1 .. Len(wire[e]) - 1 : Settles(wire[e][i + 1], Owed(wire[e][i]))

\* The length of the body that end e has to write next, going by what is at
\* the end of its stream: on the wire or, if that is empty, in the reader.
OwedBy(e) == IF wire[e] = <<>> THEN OwedTo(Peer(e)) ELSE Owed(wire[e][Len(wire[e])])

WriterInStep(e) ==
  /\ writing[e] = "body" => BeingWritten(e).size > 0
  /\ isOpen[e] /\ (wire[e] # <<>> \/ reading[Peer(e)] # "stopped") =>
       OwedBy(e) = IF writing[e] \in {"headerDone", "body"}
                   THEN BeingWritten(e).size ELSE 0

ChainAt(e) ==
  /\ writing[e] # "none" => m_qMessagesOut[e] # <<>>
  /\ writing[e] = "none" /\ m_qMessagesOut[e] # <<>> => ~isOpen[e]

Direction(e) == AlignedAt(e) /\ WriterInStep(e) /\ ChainAt(e)

ConnectionInv == ConnectionTypeOK /\ \A e \in Ends : Direction(e)

-----------------------------------------------------------------------------
LEMMA TwoEnds ==
  ASSUME NEW e \in Ends
  PROVE  /\ Peer(e) \in Ends /\ Peer(e) # e /\ Peer(Peer(e)) = e
         /\ \A d \in Ends : d # e => d = Peer(e)
BY ConnectionAssumption DEF Ends, Peer

LEMMA MessageFacts ==
  ASSUME NEW m \in Message
  PROVE  /\ m.id \in Ids /\ m.body \in Bodies
         /\ m.size = Len(m.body) /\ m.size \in Nat /\ m.size \in Sizes
         /\ (m.body = <<>>) <=> (m.size = 0)
<1>1. PICK id \in Ids, b \in Bodies : m = [id |-> id, size |-> Len(b), body |-> b]
  BY DEF Message, MessageOf
<1>2. b \in Seq(0..255)
  BY ConnectionAssumption
<1>3. Len(b) \in Nat /\ ((b = <<>>) <=> (Len(b) = 0))
  BY <1>2, LenProperties, EmptySeq
<1>. QED BY <1>1, <1>3 DEF Sizes

LEMMA PartFacts ==
  ASSUME NEW p \in Parts
  PROVE  /\ p.part \in {"header", "body"}
         /\ p.part = "header" => p.id \in Ids /\ p.size \in Sizes
         /\ p.part = "body" => p.body \in Bodies
         /\ Owed(p) \in Nat
<1>1. \A n \in Sizes : n \in Nat
  BY ConnectionAssumption, LenProperties DEF Sizes
<1>. QED BY <1>1 DEF Parts, Owed

\* What a message looks like on the wire.
LEMMA WrittenParts ==
  ASSUME NEW m \in Message
  PROVE  /\ HeaderPart(m) \in Parts /\ BodyPart(m) \in Parts
         /\ Owed(HeaderPart(m)) = m.size /\ Owed(BodyPart(m)) = 0
         /\ Settles(HeaderPart(m), 0)
         /\ m.size > 0 => Settles(BodyPart(m), m.size)
BY MessageFacts DEF HeaderPart, BodyPart, Parts, Owed, Settles

\* A step that leaves the stream of end e, and both positions in it, alone.
LEMMA DirectionFrame ==
  ASSUME NEW e \in Ends, Direction(e),
         wire'[e] = wire[e], writing'[e] = writing[e],
         m_qMessagesOut'[e] = m_qMessagesOut[e],
         reading'[Peer(e)] = reading[Peer(e)],
         m_msgTemporaryIn'[Peer(e)] = m_msgTemporaryIn[Peer(e)],
         isOpen'[e] => isOpen[e]
  PROVE  Direction(e)'
BY DEF Direction, AlignedAt, WriterInStep, ChainAt, OwedBy, OwedTo, BeingWritten

-----------------------------------------------------------------------------
LEMMA ConnectionInvInit == Init => ConnectionInv
<1> SUFFICES ASSUME Init PROVE ConnectionInv
  OBVIOUS
<1>1. ConnectionTypeOK
  <2>1. \A S : <<>> \in Seq(S)
    OBVIOUS
  <2>2. [id |-> ServerAccept, size |-> 0, body |-> <<>>] \in Received
    BY ConnectionAssumption DEF Received, Sizes
  <2>. QED BY <2>1, <2>2 DEF Init, ConnectionTypeOK
<1>2. ASSUME NEW e \in Ends PROVE Direction(e)
  BY TwoEnds DEF Init, Direction, AlignedAt, WriterInStep, ChainAt, OwedBy, OwedTo
<1>. QED BY <1>1, <1>2 DEF ConnectionInv

\* Connecting: only reading and the greeting change.
LEMMA HandshakeInv ==
  ASSUME ConnectionInv, Established \/ Refused \/ Handshake \/ LinkFails
  PROVE  ConnectionInv'
<1> USE DEF ConnectionInv
<1>1. CASE Established \/ Refused \/ LinkFails
  <2>1. ConnectionTypeOK'
    BY <1>1 DEF Established, Refused, LinkFails, ConnectionTypeOK, writeVars, readVars
  <2>2. ASSUME NEW e \in Ends PROVE Direction(e)'
    BY <1>1, DirectionFrame, TwoEnds DEF Established, Refused, LinkFails, writeVars, readVars
  <2>. QED BY <2>1, <2>2
<1>2. CASE ConnectToServer
  <2>1. ConnectionTypeOK'
    BY <1>2 DEF ConnectToServer, ConnectionTypeOK, writeVars
  <2>2. reading[Client] = "unstarted" /\ reading'[Client] \in {"header", "stopped"}
        /\ reading'[Server] = reading[Server]
    BY <1>2, ConnectionAssumption
    DEF ConnectToServer, Started, ConnectionTypeOK, Ends
  <2>3. Direction(Client)'
    BY <1>2, <2>2, DirectionFrame, TwoEnds, ConnectionAssumption
    DEF ConnectToServer, writeVars, Ends, Peer
  <2>4. Direction(Server)'
    BY <1>2, <2>2, ConnectionAssumption
    DEF ConnectToServer, writeVars, Ends, Peer, Direction, AlignedAt, WriterInStep,
        ChainAt, OwedBy, OwedTo, BeingWritten
  <2>. QED BY <2>1, <2>3, <2>4 DEF Ends
<1>3. CASE ConnectToClient
  <2>1. ConnectionTypeOK'
    <3>1. MessageOf(ServerAccept, <<>>) \in Message
      BY ConnectionAssumption DEF Message
    <3>. DEFINE greeting == MessageOf(ServerAccept, <<>>)
    <3>2. SendTask(greeting) \in TaskSet
      BY <3>1 DEF TaskSet
    <3>3. Server \in Ends
      BY DEF Ends
    <3>. HIDE DEF greeting
    <3>4. Append(posted[Server], SendTask(greeting)) \in Seq(TaskSet)
          /\ Append(sent[Server], greeting) \in Seq(Message)
      BY <3>1, <3>2, <3>3, AppendProperties DEF ConnectionTypeOK, greeting
    <3>. QED BY <1>3, <3>3, <3>4
         DEF ConnectToClient, Post, ConnectionTypeOK, writeVars, greeting
  <2>2. reading[Server] = "unstarted" /\ reading'[Server] = "header"
        /\ reading'[Client] = reading[Client]
    BY <1>3, ConnectionAssumption
    DEF ConnectToClient, Started, ConnectionTypeOK, Ends
  <2>3. Direction(Server)'
    BY <1>3, <2>2, DirectionFrame, TwoEnds, ConnectionAssumption
    DEF ConnectToClient, writeVars, Ends, Peer
  <2>4. Direction(Client)'
    BY <1>3, <2>2, ConnectionAssumption
    DEF ConnectToClient, writeVars, Ends, Peer, Direction, AlignedAt, WriterInStep,
        ChainAt, OwedBy, OwedTo, BeingWritten
  <2>. QED BY <2>1, <2>3, <2>4 DEF Ends
<1>. QED BY <1>1, <1>2, <1>3 DEF Handshake

\* Calls and the close only post or close: no stream moves.
LEMMA CallInv ==
  ASSUME ConnectionInv, NEW e \in Ends,
         (\E m \in Message : Send(e, m)) \/ Disconnect(e) \/ RunClose(e)
  PROVE  ConnectionInv'
<1> USE DEF ConnectionInv
<1>1. ASSUME NEW d \in Ends PROVE Direction(d)'
  BY <1>1, DirectionFrame, TwoEnds
  DEF Send, Disconnect, RunClose, NextTask, writeVars, readVars, ConnectionTypeOK
<1>2. CASE \E m \in Message : Send(e, m)
  <2>1. PICK m \in Message : Send(e, m)
    BY <1>2
  <2>2. SendTask(m) \in TaskSet
    BY DEF TaskSet
  <2>3. Append(posted[e], SendTask(m)) \in Seq(TaskSet) /\ Append(sent[e], m) \in Seq(Message)
    BY <2>2, AppendProperties DEF ConnectionTypeOK
  <2>4. ConnectionTypeOK'
    BY <2>1, <2>3 DEF Send, Post, ConnectionTypeOK, writeVars, readVars
  <2>. QED BY <1>1, <2>4
<1>3. CASE Disconnect(e)
  <2>1. CloseTask \in TaskSet
    BY DEF TaskSet
  <2>2. Append(posted[e], CloseTask) \in Seq(TaskSet)
    BY <2>1, AppendProperties DEF ConnectionTypeOK
  <2>3. ConnectionTypeOK'
    BY <1>3, <2>2 DEF Disconnect, Post, ConnectionTypeOK, writeVars, readVars
  <2>. QED BY <1>1, <2>3
<1>4. CASE RunClose(e)
  <2>1. Tail(posted[e]) \in Seq(TaskSet)
    BY <1>4, HeadTailProperties DEF RunClose, NextTask, ConnectionTypeOK
  <2>2. ConnectionTypeOK'
    BY <1>4, <2>1 DEF RunClose, NextTask, ConnectionTypeOK, writeVars, readVars
  <2>. QED BY <1>1, <2>2
<1>. QED BY <1>2, <1>3, <1>4

\* The task of Send: the queue was empty, and a write starts, or a write is
\* in progress and its message stays in front.
LEMMA RunSendInv ==
  ASSUME ConnectionInv, NEW e \in Ends, RunSend(e)
  PROVE  ConnectionInv'
<1> USE DEF ConnectionInv
<1> DEFINE m == Head(posted[e]).msg
           q == m_qMessagesOut[e]
<1>1. q \in Seq(Message) /\ posted[e] \in Seq(TaskSet) /\ posted[e] # <<>>
  BY DEF RunSend, NextTask, ConnectionTypeOK
<1>2. Head(posted[e]) \in TaskSet /\ Head(posted[e]).run = "send"
      /\ Tail(posted[e]) \in Seq(TaskSet)
  BY <1>1, HeadTailProperties DEF RunSend, NextTask
<1>3. m \in Message
  BY <1>2 DEF TaskSet, SendTask, CloseTask
<1>. HIDE DEF m
<1>4. /\ Append(q, m) \in Seq(Message) /\ Append(q, m) # <<>>
      /\ q # <<>> => Head(Append(q, m)) = Head(q)
  BY <1>1, <1>3, AppendProperties, HeadTailAppend
<1>5. /\ m_qMessagesOut' = [m_qMessagesOut EXCEPT ![e] = Append(q, m)]
      /\ posted' = [posted EXCEPT ![e] = Tail(@)]
      /\ \/ q = <<>> /\ writing' = [writing EXCEPT ![e] = "header"]
         \/ q # <<>> /\ writing' = writing
      /\ UNCHANGED <<link, isOpen, wire, readVars, sent>>
  BY DEF RunSend, NextTask, m
<1>6. ConnectionTypeOK'
  BY <1>2, <1>4, <1>5 DEF ConnectionTypeOK, readVars
<1>7. Direction(Peer(e))'
  BY <1>5, DirectionFrame, TwoEnds DEF readVars, ConnectionTypeOK
<1>8. Direction(e)'
  <2>1. m_qMessagesOut'[e] = Append(q, m) /\ wire'[e] = wire[e] /\ isOpen'[e] = isOpen[e]
        /\ reading' = reading /\ m_msgTemporaryIn' = m_msgTemporaryIn
    BY <1>5 DEF ConnectionTypeOK, readVars
  <2>2. AlignedAt(e)' /\ OwedBy(e)' = OwedBy(e)
    BY <2>1 DEF Direction, AlignedAt, OwedBy, OwedTo
  <2>3. CASE q = <<>>
    BY <1>4, <1>5, <2>1, <2>2, <2>3
    DEF Direction, WriterInStep, ChainAt, ConnectionTypeOK
  <2>4. CASE q # <<>>
    BY <1>4, <1>5, <2>1, <2>2, <2>4
    DEF Direction, WriterInStep, ChainAt, BeingWritten
  <2>. QED BY <2>3, <2>4
<1>. QED BY <1>6, <1>7, <1>8, TwoEnds

\* A header or a body is put on the wire: it settles what was owed.
LEMMA TransmitInv ==
  ASSUME ConnectionInv, NEW e \in Ends, Transmit(e)
  PROVE  ConnectionInv'
<1> USE DEF ConnectionInv
<1> DEFINE m == BeingWritten(e)
           w == wire[e]
<1>1. w \in Seq(Parts) /\ isOpen[e] /\ writing[e] \in {"header", "body"}
      /\ m_qMessagesOut[e] # <<>>
  BY DEF Transmit, ConnectionTypeOK, Direction, ChainAt
<1>2. m \in Message
  BY <1>1, HeadTailProperties DEF ConnectionTypeOK, BeingWritten
<1>3. PICK p \in Parts :
        /\ wire' = [wire EXCEPT ![e] = Append(w, p)]
        /\ \/ /\ writing[e] = "header" /\ writing' = [writing EXCEPT ![e] = "headerDone"]
              /\ Settles(p, 0) /\ Owed(p) = m.size
           \/ /\ writing[e] = "body" /\ writing' = [writing EXCEPT ![e] = "bodyDone"]
              /\ Settles(p, m.size) /\ Owed(p) = 0
  BY <1>2, WrittenParts DEF Transmit, Direction, WriterInStep
<1>4. UNCHANGED <<link, isOpen, posted, m_qMessagesOut, readVars, sent>>
  BY DEF Transmit
<1>. HIDE DEF m
<1>5. /\ Append(w, p) \in Seq(Parts) /\ Len(Append(w, p)) = Len(w) + 1
      /\ \A i \in 1 .. Len(w) : Append(w, p)[i] = w[i]
      /\ Append(w, p)[Len(w) + 1] = p /\ Append(w, p) # <<>>
      /\ Len(w) \in Nat /\ (Len(w) = 0 <=> w = <<>>)
  BY <1>1, AppendProperties, LenProperties, EmptySeq
<1>6. ConnectionTypeOK'
  BY <1>3, <1>4, <1>5 DEF ConnectionTypeOK, readVars
<1>7. Direction(Peer(e))'
  BY <1>3, <1>4, DirectionFrame, TwoEnds DEF readVars, ConnectionTypeOK
<1>8. wire'[e] = Append(w, p) /\ reading' = reading /\ m_msgTemporaryIn' = m_msgTemporaryIn
      /\ isOpen' = isOpen /\ m_qMessagesOut' = m_qMessagesOut /\ BeingWritten(e)' = m
  BY <1>3, <1>4 DEF ConnectionTypeOK, readVars, m, BeingWritten
<1>9. w # <<>> \/ reading[Peer(e)] # "stopped" => Settles(p, OwedBy(e))
  BY <1>1, <1>3 DEF Direction, WriterInStep, m
<1>10. AlignedAt(e)'
  <2>1. reading[Peer(e)] # "stopped" => Settles(Append(w, p)[1], OwedTo(Peer(e)))
    BY <1>5, <1>9 DEF Direction, AlignedAt, OwedBy
  <2>2. ASSUME NEW i \in 1 .. Len(w)
        PROVE  Settles(Append(w, p)[i + 1], Owed(Append(w, p)[i]))
    BY <1>5, <1>9 DEF Direction, AlignedAt, OwedBy
  <2>. QED BY <1>5, <1>8, <2>1, <2>2 DEF AlignedAt, OwedTo
<1>11. OwedBy(e)' = Owed(p)
  BY <1>5, <1>8 DEF OwedBy
<1>12. WriterInStep(e)' /\ ChainAt(e)'
  BY <1>1, <1>3, <1>8, <1>11 DEF WriterInStep, ChainAt, ConnectionTypeOK
<1>. QED BY <1>6, <1>7, <1>10, <1>12, TwoEnds DEF Direction

\* The write of a message ends; the next one, if any, starts with its header.
LEMMA WriteNextInv ==
  ASSUME ConnectionInv, NEW e \in Ends, WriteNext(e),
         writing[e] \in {"headerDone", "bodyDone"},
         writing[e] = "headerDone" => BeingWritten(e).size = 0,
         UNCHANGED <<link, isOpen, posted, wire, readVars, sent>>
  PROVE  ConnectionInv'
<1> USE DEF ConnectionInv
<1>1. /\ Tail(m_qMessagesOut[e]) \in Seq(Message)
      /\ m_qMessagesOut' = [m_qMessagesOut EXCEPT ![e] = Tail(m_qMessagesOut[e])]
      /\ writing' = [writing EXCEPT ![e] =
                       IF Tail(m_qMessagesOut[e]) = <<>> THEN "none" ELSE "header"]
  BY HeadTailProperties DEF WriteNext, ConnectionTypeOK, Direction, ChainAt
<1>2. ConnectionTypeOK'
  BY <1>1 DEF ConnectionTypeOK, readVars
<1>3. Direction(Peer(e))'
  BY <1>1, DirectionFrame, TwoEnds DEF readVars, ConnectionTypeOK
<1>4. Direction(e)'
  <2>1. AlignedAt(e)' /\ OwedBy(e)' = OwedBy(e)
    BY DEF Direction, AlignedAt, OwedBy, OwedTo, readVars
  <2>2. isOpen[e] /\ (wire[e] # <<>> \/ reading[Peer(e)] # "stopped") => OwedBy(e) = 0
    BY DEF Direction, WriterInStep
  <2>. QED BY <1>1, <2>1, <2>2
       DEF Direction, WriterInStep, ChainAt, ConnectionTypeOK, readVars
<1>. QED BY <1>2, <1>3, <1>4, TwoEnds

LEMMA HandlerOfWriteInv ==
  ASSUME ConnectionInv, NEW e \in Ends, HeaderWritten(e) \/ BodyWritten(e)
  PROVE  ConnectionInv'
<1> USE DEF ConnectionInv
<1>1. BeingWritten(e) \in Message
  BY HeadTailProperties
  DEF HeaderWritten, BodyWritten, Direction, ChainAt, ConnectionTypeOK, BeingWritten
<1>2. CASE BodyWritten(e)
  BY <1>2, WriteNextInv DEF BodyWritten
<1>3. CASE HeaderWritten(e) /\ BeingWritten(e).body = <<>>
  BY <1>1, <1>3, WriteNextInv, MessageFacts DEF HeaderWritten
<1>4. CASE HeaderWritten(e) /\ BeingWritten(e).body # <<>>
  <2>1. /\ writing[e] = "headerDone" /\ writing' = [writing EXCEPT ![e] = "body"]
        /\ UNCHANGED <<link, isOpen, posted, m_qMessagesOut, wire, readVars, sent>>
        /\ BeingWritten(e).size > 0
    BY <1>1, <1>4, MessageFacts DEF HeaderWritten
  <2>2. ConnectionTypeOK'
    BY <2>1 DEF ConnectionTypeOK, readVars
  <2>3. Direction(Peer(e))'
    BY <2>1, DirectionFrame, TwoEnds DEF readVars, ConnectionTypeOK
  <2>4. Direction(e)'
    BY <2>1 DEF Direction, AlignedAt, WriterInStep, ChainAt, OwedBy, OwedTo,
       BeingWritten, readVars, ConnectionTypeOK
  <2>. QED BY <2>2, <2>3, <2>4, TwoEnds
<1>. QED BY <1>2, <1>3, <1>4

LEMMA WriteFailsInv ==
  ASSUME ConnectionInv, NEW e \in Ends, WriteFails(e)
  PROVE  ConnectionInv'
<1> USE DEF ConnectionInv
<1>1. ConnectionTypeOK'
  BY DEF WriteFails, ConnectionTypeOK, readVars
<1>2. Direction(Peer(e))'
  BY DirectionFrame, TwoEnds DEF WriteFails, readVars, ConnectionTypeOK
<1>3. Direction(e)'
  BY DEF WriteFails, Direction, AlignedAt, WriterInStep, ChainAt, OwedTo,
     readVars, ConnectionTypeOK
<1>. QED BY <1>1, <1>2, <1>3, TwoEnds

-----------------------------------------------------------------------------
\* The reader of end e takes the next part off its peer's stream.
LEMMA ReceiveInv ==
  ASSUME ConnectionInv, NEW e \in Ends, Receive(e)
  PROVE  ConnectionInv'
<1> USE DEF ConnectionInv
<1> DEFINE f == Peer(e)
           w == wire[f]
           p == Head(w)
<1>1. f \in Ends /\ f # e /\ Peer(f) = e /\ w \in Seq(Parts) /\ w # <<>>
      /\ reading[e] \in {"header", "body"}
  BY TwoEnds DEF Receive, ConnectionTypeOK
<1>2. /\ p \in Parts /\ p = w[1] /\ Tail(w) \in Seq(Parts)
      /\ Len(w) \in Nat /\ Len(w) > 0 /\ Len(Tail(w)) = Len(w) - 1
      /\ \A i \in 1 .. Len(w) - 1 : Tail(w)[i] = w[i + 1]
      /\ (Tail(w) = <<>>) <=> (Len(w) = 1)
  <2>. HIDE DEF w
  <2>1. Len(w) \in Nat /\ Len(w) > 0
    BY <1>1, LenProperties, EmptySeq
  <2>2. p \in Parts /\ Tail(w) \in Seq(Parts) /\ Len(Tail(w)) = Len(w) - 1
        /\ \A i \in 1 .. Len(w) - 1 : Tail(w)[i] = w[i + 1]
    BY <1>1, HeadTailProperties
  <2>3. p = w[1]
    BY <1>1
  <2>4. (Tail(w) = <<>>) <=> (Len(Tail(w)) = 0)
    BY <2>2, EmptySeq
  <2>. QED BY <2>1, <2>2, <2>3, <2>4
<1>3. /\ p.part = reading[e]
      /\ wire' = [wire EXCEPT ![f] = Tail(w)]
      /\ \/ /\ p.part = "header"
            /\ m_msgTemporaryIn' = [m_msgTemporaryIn EXCEPT ![e] =
                 [id |-> p.id, size |-> p.size, body |-> @.body]]
            /\ reading' = [reading EXCEPT ![e] = "headerDone"]
         \/ /\ p.part = "body"
            /\ m_msgTemporaryIn' = [m_msgTemporaryIn EXCEPT ![e] =
                 [id |-> @.id, size |-> @.size, body |-> p.body]]
            /\ reading' = [reading EXCEPT ![e] = "bodyDone"]
      /\ UNCHANGED <<link, isOpen, posted, writeVars, m_qMessagesIn, sent>>
  BY DEF Receive
<1>. HIDE DEF p
<1>4. ConnectionTypeOK'
  <2>1. m_msgTemporaryIn' \in [Ends -> Received]
    <3>1. m_msgTemporaryIn \in [Ends -> Received] /\ m_msgTemporaryIn[e] \in Received
      BY DEF ConnectionTypeOK
    <3>2. CASE p.part = "header"
      <4>1. [id |-> p.id, size |-> p.size, body |-> m_msgTemporaryIn[e].body] \in Received
        BY <1>2, <3>1, <3>2, PartFacts DEF Received
      <4>. QED BY ONLY <1>3, <3>1, <3>2, <4>1
    <3>3. CASE p.part = "body"
      <4>1. [id |-> m_msgTemporaryIn[e].id, size |-> m_msgTemporaryIn[e].size,
             body |-> p.body] \in Received
        BY <1>2, <3>1, <3>3, PartFacts DEF Received
      <4>. QED BY ONLY <1>3, <3>1, <3>3, <4>1
    <3>. QED BY <1>3, <3>2, <3>3
  <2>. QED BY <1>1, <1>2, <1>3, <2>1 DEF ConnectionTypeOK, writeVars
<1>5. /\ wire'[f] = Tail(w) /\ wire'[e] = wire[e] /\ reading'[f] = reading[f]
      /\ m_msgTemporaryIn'[f] = m_msgTemporaryIn[f]
      /\ m_qMessagesOut' = m_qMessagesOut /\ writing' = writing /\ isOpen' = isOpen
  BY <1>1, <1>3 DEF ConnectionTypeOK, writeVars
<1>6. Direction(e)'
  BY <1>1, <1>5, DirectionFrame
<1>7. OwedTo(e)' = Owed(p) /\ reading'[e] # "stopped"
  BY <1>1, <1>3 DEF OwedTo, Owed, ConnectionTypeOK, Received
<1>8. AlignedAt(f)'
  BY <1>1, <1>2, <1>5, <1>7 DEF Direction, AlignedAt, OwedTo
<1>9. OwedBy(f)' = OwedBy(f)
  BY <1>1, <1>2, <1>5, <1>7 DEF OwedBy, OwedTo
<1>10. WriterInStep(f)' /\ ChainAt(f)'
  BY <1>1, <1>5, <1>9 DEF Direction, WriterInStep, ChainAt, BeingWritten
<1>. QED BY <1>1, <1>4, <1>6, <1>8, <1>10, TwoEnds DEF Direction

\* The handlers of a read, and its failure: what the reader is owed stays.
LEMMA HandlerOfReadInv ==
  ASSUME ConnectionInv, NEW e \in Ends, HeaderRead(e) \/ BodyRead(e) \/ ReadFails(e)
  PROVE  ConnectionInv'
<1> USE DEF ConnectionInv
<1>1. Peer(e) \in Ends /\ Peer(e) # e /\ Peer(Peer(e)) = e
  BY TwoEnds
<1>2. Append(m_qMessagesIn[e], m_msgTemporaryIn[e]) \in Seq(Received)
  BY AppendProperties DEF ConnectionTypeOK
<1>3. ConnectionTypeOK'
  BY <1>2 DEF HeaderRead, BodyRead, ReadFails, AddToIncomingMessageQueue,
     ConnectionTypeOK, writeVars
<1>4. /\ UNCHANGED <<wire, m_qMessagesOut, writing, m_msgTemporaryIn>>
      /\ reading'[Peer(e)] = reading[Peer(e)] /\ reading[e] # "stopped"
      /\ \A d \in Ends : isOpen'[d] => isOpen[d]
  BY <1>1 DEF HeaderRead, BodyRead, ReadFails, AddToIncomingMessageQueue,
     ConnectionTypeOK, writeVars
<1>5. Direction(e)'
  BY <1>1, <1>4, DirectionFrame
<1>6. reading'[e] = "stopped" \/ OwedTo(e)' = OwedTo(e)
  <2>1. m_msgTemporaryIn[e].size \in Nat
    BY ConnectionAssumption, LenProperties DEF ConnectionTypeOK, Received, Sizes
  <2>. QED BY <2>1 DEF HeaderRead, BodyRead, ReadFails, AddToIncomingMessageQueue,
       ConnectionTypeOK, OwedTo
<1>7. Direction(Peer(e))'
  BY <1>1, <1>4, <1>6
  DEF Direction, AlignedAt, WriterInStep, ChainAt, OwedBy, OwedTo, BeingWritten
<1>. QED BY <1>1, <1>3, <1>5, <1>7, TwoEnds

-----------------------------------------------------------------------------
LEMMA ProgramEndsInv ==
  ASSUME ConnectionInv, ProgramEnds
  PROVE  ConnectionInv'
<1> USE DEF ConnectionInv
<1>1. Client \in Ends /\ Server \in Ends /\ Client # Server
      /\ Peer(Client) = Server /\ Peer(Server) = Client
  BY ConnectionAssumption DEF Ends, Peer
<1>2. ConnectionTypeOK'
  BY <1>1 DEF ProgramEnds, ConnectionTypeOK
<1>3. /\ isOpen'[Client] = FALSE /\ isOpen'[Server] = isOpen[Server]
      /\ writing'[Client] = "none" /\ writing'[Server] = writing[Server]
      /\ reading'[Client] = "stopped" /\ reading'[Server] = reading[Server]
      /\ UNCHANGED <<m_qMessagesOut, wire, m_msgTemporaryIn>>
  BY <1>1 DEF ProgramEnds, ConnectionTypeOK
<1>4. Direction(Client)'
  BY <1>1, <1>3 DEF Direction, AlignedAt, WriterInStep, ChainAt, OwedTo
<1>5. Direction(Server)'
  <2>1. OwedBy(Server)' = OwedBy(Server) \/ wire[Server] = <<>>
    BY <1>3 DEF OwedBy
  <2>. QED BY <1>1, <1>3, <2>1
       DEF Direction, AlignedAt, WriterInStep, ChainAt, BeingWritten
<1>. QED BY <1>2, <1>4, <1>5 DEF Ends

LEMMA ConnectionInvStep == ConnectionInv /\ [Next]_vars => ConnectionInv'
<1> SUFFICES ASSUME ConnectionInv, [Next]_vars PROVE ConnectionInv'
  OBVIOUS
<1>1. CASE Established \/ Refused \/ Handshake \/ LinkFails
  BY <1>1, HandshakeInv
<1>2. ASSUME NEW e \in Ends, (\E m \in Message : Send(e, m)) \/ Disconnect(e)
      PROVE  ConnectionInv'
  BY <1>2, CallInv
<1>3. ASSUME NEW e \in Ends, Tasks(e) PROVE ConnectionInv'
  BY <1>3, RunSendInv, CallInv DEF Tasks
<1>4. ASSUME NEW e \in Ends, Writes(e) PROVE ConnectionInv'
  BY <1>4, TransmitInv, HandlerOfWriteInv, WriteFailsInv DEF Writes
<1>5. ASSUME NEW e \in Ends, Reads(e) PROVE ConnectionInv'
  BY <1>5, ReceiveInv, HandlerOfReadInv DEF Reads
<1>6. CASE UNCHANGED vars
  <2>1. ConnectionTypeOK'
    BY <1>6 DEF ConnectionInv, ConnectionTypeOK, vars, writeVars, readVars
  <2>2. ASSUME NEW e \in Ends PROVE Direction(e)'
    BY <1>6, DirectionFrame DEF ConnectionInv, vars, writeVars, readVars
  <2>. QED BY <2>1, <2>2 DEF ConnectionInv
<1>7. CASE ProgramEnds
  BY <1>7, ProgramEndsInv
<1>. QED BY <1>1, <1>2, <1>3, <1>4, <1>5, <1>6, <1>7 DEF Next

LEMMA ConnectionInvariant == Spec => []ConnectionInv
BY ConnectionInvInit, ConnectionInvStep, PTL DEF Spec

\* Every variable of the two connections keeps its type; in particular only
\* whole messages are queued (net_connection.h:393-413).
THEOREM ConnectionTypeCorrect == Spec => []ConnectionTypeOK
<1>1. ConnectionInv => ConnectionTypeOK
  BY DEF ConnectionInv
<1>. QED BY <1>1, ConnectionInvariant, PTL

\* The write chain never stalls with a message queued on an open socket and
\* never runs into an empty queue (net_connection.h:125-241).
THEOREM WriteChainUnbroken == Spec => []WriteChain
<1>1. ConnectionInv => WriteChain
  BY DEF ConnectionInv, Direction, ChainAt, WriteChain
<1>. QED BY <1>1, ConnectionInvariant, PTL

\* No reader ever takes a body for a header or a header for a body, nor reads
\* a body of another length than was written (net_connection.h:145-186).
THEOREM StreamStaysAligned == Spec => []FramesAligned
<1>1. ConnectionInv => FramesAligned
  BY DEF ConnectionInv, Direction, AlignedAt, FramesAligned
<1>. QED BY <1>1, ConnectionInvariant, PTL
=============================================================================
