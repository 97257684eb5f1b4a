----------------------------- MODULE Connection -----------------------------
(***************************************************************************)
(* One connection<T> of server/include/net_connection.h at each end of a   *)
(* TCP connection. The application calls Send and Disconnect from any      *)
(* thread; both only post a task. The tasks and the completion handlers of *)
(* an end run one at a time on that end's io_context thread, tasks in the  *)
(* order in which they were posted.                                        *)
(*                                                                         *)
(* An asynchronous read or write takes two steps: the operating system     *)
(* moves the bytes (Transmit, Receive), and the handler runs later. What   *)
(* is between them survives a close: a handler whose bytes were moved runs *)
(* without an error even if the socket has been closed meanwhile.          *)
(*                                                                         *)
(* wire[e] is what e has written and the other end has not read, one       *)
(* element for each header and each body. A header or body that was        *)
(* written in part is never read (async_read completes on all of it or     *)
(* fails), so it is left out.                                              *)
(***************************************************************************)
EXTENDS Naturals, Sequences

CONSTANTS Client, Server,  \* the two ends
          Ids,             \* header.id of a message
          ServerAccept,    \* the id of the message OnClientConnect sends
          Bodies,          \* the bodies a message may have, <<>> among them
          MaxSends         \* bound: how many messages each end sends

Ends == {Client, Server}
Peer(e) == IF e = Client THEN Server ELSE Client

ASSUME ConnectionAssumption == /\ Client # Server
                               /\ ServerAccept \in Ids
                               /\ <<>> \in Bodies
                               /\ Bodies \subseteq Seq(0..255)
                               /\ MaxSends \in [Ends -> Nat]

\* header.size is the size of the body: operator<< and operator>> keep it so.
MessageOf(id, body) == [id |-> id, size |-> Len(body), body |-> body]
Message == {MessageOf(id, body) : id \in Ids, body \in Bodies}

VARIABLES
  link,             \* the TCP connection: connecting, up, refused or reset
  isOpen,           \* m_socket.is_open(): the socket was not closed here
  posted,           \* tasks given to asio::post and not yet run
  m_qMessagesOut,   \* messages to write, the one being written first
  writing,          \* the asynchronous write in progress
  wire,             \* written by this end and not yet read by the other
  reading,          \* the asynchronous read in progress
  m_msgTemporaryIn, \* the message being read
  m_qMessagesIn,    \* the messages read so far (their consumer is MessagePump)
  sent              \* history: the messages given to Send, in order

vars == <<link, isOpen, posted, m_qMessagesOut, writing, wire, reading,
          m_msgTemporaryIn, m_qMessagesIn, sent>>

writeVars == <<m_qMessagesOut, writing>>
readVars  == <<reading, m_msgTemporaryIn, m_qMessagesIn>>

SendTask(m) == [run |-> "send", msg |-> m]
CloseTask   == [run |-> "close"]

Init ==
  /\ link = "connecting"
  /\ isOpen = [e \in Ends |-> TRUE]
  /\ posted = [e \in Ends |-> <<>>]
  /\ m_qMessagesOut = [e \in Ends |-> <<>>]
  /\ writing = [e \in Ends |-> "none"]
  /\ wire = [e \in Ends |-> <<>>]
  /\ reading = [e \in Ends |-> "unstarted"]
  /\ m_msgTemporaryIn = [e \in Ends |-> [id |-> ServerAccept, size |-> 0, body |-> <<>>]]
  /\ m_qMessagesIn = [e \in Ends |-> <<>>]
  /\ sent = [e \in Ends |-> <<>>]

Started(e) == reading[e] # "unstarted"

Post(e, task) == posted' = [posted EXCEPT ![e] = Append(@, task)]

-----------------------------------------------------------------------------
(* Connecting. async_connect opens the client's socket as soon as it is    *)
(* called; the handler of a failed attempt only prints a message.          *)

Established ==
  /\ link = "connecting"
  /\ isOpen[Client]
  /\ link' = "up"
  /\ UNCHANGED <<isOpen, posted, writeVars, wire, readVars, sent>>

Refused ==
  /\ link = "connecting"
  /\ link' = "refused"
  /\ UNCHANGED <<isOpen, posted, writeVars, wire, readVars, sent>>

\* The client's connect handler: ReadHeader, unless the attempt failed or
\* the socket was closed meanwhile.
ConnectToServer ==
  /\ ~Started(Client)
  /\ link # "connecting" \/ ~isOpen[Client]
  /\ reading' = [reading EXCEPT ![Client] =
                   IF link \in {"up", "reset"} /\ isOpen[Client]
                   THEN "header" ELSE "stopped"]
  /\ UNCHANGED <<link, isOpen, posted, writeVars, wire, m_msgTemporaryIn,
                 m_qMessagesIn, sent>>

\* The server's accept handler: OnClientConnect greets, then ReadHeader.
\* A link that is reset before is left to the module of the acceptor.
ConnectToClient ==
  /\ link = "up"
  /\ ~Started(Server)
  /\ Post(Server, SendTask(MessageOf(ServerAccept, <<>>)))
  /\ sent' = [sent EXCEPT ![Server] = Append(@, MessageOf(ServerAccept, <<>>))]
  /\ reading' = [reading EXCEPT ![Server] = "header"]
  /\ UNCHANGED <<link, isOpen, writeVars, wire, m_msgTemporaryIn, m_qMessagesIn>>

\* The network, or a peer that closed with data unread, resets the link.
LinkFails ==
  /\ link = "up"
  /\ Started(Server)
  /\ link' = "reset"
  /\ UNCHANGED <<isOpen, posted, writeVars, wire, readVars, sent>>

-----------------------------------------------------------------------------
(* Calls from the application. The client can call them at once, the       *)
(* server once it has the connection.                                      *)

InUse(e) == e = Client \/ Started(e)

Send(e, m) ==
  /\ InUse(e)
  /\ Len(sent[e]) < MaxSends[e]
  /\ Post(e, SendTask(m))
  /\ sent' = [sent EXCEPT ![e] = Append(@, m)]
  /\ UNCHANGED <<link, isOpen, writeVars, wire, readVars>>

\* Bound: one close is posted at a time.
Disconnect(e) ==
  /\ InUse(e)
  /\ isOpen[e]
  /\ \A i \in DOMAIN posted[e] : posted[e][i] # CloseTask
  /\ Post(e, CloseTask)
  /\ UNCHANGED <<link, isOpen, writeVars, wire, readVars, sent>>

-----------------------------------------------------------------------------
(* The posted tasks.                                                       *)

NextTask(e, run) ==
  /\ posted[e] # <<>>
  /\ Head(posted[e]).run = run
  /\ posted' = [posted EXCEPT ![e] = Tail(@)]

\* The lambda of Send: WriteHeader unless bWritingMessage.
RunSend(e) ==
  /\ NextTask(e, "send")
  /\ m_qMessagesOut' = [m_qMessagesOut EXCEPT ![e] = Append(@, Head(posted[e]).msg)]
  /\ \/ /\ m_qMessagesOut[e] = <<>>
        /\ writing' = [writing EXCEPT ![e] = "header"]
     \/ /\ m_qMessagesOut[e] # <<>>
        /\ UNCHANGED writing
  /\ UNCHANGED <<link, isOpen, wire, readVars, sent>>

RunClose(e) ==
  /\ NextTask(e, "close")
  /\ isOpen' = [isOpen EXCEPT ![e] = FALSE]
  /\ UNCHANGED <<link, writeVars, wire, readVars, sent>>

\* The client program ends: its handlers and tasks are gone, and the
\* operating system closes the socket.
ProgramEnds ==
  /\ isOpen' = [isOpen EXCEPT ![Client] = FALSE]
  /\ posted' = [posted EXCEPT ![Client] = <<>>]
  /\ writing' = [writing EXCEPT ![Client] = "none"]
  /\ reading' = [reading EXCEPT ![Client] = "stopped"]
  /\ UNCHANGED <<link, m_qMessagesOut, wire, m_msgTemporaryIn, m_qMessagesIn, sent>>

-----------------------------------------------------------------------------
(* Writing: header, then the body if there is one, then the next message.  *)

BeingWritten(e) == Head(m_qMessagesOut[e])

\* Mutant: size() is the size of the entire packet, header included.
HeaderPartWholeSize(m) == [part |-> "header", id |-> m.id, size |-> m.size + 8]

HeaderPart(m) == [part |-> "header", id |-> m.id, size |-> m.size]
BodyPart(m)   == [part |-> "body", body |-> m.body]

Transmit(e) ==
  /\ isOpen[e]
  /\ link = "up"
  /\ \/ /\ writing[e] = "header"
        /\ wire' = [wire EXCEPT ![e] = Append(@, HeaderPart(BeingWritten(e)))]
        /\ writing' = [writing EXCEPT ![e] = "headerDone"]
     \/ /\ writing[e] = "body"
        /\ wire' = [wire EXCEPT ![e] = Append(@, BodyPart(BeingWritten(e)))]
        /\ writing' = [writing EXCEPT ![e] = "bodyDone"]
  /\ UNCHANGED <<link, isOpen, posted, m_qMessagesOut, readVars, sent>>

\* Mutant: the next message waits for the next call of Send.
WriteOneOnly(e) ==
  /\ m_qMessagesOut' = [m_qMessagesOut EXCEPT ![e] = Tail(@)]
  /\ writing' = [writing EXCEPT ![e] = "none"]

\* m_qMessagesOut.pop_front(), and WriteHeader if that leaves a message.
WriteNext(e) ==
  /\ m_qMessagesOut' = [m_qMessagesOut EXCEPT ![e] = Tail(@)]
  /\ writing' = [writing EXCEPT ![e] =
                   IF Tail(m_qMessagesOut[e]) = <<>> THEN "none" ELSE "header"]

HeaderWritten(e) ==
  /\ writing[e] = "headerDone"
  /\ \/ /\ BeingWritten(e).body # <<>>
        /\ writing' = [writing EXCEPT ![e] = "body"]
        /\ UNCHANGED m_qMessagesOut
     \/ BeingWritten(e).body = <<>> /\ WriteNext(e)
  /\ UNCHANGED <<link, isOpen, posted, wire, readVars, sent>>

BodyWritten(e) ==
  /\ writing[e] = "bodyDone"
  /\ WriteNext(e)
  /\ UNCHANGED <<link, isOpen, posted, wire, readVars, sent>>

\* Mutant: an error of a write is only reported.
WriteFailsUnnoticed(e) ==
  /\ writing[e] \in {"header", "body"}
  /\ ~isOpen[e] \/ link \in {"refused", "reset"}
  /\ writing' = [writing EXCEPT ![e] = "none"]
  /\ UNCHANGED <<link, isOpen, posted, m_qMessagesOut, wire, readVars, sent>>

\* The message stays in m_qMessagesOut, and every later one behind it.
WriteFails(e) ==
  /\ writing[e] \in {"header", "body"}
  /\ ~isOpen[e] \/ link \in {"refused", "reset"}
  /\ writing' = [writing EXCEPT ![e] = "none"]
  /\ isOpen' = [isOpen EXCEPT ![e] = FALSE]
  /\ UNCHANGED <<link, posted, m_qMessagesOut, wire, readVars, sent>>

-----------------------------------------------------------------------------
(* Reading: header, then the body if its size is not zero, then the next.  *)

Receive(e) ==
  /\ isOpen[e]
  /\ reading[e] \in {"header", "body"}
  /\ wire[Peer(e)] # <<>>
  /\ LET p == Head(wire[Peer(e)])
     IN  /\ p.part = reading[e]
         /\ wire' = [wire EXCEPT ![Peer(e)] = Tail(@)]
         /\ \/ /\ p.part = "header"
               /\ m_msgTemporaryIn' = [m_msgTemporaryIn EXCEPT ![e] =
                    [id |-> p.id, size |-> p.size, body |-> @.body]]
               /\ reading' = [reading EXCEPT ![e] = "headerDone"]
            \/ /\ p.part = "body"
               /\ m_msgTemporaryIn' = [m_msgTemporaryIn EXCEPT ![e] =
                    [id |-> @.id, size |-> @.size, body |-> p.body]]
               /\ reading' = [reading EXCEPT ![e] = "bodyDone"]
  /\ UNCHANGED <<link, isOpen, posted, writeVars, m_qMessagesIn, sent>>

AddToIncomingMessageQueue(e) ==
  /\ m_qMessagesIn' = [m_qMessagesIn EXCEPT ![e] = Append(@, m_msgTemporaryIn[e])]
  /\ reading' = [reading EXCEPT ![e] = "header"]

\* Mutant: the message is queued as soon as its header has been read.
HeaderReadQueues(e) ==
  /\ reading[e] = "headerDone"
  /\ AddToIncomingMessageQueue(e)
  /\ UNCHANGED <<link, isOpen, posted, writeVars, wire, m_msgTemporaryIn, sent>>

\* The body is resized only when the size is not zero: a message without
\* a body is queued with the body of the one before it.
HeaderRead(e) ==
  /\ reading[e] = "headerDone"
  /\ \/ /\ m_msgTemporaryIn[e].size > 0
        /\ reading' = [reading EXCEPT ![e] = "body"]
        /\ UNCHANGED m_qMessagesIn
     \/ /\ m_msgTemporaryIn[e].size = 0
        /\ AddToIncomingMessageQueue(e)
  /\ UNCHANGED <<link, isOpen, posted, writeVars, wire, m_msgTemporaryIn, sent>>

BodyRead(e) ==
  /\ reading[e] = "bodyDone"
  /\ AddToIncomingMessageQueue(e)
  /\ UNCHANGED <<link, isOpen, posted, writeVars, wire, m_msgTemporaryIn, sent>>

\* The other end has closed and all it wrote has been read.
EndOfFile(e) == ~isOpen[Peer(e)] /\ wire[Peer(e)] = <<>>

\* Mutant: an error of a read leaves the socket open.
ReadFailsUnnoticed(e) ==
  /\ reading[e] \in {"header", "body"}
  /\ ~isOpen[e] \/ link = "reset" \/ EndOfFile(e)
  /\ reading' = [reading EXCEPT ![e] = "stopped"]
  /\ UNCHANGED <<link, isOpen, posted, writeVars, wire, m_msgTemporaryIn,
                 m_qMessagesIn, sent>>

ReadFails(e) ==
  /\ reading[e] \in {"header", "body"}
  /\ ~isOpen[e] \/ link = "reset" \/ EndOfFile(e)
  /\ reading' = [reading EXCEPT ![e] = "stopped"]
  /\ isOpen' = [isOpen EXCEPT ![e] = FALSE]
  /\ UNCHANGED <<link, posted, writeVars, wire, m_msgTemporaryIn, m_qMessagesIn, sent>>

-----------------------------------------------------------------------------
Tasks(e)  == RunSend(e) \/ RunClose(e)
Writes(e) == Transmit(e) \/ HeaderWritten(e) \/ BodyWritten(e) \/ WriteFails(e)
Reads(e)  == Receive(e) \/ HeaderRead(e) \/ BodyRead(e) \/ ReadFails(e)

Handshake == ConnectToServer \/ ConnectToClient

Next ==
  \/ Established \/ Refused \/ Handshake \/ LinkFails \/ ProgramEnds
  \/ \E e \in Ends :
       \/ \E m \in Message : Send(e, m)
       \/ Disconnect(e) \/ Tasks(e) \/ Writes(e) \/ Reads(e)

Spec == Init /\ [][Next]_vars

-----------------------------------------------------------------------------
Sizes == {Len(b) : b \in Bodies}

Parts ==
  [part : {"header"}, id : Ids, size : Sizes] \cup [part : {"body"}, body : Bodies]

TaskSet == {SendTask(m) : m \in Message} \cup {CloseTask}

Received == [id : Ids, size : Sizes, body : Bodies]

ConnectionTypeOK ==
  /\ link \in {"connecting", "up", "refused", "reset"}
  /\ isOpen \in [Ends -> BOOLEAN]
  /\ posted \in [Ends -> Seq(TaskSet)]
  /\ m_qMessagesOut \in [Ends -> Seq(Message)]
  /\ writing \in [Ends -> {"none", "header", "headerDone", "body", "bodyDone"}]
  /\ wire \in [Ends -> Seq(Parts)]
  /\ reading \in [Ends -> {"unstarted", "header", "headerDone", "body", "bodyDone",
                           "stopped"}]
  /\ m_msgTemporaryIn \in [Ends -> Received]
  /\ m_qMessagesIn \in [Ends -> Seq(Received)]
  /\ sent \in [Ends -> Seq(Message)]

\* A write is in progress exactly while there is a message to write, so the
\* handlers never look at the front of an empty queue and no message is left
\* behind without a handler to write it; a failed write, which leaves its
\* message queued, leaves the socket closed as well.
WriteChain ==
  \A e \in Ends :
    /\ writing[e] # "none" => m_qMessagesOut[e] # <<>>
    /\ writing[e] = "none" /\ m_qMessagesOut[e] # <<>> => ~isOpen[e]

\* The length of the body that has to follow a part, and of the one that end
\* e is to read next; 0 if a header has to follow.
Owed(p)   == IF p.part = "header" THEN p.size ELSE 0
OwedTo(e) == IF reading[e] \in {"headerDone", "body"} THEN m_msgTemporaryIn[e].size ELSE 0

Settles(p, n) ==
  IF n > 0 THEN p.part = "body" /\ Len(p.body) = n ELSE p.part = "header"

\* The reader and the writer agree where a header begins and how long the
\* body after it is: there is nothing else in the stream to tell them apart.
FramesAligned ==
  \A e \in Ends :
    LET w == wire[e]
    IN  /\ w # <<>> /\ reading[Peer(e)] # "stopped" => Settles(w[1], OwedTo(Peer(e)))
        /\ \A i \in 1 .. Len(w) - 1 : Settles(w[i + 1], Owed(w[i]))

\* A message as a reader who heeds its size sees it.
Visible(m) == IF m.size = 0 THEN [m EXCEPT !.body = <<>>] ELSE m

\* Nothing will arrive at end e any more.
Broken(e) == \/ reading[e] = "stopped"
             \/ link = "refused"
             \/ link = "connecting" /\ ~isOpen[Client]

Arrived(e) == [i \in 1 .. Len(m_qMessagesIn[e]) |-> Visible(m_qMessagesIn[e][i])]

ToServer == INSTANCE MessageChannel WITH
  sent <- sent[Client], arrived <- Arrived(Server), broken <- Broken(Server)

ToClient == INSTANCE MessageChannel WITH
  sent <- sent[Server], arrived <- Arrived(Client), broken <- Broken(Client)

\* Each direction is a channel: what was sent arrives once and in order, and
\* all of it unless the direction breaks.
ServerHears == ToServer!ChannelSpec
ClientHears == ToClient!ChannelSpec

\* Both directions of a connection are channels at once, whichever end fails,
\* closes or stops writing first.
PeersHear == ServerHears /\ ClientHears

\* A client that closes, or whose program ends, is noticed by the server,
\* whose end closes too, whatever is still queued, posted or on the way.
CloseReachesServer == (link = "up" /\ ~isOpen[Client]) ~> ~isOpen[Server]

\* A message arrives as it was sent ("identical", says net_message.h of the
\* owned messages in the queue).
ArrivesIdentical ==
  \A e \in Ends : \A i \in 1 .. Len(m_qMessagesIn[Peer(e)]) :
    m_qMessagesIn[Peer(e)][i] = sent[e][i]

\* "Check if client is actually connected to the server": IsConnected()
\* turns false when the server refuses the connection.
RefusalNoticed == link = "refused" ~> ~isOpen[Client]
=============================================================================
