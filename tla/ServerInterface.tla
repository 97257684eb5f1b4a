-------------------------- MODULE ServerInterface --------------------------
(***************************************************************************)
(* m_deqConnections of server_interface (server/include/net_server.h) and  *)
(* the two threads that use it without a mutex. The io_context thread      *)
(* accepts connections: it greets one, pushes it, gives it its id and      *)
(* waits for the next. The main thread searches the deque (OnMessage in    *)
(* server.cpp), sends through MessageClient and MessageAllClients, which   *)
(* take out connections that are closed, and stops the server.             *)
(* CustomServer only searches; the other calls are what the library offers *)
(* to a server of its kind.                                                *)
(*                                                                         *)
(* A loop over the deque goes up to the end() it took when it began: a     *)
(* push_back meanwhile leaves the elements where they are and is not seen. *)
(* One that meets erase(std::remove(...), end()), whose arguments are      *)
(* evaluated in either order, is kept or is erased with the others.        *)
(***************************************************************************)
EXTENDS Naturals, Sequences

CONSTANTS Clients,   \* the client programs, each makes one connection
          Null,      \* nullptr
          MaxErrors, \* bound: how often accepting a connection fails
          MaxCalls   \* bound: how many calls the main thread makes

ASSUME InterfaceAssumption == /\ Null \notin Clients
                              /\ MaxErrors \in Nat
                              /\ MaxCalls \in Nat

VARIABLES
  arrival,          \* a client's connection: outside, backlog or accepted
  clientOpen,       \* whether the client's end of it is open
  m_threadContext,  \* the io_context thread: none, running or ended
  acceptor,         \* where the accept handler is
  newConn,          \* the connection it was called with
  nIDCounter,       \* the id of the next connection
  errors,           \* how often accepting has failed
  conn,             \* the connection objects
  m_deqConnections, \* the connections, in the order in which they were pushed
  toClient,         \* the kinds of messages given to Send, for each client
  main,             \* where the main thread is, and its locals
  stopped,          \* whether m_asioContext has been stopped
  overlapped        \* history: a push_back or its back() met a removal

clientVars == <<arrival, clientOpen>>
acceptVars == <<m_threadContext, acceptor, newConn, nIDCounter, errors, overlapped>>
dequeVars  == <<conn, m_deqConnections, toClient>>
interfaceVars == <<clientVars, acceptVars, dequeVars, main, stopped>>

InterfaceInit ==
  /\ arrival = [c \in Clients |-> "outside"]
  /\ clientOpen = [c \in Clients |-> TRUE]
  /\ m_threadContext = "none"
  /\ acceptor = "unarmed"
  /\ newConn = Null
  /\ nIDCounter = 10000
  /\ errors = 0
  /\ conn = [c \in Clients |-> [id |-> 0, open |-> FALSE]]
  /\ m_deqConnections = <<>>
  /\ toClient = [c \in Clients |-> <<>>]
  /\ main = [at |-> "starting", calls |-> 0, cursor |-> 1, end |-> 0, kept |-> 0,
             id |-> 0, pIgnoreClient |-> Null, bInvalidClientExists |-> FALSE,
             found |-> Null,
             due |-> Null] \* history: what a search ought to find
  /\ stopped = FALSE
  /\ overlapped = FALSE

SendTo(c, kind) == toClient' = [toClient EXCEPT ![c] = Append(@, kind)]

-----------------------------------------------------------------------------
(* The clients. The operating system completes a connection by itself and  *)
(* keeps it in the backlog of the listening socket.                        *)

Arrive(c) ==
  /\ arrival[c] = "outside"
  /\ arrival' = [arrival EXCEPT ![c] = "backlog"]
  /\ UNCHANGED <<clientOpen, acceptVars, dequeVars, main, stopped>>

Leave(c) ==
  /\ arrival[c] # "outside"
  /\ clientOpen[c]
  /\ clientOpen' = [clientOpen EXCEPT ![c] = FALSE]
  /\ UNCHANGED <<arrival, acceptVars, dequeVars, main, stopped>>

-----------------------------------------------------------------------------
(* The io_context thread. It runs one handler at a time: while the accept  *)
(* handler runs, no other does.                                            *)

\* The handler of async_accept is at one point and goes on to the next.
Accepting(from, to) ==
  /\ m_threadContext = "running"
  /\ acceptor = from
  /\ acceptor' = to
  /\ UNCHANGED <<clientOpen, m_threadContext, main, stopped>>

TakeConnection(c) ==
  /\ Accepting("armed", "accepted")
  /\ ~stopped
  /\ arrival[c] = "backlog"
  /\ arrival' = [arrival EXCEPT ![c] = "accepted"]
  /\ newConn' = c
  /\ UNCHANGED <<nIDCounter, errors, overlapped, dequeVars>>

TakeError ==
  /\ Accepting("armed", "failed")
  /\ ~stopped
  /\ errors < MaxErrors
  /\ errors' = errors + 1
  /\ UNCHANGED <<arrival, newConn, nIDCounter, overlapped, dequeVars>>

\* Mutant: after an error the acceptor is not primed again.
ReportErrorOnly ==
  /\ Accepting("failed", "unarmed")
  /\ UNCHANGED <<arrival, newConn, nIDCounter, errors, overlapped, dequeVars>>

\* As every way through the handler, it ends in WaitForClientConnection.
ReportError ==
  /\ Accepting("failed", "armed")
  /\ UNCHANGED <<arrival, newConn, nIDCounter, errors, overlapped, dequeVars>>

\* remote_endpoint() may throw when the client has reset the connection: the
\* exception leaves the thread, and the process ends.
EndpointThrows ==
  /\ Accepting("accepted", "ended")
  /\ ~clientOpen[newConn]
  /\ UNCHANGED <<arrival, newConn, nIDCounter, errors, overlapped, dequeVars>>

\* Mutant: OnClientConnect leaves the greeting to the application.
OnClientConnectSilent ==
  /\ Accepting("accepted", "greeted")
  /\ conn' = [conn EXCEPT ![newConn].open = TRUE]
  /\ UNCHANGED <<arrival, newConn, nIDCounter, errors, overlapped,
                 m_deqConnections, toClient>>

\* The connection object is made; OnClientConnect denies nobody.
OnClientConnect ==
  /\ Accepting("accepted", "greeted")
  /\ conn' = [conn EXCEPT ![newConn].open = TRUE]
  /\ SendTo(newConn, "ServerAccept")
  /\ UNCHANGED <<arrival, newConn, nIDCounter, errors, overlapped, m_deqConnections>>

Removing == main.at \in {"remove", "erase"}

PushBack ==
  /\ Accepting("greeted", "pushed")
  /\ m_deqConnections' = Append(m_deqConnections, newConn)
  /\ overlapped' = (overlapped \/ Removing)
  /\ UNCHANGED <<arrival, newConn, nIDCounter, errors, conn, toClient>>

Back    == m_deqConnections[Len(m_deqConnections)]
HasBack == m_deqConnections # <<>> /\ Back # Null

\* ConnectToClient of what is at the back by now.
ConnectToClient(uid, next) ==
  /\ Accepting("pushed", "armed")
  /\ HasBack
  /\ conn' = [conn EXCEPT ![Back].id = IF conn[Back].open THEN uid ELSE @]
  /\ nIDCounter' = next
  /\ overlapped' = (overlapped \/ Removing)
  /\ UNCHANGED <<arrival, newConn, errors, m_deqConnections, toClient>>

\* A removal has left nothing at the back to call ConnectToClient of.
BackIsNothing ==
  /\ Accepting("pushed", "ended")
  /\ ~HasBack
  /\ overlapped' = TRUE
  /\ UNCHANGED <<arrival, newConn, nIDCounter, errors, dequeVars>>

\* Mutants: ++nIDCounter; the counter is not moved on.
IdentifyAfter == ConnectToClient(nIDCounter + 1, nIDCounter + 1)
IdentifySame  == ConnectToClient(nIDCounter, nIDCounter)

Identify == ConnectToClient(nIDCounter, nIDCounter + 1)

\* A read of a connection fails since the client is gone.
NoticeClientGone(c) ==
  /\ Accepting("armed", "armed")
  /\ ~stopped
  /\ conn[c].open /\ conn[c].id # 0
  /\ ~clientOpen[c]
  /\ conn' = [conn EXCEPT ![c].open = FALSE]
  /\ UNCHANGED <<arrival, newConn, nIDCounter, errors, overlapped,
                 m_deqConnections, toClient>>

\* run() returns; what was accepted is not handled any more.
RunReturns ==
  /\ m_threadContext = "running"
  /\ stopped
  /\ acceptor = "armed"
  /\ m_threadContext' = "ended"
  /\ UNCHANGED <<clientVars, acceptor, newConn, nIDCounter, errors, overlapped,
                 dequeVars, main, stopped>>

AcceptStep ==
  \/ \E c \in Clients : TakeConnection(c)
  \/ ReportError \/ OnClientConnect \/ PushBack \/ Identify \/ BackIsNothing
  \/ RunReturns

-----------------------------------------------------------------------------
(* The main thread. A call leads from "idle" through the points of its     *)
(* loop back to "idle".                                                    *)

At(point) == main.at = point /\ acceptor # "ended" /\ UNCHANGED clientVars

Call == At("idle") /\ main.calls < MaxCalls /\ UNCHANGED <<acceptVars, stopped>>

\* A step of a call already made.
In(point) == At(point) /\ UNCHANGED <<acceptVars, stopped>>

\* Start arms the acceptor and makes the thread. When that fails it returns
\* false, which main does not look at.
Start ==
  /\ At("starting")
  /\ main' = [main EXCEPT !.at = "idle"]
  /\ acceptor' = "armed"
  /\ m_threadContext' \in {"running", "none"}
  /\ UNCHANGED <<newConn, nIDCounter, errors, overlapped, dequeVars, stopped>>

BeginLoop(point, calls) ==
  [main EXCEPT !.at = point, !.calls = calls, !.cursor = 1,
               !.end = Len(m_deqConnections), !.kept = 0]

AtCursor == m_deqConnections[main.cursor]

\* Mutant: the loop does not come to the last element.
InLoopButLast == main.cursor < main.end

InLoop == main.cursor <= main.end

IsListed(c) == \E i \in DOMAIN m_deqConnections : m_deqConnections[i] = c
WithId(n)   == {c \in Clients : conn[c].id = n /\ IsListed(c)}

\* for (auto connection : m_deqConnections) of OnMessage, for an id. 0 is the
\* id of a connection that has none yet.
Search(n) ==
  /\ Call
  /\ main' = [BeginLoop("search", main.calls + 1) EXCEPT !.id = n, !.found = Null,
                !.due = IF n = 0 \/ WithId(n) = {} THEN Null ELSE CHOOSE c \in WithId(n) : TRUE]
  /\ UNCHANGED dequeVars

SearchOn ==
  /\ In("search") /\ InLoop
  /\ conn[AtCursor].id # main.id
  /\ main' = [main EXCEPT !.cursor = @ + 1]
  /\ UNCHANGED dequeVars

SearchHit ==
  /\ In("search") /\ InLoop
  /\ conn[AtCursor].id = main.id
  /\ main' = [main EXCEPT !.at = "searched", !.found = AtCursor]
  /\ SendTo(AtCursor, "Message")
  /\ UNCHANGED <<conn, m_deqConnections>>

SearchEnds ==
  /\ In("search") /\ ~InLoop
  /\ main' = [main EXCEPT !.at = "searched"]
  /\ UNCHANGED dequeVars

SearchReturns ==
  /\ In("searched")
  /\ main' = [main EXCEPT !.at = "idle"]
  /\ UNCHANGED dequeVars

\* The pointer is reset before the deque is searched for it: nothing but null
\* pointers is removed.
MessageClient(c) ==
  /\ Call
  /\ arrival[c] = "accepted" /\ conn[c].id # 0
  /\ \/ /\ conn[c].open
        /\ SendTo(c, "Message")
        /\ main' = [main EXCEPT !.calls = @ + 1]
     \/ /\ ~conn[c].open
        /\ main' = BeginLoop("remove", main.calls + 1)
        /\ UNCHANGED toClient
  /\ UNCHANGED <<conn, m_deqConnections>>

MessageAllClients(pIgnoreClient) ==
  /\ Call
  /\ main' = [BeginLoop("sweep", main.calls + 1) EXCEPT
                !.pIgnoreClient = pIgnoreClient, !.bInvalidClientExists = FALSE]
  /\ UNCHANGED dequeVars

\* Mutants: the client left out is invalid; no client is.
IsInvalidOrIgnored(c) == ~conn[c].open \/ c = main.pIgnoreClient
IsNeverInvalid(c) == c = Null

IsInvalid(c) == ~conn[c].open

Sweep ==
  /\ In("sweep") /\ InLoop
  /\ \/ /\ ~IsInvalid(AtCursor)
        /\ IF AtCursor # main.pIgnoreClient THEN SendTo(AtCursor, "Message")
                                            ELSE UNCHANGED toClient
        /\ main' = [main EXCEPT !.cursor = @ + 1]
        /\ UNCHANGED m_deqConnections
     \/ /\ IsInvalid(AtCursor)
        /\ m_deqConnections' = [m_deqConnections EXCEPT ![main.cursor] = Null]
        /\ main' = [main EXCEPT !.cursor = @ + 1, !.bInvalidClientExists = TRUE]
        /\ UNCHANGED toClient
  /\ UNCHANGED conn

SweepEnds ==
  /\ In("sweep") /\ ~InLoop
  /\ main' = IF main.bInvalidClientExists THEN BeginLoop("remove", main.calls)
             ELSE [main EXCEPT !.at = "idle"]
  /\ UNCHANGED dequeVars

\* std::remove: what is kept moves forward, and a pointer moved from is null.
RemoveNull ==
  /\ In("remove") /\ InLoop
  /\ AtCursor = Null
  /\ main' = [main EXCEPT !.cursor = @ + 1]
  /\ UNCHANGED dequeVars

Keep ==
  /\ In("remove") /\ InLoop
  /\ AtCursor # Null
  /\ m_deqConnections' = [m_deqConnections EXCEPT ![main.cursor] = Null,
                                                 ![main.kept + 1] = AtCursor]
  /\ main' = [main EXCEPT !.cursor = @ + 1, !.kept = @ + 1]
  /\ UNCHANGED <<conn, toClient>>

RemoveEnds ==
  /\ In("remove") /\ ~InLoop
  /\ main' = [main EXCEPT !.at = "erase"]
  /\ UNCHANGED dequeVars

\* Mutant: the result of std::remove is not used.
EraseNothing ==
  /\ In("erase")
  /\ main' = [main EXCEPT !.at = "idle"]
  /\ UNCHANGED dequeVars

\* From the end of what is kept up to end(), taken before or after std::remove.
Erase ==
  /\ In("erase")
  /\ main' = [main EXCEPT !.at = "idle"]
  /\ \E last \in {main.end, Len(m_deqConnections)} :
       m_deqConnections' = SubSeq(m_deqConnections, 1, main.kept)
                             \o SubSeq(m_deqConnections, last + 1, Len(m_deqConnections))
  /\ UNCHANGED <<conn, toClient>>

\* Mutant: the thread is joined without a word to its io_context.
StopKeepingContext ==
  /\ At("idle")
  /\ main' = [main EXCEPT !.at = "joining"]
  /\ UNCHANGED <<acceptVars, dequeVars, stopped>>

Stop ==
  /\ At("idle")
  /\ main' = [main EXCEPT !.at = "joining"]
  /\ stopped' = TRUE
  /\ UNCHANGED <<acceptVars, dequeVars>>

Join ==
  /\ In("joining")
  /\ m_threadContext # "running"
  /\ main' = [main EXCEPT !.at = "stopped"]
  /\ UNCHANGED dequeVars

MainStep ==
  \/ Start \/ SearchOn \/ SearchHit \/ SearchEnds \/ SearchReturns
  \/ Sweep \/ SweepEnds \/ RemoveNull \/ Keep \/ RemoveEnds \/ Erase \/ Join

MainCall ==
  \/ \E n \in {0} \cup 10000 .. nIDCounter : Search(n)
  \/ \E c \in Clients : MessageClient(c) \/ MessageAllClients(c)
  \/ MessageAllClients(Null) \/ Stop

InterfaceNext ==
  \/ \E c \in Clients : Arrive(c) \/ Leave(c) \/ NoticeClientGone(c)
  \/ TakeError \/ EndpointThrows \/ AcceptStep \/ MainStep \/ MainCall

InterfaceSpec == InterfaceInit /\ [][InterfaceNext]_interfaceVars

(* Both threads keep running. The clients owe nothing, nor does the main   *)
(* thread owe a call.                                                      *)
FairSpec == InterfaceSpec /\ WF_interfaceVars(AcceptStep) /\ WF_interfaceVars(MainStep)

-----------------------------------------------------------------------------
Points == {"starting", "idle", "search", "searched", "sweep", "remove", "erase",
           "joining", "stopped"}

\* An id is one that the counter has passed.
Ids     == {0} \cup 10000 .. nIDCounter - 1
Objects == [Clients -> [id : Ids, open : BOOLEAN]]

Locals ==
  [at : Points, calls : Nat, cursor : Nat, end : Nat, kept : Nat, id : Nat,
   pIgnoreClient : Clients \cup {Null}, bInvalidClientExists : BOOLEAN,
   found : Clients \cup {Null}, due : Clients \cup {Null}]

Listable == Clients \cup {Null}
Kinds    == {"ServerAccept", "Message"}

InterfaceTypeOK ==
  /\ arrival \in [Clients -> {"outside", "backlog", "accepted"}]
  /\ clientOpen \in [Clients -> BOOLEAN]
  /\ m_threadContext \in {"none", "running", "ended"}
  /\ acceptor \in {"unarmed", "armed", "failed", "accepted", "greeted", "pushed", "ended"}
  /\ newConn \in Clients \cup {Null}
  /\ nIDCounter \in Nat
  /\ errors \in Nat
  /\ conn \in Objects
  /\ m_deqConnections \in Seq(Listable)
  /\ toClient \in [Clients -> Seq(Kinds)]
  /\ main \in Locals
  /\ stopped \in BOOLEAN
  /\ overlapped \in BOOLEAN

\* OnMessage and MessageAllClients dereference what they find in the deque:
\* outside the sweep and its removal there is no null pointer in it, however
\* many connections were pushed meanwhile.
NoNullListed ==
  main.at \notin {"sweep", "remove", "erase"} =>
    \A i \in DOMAIN m_deqConnections : m_deqConnections[i] # Null

\* The greeting is the first message of every connection, and the only
\* greeting: the main thread finds nobody to send to before.
GreetedFirst ==
  \A c \in Clients : \A i \in DOMAIN toClient[c] :
    (toClient[c][i] = "ServerAccept") = (i = 1)

\* As long as no push_back has met a removal, a connection once pushed stays
\* in the deque while it is open, in one place only.
OpenStaysListed ==
  ~overlapped =>
    /\ \A c \in Clients :
         conn[c].open /\ ~(acceptor = "greeted" /\ newConn = c) => IsListed(c)
    /\ \A i, j \in DOMAIN m_deqConnections :
         i < j /\ m_deqConnections[i] # Null => m_deqConnections[i] # m_deqConnections[j]

\* As long as no push_back has met a removal, ids go up along the deque: a
\* later connection has a higher id, and no two are the same.
IdsAscend ==
  ~overlapped =>
    \A i, j \in DOMAIN m_deqConnections :
      LET c == m_deqConnections[i]  d == m_deqConnections[j]
      IN  i < j /\ c # Null /\ d # Null /\ conn[d].id # 0 => conn[c].id < conn[d].id

\* As long as no push_back has met a removal, m_deqConnections holds every open
\* connection once, and in the order of their ids.
ListedInOrder == OpenStaysListed /\ IdsAscend

\* As long as no push_back has met a removal (and back() another connection), a
\* search for an id finds the connection that had it when the search began,
\* whatever is pushed, given an id or closed meanwhile.
SearchFinds ==
  ~overlapped /\ main.at = "searched" => main.found = main.due \/ main.due = Null

\* A connection that has an id is never pushed again, once taken out; and it
\* keeps the id, as long as no push_back has met a removal.
IdGivenOnce ==
  [][\A c \in Clients : conn[c].id # 0 =>
       /\ IsListed(c)' => IsListed(c)
       /\ ~overlapped' => conn'[c].id = conn[c].id]_interfaceVars

\* As long as no push_back has met a removal, a connection leaves the deque in
\* a sweep of MessageAllClients, which meets it closed, and in no other way:
\* neither by the std::remove after it nor by MessageClient, which removes only
\* the pointers that are null already.
LeavesBySweep ==
  [][~overlapped' => \A c \in Clients :
       IsListed(c) /\ ~IsListed(c)' => main.at = "sweep" /\ ~conn[c].open]_interfaceVars

\* A connection is listed from its push_back to the sweep that meets it closed,
\* and never again.
ListedTillSwept == IdGivenOnce /\ LeavesBySweep

\* MessageAllClients takes out every connection that is closed before it comes
\* to it.
SweepRemoves ==
  \A c \in Clients :
    (/\ main.at = "sweep" /\ ~conn[c].open
     /\ \E i \in main.cursor .. main.end : m_deqConnections[i] = c)
      ~> (~IsListed(c) \/ acceptor = "ended")

\* A client that is waiting is accepted and gets an id, whatever went wrong
\* with others, if Start made the thread: unless the server is stopped or ends,
\* a push_back meets a removal or the client has left.
EveryoneAccepted ==
  \A c \in Clients :
    (arrival[c] = "backlog" /\ m_threadContext = "running")
      ~> (\/ conn[c].id # 0 \/ ~clientOpen[c]
          \/ acceptor = "ended" \/ stopped \/ overlapped)

\* Stop returns: the io_context thread is not kept by what it is doing.
StopReturns == main.at = "joining" ~> (main.at = "stopped" \/ acceptor = "ended")
=============================================================================
