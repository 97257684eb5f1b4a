-------------------------- MODULE ClientInterface --------------------------
(***************************************************************************)
(* The life of a client program around its connection: client_interface of *)
(* server/include/net_client.h as client/src/client.cpp uses it. The       *)
(* program's main thread connects, sends and leaves; the thread thrContext *)
(* runs the io_context m_context, that is, the tasks and handlers of the   *)
(* client's end of Connection, and only while it runs does that end move.  *)
(*                                                                         *)
(* Where the main thread is:                                               *)
(*                                                                         *)
(*   starting  about to call Connect                                       *)
(*   loop      in the loop of main                                         *)
(*   sending   Send has seen the socket open and is about to post          *)
(*   leaving   out of the loop, about to enter ~client_interface           *)
(*   stopping  has posted the close or not, about to stop the io_context   *)
(*   joining   waits for thrContext                                        *)
(*   ended     the program has ended                                       *)
(***************************************************************************)
EXTENDS Connection

VARIABLES
  program,      \* where the main thread is
  m_connection, \* the pointer: none, held or released
  thrContext,   \* the thread: none, running or ended
  stopped       \* whether m_context has been stopped

programVars == <<program, m_connection, thrContext, stopped>>
clientVars  == <<vars, programVars>>

ClientInit ==
  /\ Init
  /\ program = "starting"
  /\ m_connection = "none"
  /\ thrContext = "none"
  /\ stopped = FALSE

-----------------------------------------------------------------------------
(* The main thread.                                                        *)

Goto(from, to) == program = from /\ program' = to

\* Connect creates the connection, asks for it and starts the thread. If the
\* host cannot be resolved it returns false, which main does not look at.
Connect ==
  /\ Goto("starting", "loop")
  /\ \/ m_connection' = "held" /\ thrContext' = "running"
     \/ UNCHANGED <<m_connection, thrContext>>
  /\ UNCHANGED <<vars, stopped>>

IsConnected == m_connection = "held" /\ isOpen[Client]

BeginSend ==
  /\ Goto("loop", "sending")
  /\ IsConnected
  /\ Len(sent[Client]) < MaxSends[Client]
  /\ UNCHANGED <<vars, m_connection, thrContext, stopped>>

\* The socket may have been closed since Send looked at it.
\* Bound: no message is sent twice.
PostSend ==
  /\ Goto("sending", "loop")
  /\ \E m \in Message : Send(Client, m) /\ \A i \in DOMAIN sent[Client] : sent[Client][i] # m
  /\ UNCHANGED <<m_connection, thrContext, stopped>>

\* The user quits, at any time.
Quit == Goto("loop", "leaving") /\ UNCHANGED <<vars, m_connection, thrContext, stopped>>

\* Mutant: the loop goes on when the socket is closed.
FindServerDownNever == FALSE /\ UNCHANGED clientVars

\* "Server is down": the loop finds the socket closed, or no connection.
FindServerDown ==
  /\ Goto("loop", "leaving")
  /\ ~IsConnected
  /\ UNCHANGED <<vars, m_connection, thrContext, stopped>>

\* ~client_interface, which is Disconnect: a close is posted if the socket is
\* open ...
PostClose ==
  /\ Goto("leaving", "stopping")
  /\ \/ IsConnected /\ Disconnect(Client)
     \/ ~IsConnected /\ UNCHANGED vars
  /\ UNCHANGED <<m_connection, thrContext, stopped>>

\* ... and m_context.stop() follows at once, whatever is still to be run ...
StopContext ==
  /\ Goto("stopping", "joining")
  /\ stopped' = TRUE
  /\ UNCHANGED <<vars, m_connection, thrContext>>

\* Mutant: the thread is joined whether or not it was started.
JoinUnasked ==
  /\ Goto("joining", "ended")
  /\ thrContext = "ended"
  /\ m_connection' = "released"
  /\ ProgramEnds
  /\ UNCHANGED <<thrContext, stopped>>

\* Mutant: the thread is left to itself.
DetachThread ==
  /\ Goto("joining", "ended")
  /\ m_connection' = "released"
  /\ ProgramEnds
  /\ UNCHANGED <<thrContext, stopped>>

\* ... then the thread, if it was started, is joined, m_connection.release()
\* lets go of the connection object without destroying it or its socket, and
\* main returns: the operating system closes the socket.
JoinThread ==
  /\ Goto("joining", "ended")
  /\ thrContext \in {"none", "ended"}
  /\ m_connection' = IF m_connection = "held" THEN "released" ELSE m_connection
  /\ ProgramEnds
  /\ UNCHANGED <<thrContext, stopped>>

MainStep == Connect \/ PostSend \/ FindServerDown \/ PostClose \/ StopContext
              \/ JoinThread

-----------------------------------------------------------------------------
(* The thread thrContext: m_context.run().                                 *)

RunHandler ==
  /\ thrContext = "running"
  /\ ~stopped
  /\ ConnectToServer \/ Tasks(Client) \/ Writes(Client) \/ Reads(Client)
  /\ UNCHANGED programVars

OutOfWork ==
  /\ posted[Client] = <<>>
  /\ reading[Client] = "stopped"
  /\ writing[Client] = "none"

\* run() returns when the context was stopped, or has nothing left to wait
\* for, which stops it too: what is posted from then on is never run.
RunReturns ==
  /\ thrContext = "running"
  /\ stopped \/ OutOfWork
  /\ thrContext' = "ended"
  /\ stopped' = TRUE
  /\ UNCHANGED <<vars, program, m_connection>>

-----------------------------------------------------------------------------
(* The network and the server.                                             *)

Network ==
  /\ \/ m_connection # "none" /\ (Established \/ Refused)
     \/ LinkFails
  /\ UNCHANGED programVars

ServerStep ==
  /\ ConnectToClient \/ Tasks(Server) \/ Writes(Server) \/ Reads(Server)
  /\ UNCHANGED programVars

ServerCalls ==
  /\ Disconnect(Server) \/ \E m \in Message : Send(Server, m)
  /\ UNCHANGED programVars

ClientNext ==
  \/ BeginSend \/ Quit \/ MainStep
  \/ RunHandler \/ RunReturns
  \/ Network \/ ServerStep \/ ServerCalls

ClientSpec == ClientInit /\ [][ClientNext]_clientVars

(* Every thread keeps running what it has to run, and the operating system *)
(* ends an attempt to connect one way or the other. Transmit and Receive   *)
(* count as steps of the thread that waits for them. The user owes         *)
(* nothing, nor does the network owe a failure.                            *)
Fairness ==
  /\ WF_clientVars(MainStep)
  /\ WF_clientVars(RunHandler \/ RunReturns)
  /\ WF_clientVars(ServerStep)
  /\ WF_clientVars(Network /\ link = "connecting")

FairSpec == ClientSpec /\ Fairness

-----------------------------------------------------------------------------
ClientTypeOK ==
  /\ ConnectionTypeOK
  /\ program \in {"starting", "loop", "sending", "leaving", "stopping", "joining",
                  "ended"}
  /\ m_connection \in {"none", "held", "released"}
  /\ thrContext \in {"none", "running", "ended"}
  /\ stopped \in BOOLEAN

\* While the io_context thread may run a handler, the connection and the
\* io_context it works on exist: the destructor is not past the join, and the
\* pointer to the connection has been set and not been let go.
HandlersHaveObjects ==
  thrContext = "running" => m_connection = "held" /\ program # "ended"

\* A program that leaves its loop ends, whatever is still posted, being
\* written or read, and whether or not it ever had a connection: the join in
\* Disconnect never waits for ever.
LeaveReturns == program = "leaving" ~> program = "ended"

\* A program whose server closes the connection ends ("Server is down"), also
\* when the close meets it while it sends or while its own close is posted.
ServerDownEndsProgram == (link = "up" /\ ~isOpen[Server]) ~> program = "ended"
=============================================================================
