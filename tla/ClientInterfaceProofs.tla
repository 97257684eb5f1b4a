----------------------- MODULE ClientInterfaceProofs -----------------------
(***************************************************************************)
(* What a client program does with its connection is something Connection  *)
(* allows, so that everything proved of Connection holds in every client   *)
(* program; and the destructor never lets go of what a handler may use.    *)
(***************************************************************************)
EXTENDS ClientInterface, ChannelProofs

LEMMA ClientConstants == Client \in Ends /\ Server \in Ends
BY DEF Ends

LEMMA MainStepMaps == MainStep \/ BeginSend \/ Quit => [Next]_vars
<1>1. Connect \/ BeginSend \/ Quit \/ FindServerDown \/ StopContext => UNCHANGED vars
  BY DEF Connect, BeginSend, Quit, FindServerDown, StopContext
<1>2. PostSend => Next
  BY ClientConstants DEF PostSend, Next
<1>3. PostClose => Next \/ UNCHANGED vars
  BY ClientConstants DEF PostClose, Next
<1>4. JoinThread => Next
  BY DEF JoinThread, Next
<1>. QED BY <1>1, <1>2, <1>3, <1>4 DEF MainStep

LEMMA ClientNextMaps == [ClientNext]_clientVars => [Next]_vars
<1>1. RunHandler => Next
  BY ClientConstants DEF RunHandler, Next, Handshake
<1>2. RunReturns => UNCHANGED vars
  BY DEF RunReturns
<1>3. Network => Next
  BY DEF Network, Next
<1>4. ServerStep => Next
  BY ClientConstants DEF ServerStep, Next, Handshake
<1>5. ServerCalls => Next
  BY ClientConstants DEF ServerCalls, Next
<1>6. UNCHANGED clientVars => UNCHANGED vars
  BY DEF clientVars
<1>. QED BY <1>1, <1>2, <1>3, <1>4, <1>5, <1>6, MainStepMaps DEF ClientNext

\* The client program, from Connect to the end of the process, keeps to
\* Connection: whatever the two threads of net_client.h do is allowed there.
THEOREM ClientImplementsConnection == ClientSpec => Spec
<1>1. ClientInit => Init
  BY DEF ClientInit
<1>. QED BY <1>1, ClientNextMaps, PTL DEF ClientSpec, Spec

-----------------------------------------------------------------------------
ProgramTypeOK ==
  /\ program \in {"starting", "loop", "sending", "leaving", "stopping", "joining",
                  "ended"}
  /\ m_connection \in {"none", "held", "released"}
  /\ thrContext \in {"none", "running", "ended"}
  /\ stopped \in BOOLEAN

ProgramInv == ProgramTypeOK /\ HandlersHaveObjects

LEMMA ProgramInvStep == ProgramInv /\ [ClientNext]_clientVars => ProgramInv'
<1> SUFFICES ASSUME ProgramInv, [ClientNext]_clientVars PROVE ProgramInv'
  OBVIOUS
<1> USE DEF ProgramInv, ProgramTypeOK, HandlersHaveObjects, Goto, programVars
<1>1. CASE Connect
  BY <1>1 DEF Connect
<1>2. CASE BeginSend \/ PostSend \/ Quit \/ FindServerDown
  BY <1>2 DEF BeginSend, PostSend, Quit, FindServerDown
<1>3. CASE PostClose \/ StopContext
  BY <1>3 DEF PostClose, StopContext
<1>4. CASE JoinThread
  BY <1>4 DEF JoinThread
<1>5. CASE RunReturns
  BY <1>5 DEF RunReturns
<1>6. CASE RunHandler \/ Network \/ ServerStep \/ ServerCalls
  BY <1>6 DEF RunHandler, Network, ServerStep, ServerCalls
<1>7. CASE UNCHANGED clientVars
  BY <1>7 DEF clientVars
<1>. QED BY <1>1, <1>2, <1>3, <1>4, <1>5, <1>6, <1>7 DEF ClientNext, MainStep

LEMMA ProgramInvariant == ClientSpec => []ProgramInv
<1>1. ClientInit => ProgramInv
  BY DEF ClientInit, ProgramInv, ProgramTypeOK, HandlersHaveObjects
<1>. QED BY <1>1, ProgramInvStep, PTL DEF ClientSpec

\* The types of the program's state and of both ends of its connection.
THEOREM ClientTypeCorrect == ClientSpec => []ClientTypeOK
<1>1. ConnectionTypeOK /\ ProgramInv => ClientTypeOK
  BY DEF ClientTypeOK, ProgramInv, ProgramTypeOK
<1>. QED BY <1>1, ClientImplementsConnection, ConnectionTypeCorrect, ProgramInvariant, PTL

\* No handler runs after the destructor has joined the thread, or before the
\* connection it works on exists (net_client.h:24-75).
THEOREM HandlersStayInside == ClientSpec => []HandlersHaveObjects
<1>1. ProgramInv => HandlersHaveObjects
  BY DEF ProgramInv
<1>. QED BY <1>1, ProgramInvariant, PTL

\* Whenever the program of a client connects, sends, disconnects or ends, both
\* directions of its connection are channels: what it is told arrived is what
\* was sent, once and in order (net_client.h:24-75).
THEOREM ProgramUsesChannels ==
  ClientSpec => ToServer!ChannelSafety /\ ToClient!ChannelSafety
BY ClientImplementsConnection, ToServerIsChannel, ToClientIsChannel, PTL
=============================================================================
