---------------------------- MODULE CustomServer ----------------------------
(***************************************************************************)
(* The server of server/src/server.cpp on top of server_interface          *)
(* (server/include/net_server.h). Two threads: the io_context thread       *)
(* accepts connections and notices closed ones, the main thread takes one  *)
(* message at a time from m_qMessagesIn and runs OnMessage on it.          *)
(*                                                                         *)
(* toServer[c] holds what has arrived in m_qMessagesIn as well as what is  *)
(* still on its way: taking from any client's messages gives every order   *)
(* in which they can have arrived.                                         *)
(***************************************************************************)
EXTENDS Accounts

CONSTANTS FirstWord, \* a username up to its first space
          Expiry,    \* after how long a token expires: 300 seconds
          MaxTime    \* bound: how far the clock goes

ASSUME ServerAssumption == /\ FirstWord \in [Usernames -> Usernames]
                           /\ Expiry \in Nat
                           /\ MaxTime \in Nat

VARIABLES
  conn,             \* the server's connection objects
  m_deqConnections, \* the connections accepted, in order
  nIDCounter,       \* the id of the next connection
  tokens,           \* the tokens given out, each with its time
  issued,           \* how many tokens were generated; each is a new number
  unrecorded,       \* history: the tokens given out but not recorded
  now,              \* the system clock
  terminated        \* an exception has left OnMessage and ended the server

acceptVars == <<m_deqConnections, nIDCounter>>
issueVars  == <<issued, unrecorded>>
tokenVars  == <<tokens, issueVars>>
serverVars == <<users, conn, acceptVars, tokenVars, now, terminated>>

NewConnection ==
  [id |-> 0, clientUsername |-> Blank, currentToken |-> NoToken, open |-> FALSE]

ServerInit ==
  /\ users = InitialUsers
  /\ conn = [c \in Clients |-> NewConnection]
  /\ m_deqConnections = <<>>
  /\ nIDCounter = 10000
  /\ tokens = <<>>
  /\ issued = 0
  /\ unrecorded = {}
  /\ now = 0
  /\ terminated = FALSE

\* connection::Send. What is sent to a client that is gone is never read.
Reaches(c) == conn[c].open /\ clientOpen[c]

With(queue, c, m) == IF Reaches(c) THEN [queue EXCEPT ![c] = Append(@, m)] ELSE queue

-----------------------------------------------------------------------------
(* The io_context thread. WaitForClientConnection puts the connection into *)
(* m_deqConnections before ConnectToClient gives it an id and reads.       *)

PushConnection(c) ==
  /\ ~terminated
  /\ \A i \in DOMAIN m_deqConnections :
       m_deqConnections[i] # c /\ conn[m_deqConnections[i]].id # 0
  /\ conn' = [conn EXCEPT ![c].open = TRUE]
  /\ toClient' = IF clientOpen[c]
                 THEN [toClient EXCEPT ![c] = Append(@, [id |-> "ServerAccept"])]
                 ELSE toClient
  /\ m_deqConnections' = Append(m_deqConnections, c)
  /\ UNCHANGED <<users, toServer, clientOpen, nIDCounter, tokenVars, now, terminated>>

IdentifyConnection(c) ==
  /\ ~terminated
  /\ \E i \in DOMAIN m_deqConnections : m_deqConnections[i] = c
  /\ conn[c].id = 0
  /\ conn' = [conn EXCEPT ![c].id = nIDCounter]
  /\ nIDCounter' = nIDCounter + 1
  /\ UNCHANGED <<users, linkVars, m_deqConnections, tokenVars, now, terminated>>

\* Mutant: the failed read is reported and the socket left open.
NoticeClientGoneUnclosed(c) ==
  /\ ~terminated
  /\ conn[c].open /\ conn[c].id # 0
  /\ ~clientOpen[c]
  /\ UNCHANGED <<users, linkVars, conn, acceptVars, tokenVars, now, terminated>>

\* A read of the connection fails since the client has closed its end; the
\* connection stays in m_deqConnections.
NoticeClientGone(c) ==
  /\ ~terminated
  /\ conn[c].open /\ conn[c].id # 0
  /\ ~clientOpen[c]
  /\ conn' = [conn EXCEPT ![c].open = FALSE]
  /\ UNCHANGED <<users, linkVars, acceptVars, tokenVars, now, terminated>>

Tick ==
  /\ now < MaxTime
  /\ now' = now + 1
  /\ UNCHANGED <<users, linkVars, conn, acceptVars, tokenVars, terminated>>

-----------------------------------------------------------------------------
(* The main thread: OnMessage.                                             *)

\* Mutant: a connection is read from as soon as it is accepted.
HandlesUnidentified(c, kind) ==
  /\ ~terminated
  /\ conn[c].open
  /\ toServer[c] # <<>>
  /\ Head(toServer[c]).id = kind
  /\ toServer' = [toServer EXCEPT ![c] = Tail(@)]
  /\ UNCHANGED <<clientOpen, acceptVars, now>>

\* The next message of connection c, if it is of this kind.
Handles(c, kind) ==
  /\ ~terminated
  /\ conn[c].id # 0
  /\ toServer[c] # <<>>
  /\ Head(toServer[c]).id = kind
  /\ toServer' = [toServer EXCEPT ![c] = Tail(@)]
  /\ UNCHANGED <<clientOpen, acceptVars, now>>

Received(c) == Head(toServer[c])

\* Mutant: the ping is not sent back.
OnServerPingSilent(c) ==
  /\ Handles(c, "ServerPing")
  /\ UNCHANGED <<users, toClient, conn, tokenVars, terminated>>

OnServerPing(c) ==
  /\ Handles(c, "ServerPing")
  /\ toClient' = With(toClient, c, Received(c))
  /\ UNCHANGED <<users, conn, tokenVars, terminated>>

\* Disconnect() posts the close of the socket.
OnDisconnectClient(c) ==
  /\ Handles(c, "DisconnectClient")
  /\ conn' = [conn EXCEPT ![c].open = FALSE]
  /\ UNCHANGED <<users, toClient, tokenVars, terminated>>

\* The text of a login or registration is split at its first space: what
\* follows it in the username goes to the password, which is then no hash.
DetailsUsername(m) == FirstWord[m.username]
DetailsPassword(m) ==
  IF FirstWord[m.username] = m.username THEN m.password ELSE NotHashed

OnRegister(c) ==
  /\ Handles(c, "Register")
  /\ \E r \in RegisterUser(DetailsUsername(Received(c)), DetailsPassword(Received(c))) :
       /\ users' = r.users
       /\ toClient' = With(toClient, c, [id |-> "Register", code |-> r.code])
  /\ UNCHANGED <<conn, tokenVars, terminated>>

\* AddToken.
Add(token) == [t \in DOMAIN tokens \cup {token} |-> IF t = token THEN now ELSE tokens[t]]

LoginReply(token, code) == [id |-> "Login", token |-> token, code |-> code]

\* A token is the new number issued'. GenerateToken fills 64 characters and
\* no terminator: the string it makes of them is 64 characters long or more,
\* and only a longer one is taken for a token here and recorded.
OnLogin(c) ==
  /\ Handles(c, "Login")
  /\ \E code \in LoginUser(DetailsUsername(Received(c)), DetailsPassword(Received(c))) :
       \/ /\ code = Success
          /\ issued' = issued + 1
          /\ toClient' = With(toClient, c, LoginReply(issued + 1, Success))
          /\ \/ /\ tokens' = Add(issued + 1)
                /\ UNCHANGED unrecorded
                /\ conn' = [conn EXCEPT ![c].clientUsername = DetailsUsername(Received(c)),
                                        ![c].currentToken = issued + 1]
             \/ /\ unrecorded' = unrecorded \cup {issued + 1}
                /\ UNCHANGED <<tokens, conn>>
       \/ /\ code # Success
          /\ toClient' = With(toClient, c, LoginReply(NoToken, code))
          /\ UNCHANGED <<tokenVars, conn>>
  /\ UNCHANGED <<users, terminated>>

\* ValidateToken asks whether the token's time is later than 300 seconds
\* from now; it moves the time of a valid token to now.
Expired(t) == tokens[t] > now + Expiry

\* Mutant: any string will do for a token.
AnyToken(t) == t \in Nat

ValidToken(t) == t \in DOMAIN tokens /\ ~Expired(t)

\* Mutant: a token is good for one message.
ValidateTokenOnce(t) == tokens' = [u \in DOMAIN tokens \ {t} |-> tokens[u]]

ValidateToken(t) ==
  tokens' = IF ValidToken(t) THEN [tokens EXCEPT ![t] = now]
            ELSE [u \in DOMAIN tokens \ {t} |-> tokens[u]]

Least(S) == CHOOSE i \in S : \A j \in S : i <= j

\* The first connection, in the order of m_deqConnections, whose username is
\* u: a closed one as well, since none is ever taken out.
Named(u) == {i \in DOMAIN m_deqConnections : conn[m_deqConnections[i]].clientUsername = u}
IdOf(u)  == IF Named(u) = {} THEN Failed ELSE conn[m_deqConnections[Least(Named(u))]].id

\* Mutant: a request with an invalid token is not answered.
OnInitiateConversationSilent(c) ==
  /\ Handles(c, "InitiateConversation")
  /\ LET m == Received(c)
     IN  /\ ValidateToken(m.token)
         /\ toClient' = IF ValidToken(m.token)
                        THEN With(toClient, c, [id |-> "InitiateConversation",
                                                to |-> IdOf(m.username)])
                        ELSE toClient
  /\ UNCHANGED <<users, conn, issueVars, terminated>>

OnInitiateConversation(c) ==
  /\ Handles(c, "InitiateConversation")
  /\ LET m == Received(c)
         answer == IF ValidToken(m.token) THEN IdOf(m.username) ELSE Failed
     IN  /\ ValidateToken(m.token)
         /\ toClient' = With(toClient, c, [id |-> "InitiateConversation", to |-> answer])
  /\ UNCHANGED <<users, conn, issueVars, terminated>>

WithId(n) == {i \in DOMAIN m_deqConnections : conn[m_deqConnections[i]].id = n}

\* Mutant: what is sent back goes to the receiver as well, in the same form.
RelayTwice(c, m) ==
  LET forward == [id |-> "ReceiveMessageFromUser", text |-> m.text]
      receiver == m_deqConnections[Least(WithId(m.to))]
  IN  IF WithId(m.to) = {} THEN toClient
      ELSE With(With(toClient, receiver, forward), receiver, forward)

\* To the first connection with that id, and back to the sender in any case.
Relay(c, m) ==
  LET echoed(queue) == With(queue, c, [id |-> "SendMessageToUser", text |-> m.text])
      forward == [id |-> "ReceiveMessageFromUser", text |-> m.text]
  IN  IF WithId(m.to) = {} THEN echoed(toClient)
      ELSE echoed(With(toClient, m_deqConnections[Least(WithId(m.to))], forward))

\* The answer to an invalid token has no id in it: std::stoi throws, nothing
\* catches, and the process ends.
OnSendMessageToUser(c) ==
  /\ Handles(c, "SendMessageToUser")
  /\ LET m == Received(c)
     IN  /\ ValidateToken(m.token)
         /\ \/ ValidToken(m.token) /\ toClient' = Relay(c, m) /\ UNCHANGED terminated
            \/ ~ValidToken(m.token) /\ terminated' = TRUE /\ UNCHANGED toClient
  /\ UNCHANGED <<users, conn, issueVars>>

OnMessage(c) ==
  \/ OnServerPing(c) \/ OnDisconnectClient(c) \/ OnRegister(c) \/ OnLogin(c)
  \/ OnInitiateConversation(c) \/ OnSendMessageToUser(c)

Accept(c) == PushConnection(c) \/ IdentifyConnection(c)

ServerNext ==
  \/ \E c \in Clients : Accept(c) \/ NoticeClientGone(c) \/ OnMessage(c)
  \/ Tick
=============================================================================
