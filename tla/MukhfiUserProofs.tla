-------------------------- MODULE MukhfiUserProofs --------------------------
(***************************************************************************)
(* Who the users are: one account to a username, a username only with an   *)
(* account, a conversation and a line of one only with a token, lines in   *)
(* the order they were typed in. Each invariant is inductive together with *)
(* SystemInv of MukhfiProofs.                                              *)
(***************************************************************************)
EXTENDS MukhfiProofs

-----------------------------------------------------------------------------
(* What a step does to the server's state.                                 *)

LEMMA ServerActions ==
  ASSUME SystemInv, [Next]_vars
  PROVE  \/ UNCHANGED <<users, conn, tokenVars, terminated>>
         \/ \E c \in Clients : \/ Accept(c) \/ NoticeClientGone(c) 
                               \/ OnDisconnectClient(c) \/ OnRegister(c) \/ OnLogin(c)
                               \/ OnInitiateConversation(c) \/ OnSendMessageToUser(c)
BY DEF Next, ServerNext, OnMessage, OnServerPing, Tick, vars, serverVars, LoseServer

\* What becomes of a connection object: once it has its id that stays, and a
\* username with an account is put into it under that id only, with a token.
LEMMA ConnStep ==
  ASSUME SystemInv, [Next]_vars, NEW d \in Clients
  PROVE  /\ conn[d].id # 0 => conn'[d].id = conn[d].id
         /\ \/ /\ conn'[d].clientUsername = conn[d].clientUsername
               /\ conn'[d].currentToken = conn[d].currentToken
            \/ /\ conn[d].id # 0 /\ Registered(conn'[d].clientUsername) /\ UNCHANGED users
               /\ conn'[d].clientUsername # Blank
         /\ conn[d].currentToken # NoToken => conn'[d].currentToken # NoToken
<1>1. conn \in [Clients -> Connections]
  BY TypesInParts DEF SystemInv, TypeParts, ConnTypes
<1>2. CASE UNCHANGED conn
  BY <1>2
<1>3. ASSUME NEW c \in Clients, Accept(c) \/ NoticeClientGone(c) \/ OnDisconnectClient(c)
      PROVE  \/ UNCHANGED conn
             \/ \E b \in BOOLEAN : conn' = [conn EXCEPT ![c].open = b]
             \/ conn[c].id = 0 /\ conn' = [conn EXCEPT ![c].id = nIDCounter]
  BY <1>3 DEF Accept, PushConnection, IdentifyConnection, NoticeClientGone, OnDisconnectClient
<1>4. ASSUME NEW c \in Clients, NEW b \in BOOLEAN, conn' = [conn EXCEPT ![c].open = b]
      PROVE  conn'[d].id = conn[d].id /\ conn'[d].clientUsername = conn[d].clientUsername
             /\ conn'[d].currentToken = conn[d].currentToken
  BY <1>1, <1>4 DEF Connections
<1>5. ASSUME NEW c \in Clients, conn[c].id = 0, conn' = [conn EXCEPT ![c].id = nIDCounter]
      PROVE  /\ conn[d].id # 0 => conn'[d].id = conn[d].id
             /\ conn'[d].clientUsername = conn[d].clientUsername
             /\ conn'[d].currentToken = conn[d].currentToken
  BY <1>1, <1>5 DEF Connections
<1>6. ASSUME NEW c \in Clients, OnLogin(c), ~UNCHANGED conn
      PROVE  /\ conn'[d].id = conn[d].id
             /\ \/ /\ conn'[d].clientUsername = conn[d].clientUsername
                   /\ conn'[d].currentToken = conn[d].currentToken
                \/ /\ conn[d].id # 0 /\ Registered(conn'[d].clientUsername) /\ UNCHANGED users
                   /\ conn'[d].clientUsername # Blank
             /\ conn[d].currentToken # NoToken => conn'[d].currentToken # NoToken
  <2> DEFINE u == DetailsUsername(Received(c))
  <2>1. Handles(c, "Login") /\ UNCHANGED users /\ u \in Usernames
    BY <1>6, LoginEffect DEF SystemInv
  <2>2. /\ conn' = [conn EXCEPT ![c].clientUsername = u, ![c].currentToken = issued + 1]
        /\ u # Blank /\ \E p : Matches(u, p)
    BY <1>6, LoginEffect DEF SystemInv
  <2>3. conn[c].id # 0 /\ issued \in Nat
    BY <2>1 DEF Handles, SystemInv, SystemTypeOK
  <2>4. users \in Seq(Documents)
    BY DEF SystemInv, SystemTypeOK
  <2>5. Registered(u)
    BY <2>2, <2>4 DEF Matches, Registered, Document
  <2>6. PICK v \in Usernames : v = u
    BY <2>1
  <2>7. issued + 1 \in Nat /\ issued + 1 # NoToken
    BY <2>3, ProtocolAssumption
  <2> HIDE DEF u
  <2>8. conn' = [conn EXCEPT ![c].clientUsername = v, ![c].currentToken = issued + 1]
    BY <2>2, <2>6
  <2>9. CASE d = c
    <3>1. /\ conn'[c].id = conn[c].id /\ conn'[c].clientUsername = v
          /\ conn'[c].currentToken = issued + 1
      BY <1>1, <2>7, <2>8 DEF Connections
    <3>. QED BY <2>1, <2>2, <2>3, <2>5, <2>6, <2>7, <2>9, <3>1
  <2>10. CASE d # c
    BY <1>1, <2>8, <2>10 DEF Connections
  <2>. QED BY <2>9, <2>10
<1>7. ASSUME NEW c \in Clients, OnRegister(c) \/ OnInitiateConversation(c) \/ OnSendMessageToUser(c)
      PROVE  UNCHANGED conn
  BY <1>7 DEF OnRegister, OnInitiateConversation, OnSendMessageToUser
<1>. QED BY <1>2, <1>3, <1>4, <1>5, <1>6, <1>7, ServerActions

\* An account is added only for a username without one.
LEMMA UsersStep ==
  ASSUME SystemInv, [Next]_vars
  PROVE  \/ UNCHANGED users
         \/ \E u \in Usernames, p \in Passwords :
              ~Registered(u) /\ users' = Append(users, Document(u, p))
<1>1. ASSUME NEW c \in Clients, OnRegister(c), ~UNCHANGED users
      PROVE  \E u \in Usernames, p \in Passwords :
               ~Registered(u) /\ users' = Append(users, Document(u, p))
  <2>1. DetailsUsername(Received(c)) \in Usernames
    BY <1>1, HandlesEffect, DetailsType, TypesInParts DEF SystemInv, TypeParts, OnRegister
  <2>2. users \in Seq(Documents)
    BY DEF SystemInv, SystemTypeOK
  <2>3. PICK r \in RegisterUser(DetailsUsername(Received(c)), DetailsPassword(Received(c))) :
          users' = r.users
    BY <1>1 DEF OnRegister
  <2>. QED BY <1>1, <2>1, <2>2, <2>3, RegisterResults DEF Document, Documents
<1>2. ASSUME NEW c \in Clients, OnLogin(c)
      PROVE  UNCHANGED users
  BY <1>2, LoginEffect DEF SystemInv
<1>3. ASSUME NEW c \in Clients, \/ Accept(c) \/ NoticeClientGone(c) \/ OnDisconnectClient(c)
                                \/ OnInitiateConversation(c) \/ OnSendMessageToUser(c)
      PROVE  UNCHANGED users
  BY <1>3 DEF Accept, PushConnection, IdentifyConnection, NoticeClientGone, OnDisconnectClient,
              OnInitiateConversation, OnSendMessageToUser
<1>. QED BY <1>1, <1>2, <1>3, ServerActions

\* Who has an account keeps it.
LEMMA StaysRegistered ==
  ASSUME SystemInv, [Next]_vars, NEW u, Registered(u)
  PROVE  Registered(u)'
<1>1. users \in Seq(Documents)
  BY DEF SystemInv, SystemTypeOK
<1>2. CASE UNCHANGED users
  BY <1>2 DEF Registered
<1>3. ASSUME NEW v, NEW p, users' = Append(users, Document(v, p))
      PROVE  Registered(u)'
  BY <1>1, <1>3, AppendProperties DEF Registered
<1>. QED BY <1>2, <1>3, UsersStep

-----------------------------------------------------------------------------
(* Usernames and accounts.                                                 *)

\* A connection found by its username has an id to answer with.
THEOREM NamedHaveIdsAlways == Spec => []NamedHaveIds
<1>1. Init => NamedHaveIds
  BY DEF Init, ServerInit, NewConnection, NamedHaveIds
<1>2. NamedHaveIds /\ SystemInv /\ [Next]_vars => NamedHaveIds'
  <2> SUFFICES ASSUME NamedHaveIds, SystemInv, [Next]_vars, NEW c \in Clients,
                      conn'[c].clientUsername # Blank
               PROVE  conn'[c].id # 0
    BY DEF NamedHaveIds
  <2>1. conn[c].id # 0
    BY ConnStep DEF NamedHaveIds
  <2>. QED BY <2>1, ConnStep
<1>. QED BY <1>1, <1>2, SystemInvariant, PTL DEF Spec

\* A connection is found by no other username than one with an account.
THEOREM SpeakForAccountAlways == Spec => []SpeakForAccount
<1>1. Init => SpeakForAccount
  BY DEF Init, ServerInit, NewConnection, SpeakForAccount
<1>2. SpeakForAccount /\ SystemInv /\ [Next]_vars => SpeakForAccount'
  <2> SUFFICES ASSUME SpeakForAccount, SystemInv, [Next]_vars, NEW c \in Clients,
                      conn'[c].clientUsername # Blank
               PROVE  Registered(conn[c].clientUsername)'
    BY DEF SpeakForAccount
  <2>1. CASE conn'[c].clientUsername = conn[c].clientUsername
    <3>1. Registered(conn'[c].clientUsername)
      BY <2>1 DEF SpeakForAccount
    <3>. QED BY <3>1, StaysRegistered DEF Registered
  <2>2. CASE Registered(conn'[c].clientUsername) /\ UNCHANGED users
    BY <2>2 DEF Registered
  <2>. QED BY <2>1, <2>2, ConnStep
<1>. QED BY <1>1, <1>2, SystemInvariant, PTL DEF Spec

\* If the database holds one account to a username when the server starts,
\* it always does.
THEOREM OneAccountAlways ==
  ASSUME \A i, j \in DOMAIN InitialUsers :
           InitialUsers[i].username = InitialUsers[j].username => i = j
  PROVE  Spec => []OneAccount
<1>1. Init => OneAccount
  BY DEF Init, ServerInit, OneAccount
<1>2. OneAccount /\ SystemInv /\ [Next]_vars => OneAccount'
  <2> SUFFICES ASSUME OneAccount, SystemInv, [Next]_vars PROVE OneAccount'
    OBVIOUS
  <2>1. users \in Seq(Documents)
    BY DEF SystemInv, SystemTypeOK
  <2>2. CASE UNCHANGED users
    BY <2>2 DEF OneAccount
  <2>3. ASSUME NEW u, NEW p, ~Registered(u), users' = Append(users, Document(u, p))
        PROVE  OneAccount'
    <3>1. /\ Len(users') = Len(users) + 1 /\ Len(users) \in Nat
          /\ DOMAIN users = 1..Len(users) /\ DOMAIN users' = 1..Len(users')
          /\ \A i \in DOMAIN users : users'[i] = users[i] /\ users[i].username # u
          /\ users'[Len(users) + 1].username = u
      BY <2>1, <2>3, AppendProperties DEF Registered, Document
    <3>. QED BY <3>1 DEF OneAccount
  <2>. QED BY <2>2, <2>3, UsersStep
<1>. QED BY <1>1, <1>2, SystemInvariant, PTL DEF Spec

-----------------------------------------------------------------------------
(* Tokens.                                                                 *)

\* A token given out is recorded or, with 64 characters, is not.
TokensKnown ==
  /\ DOMAIN tokens \cup unrecorded = Tokens
  /\ terminated => unrecorded # {}

\* No token is taken back.
LEMMA TokensGrow ==
  ASSUME SystemInv, [Next]_vars
  PROVE  issued \in Nat /\ issued' \in Nat /\ issued <= issued'
<1>1. issued \in Nat
  BY DEF SystemInv, SystemTypeOK
<1>2. ASSUME NEW c \in Clients, OnLogin(c)
      PROVE  issued' = issued \/ issued' = issued + 1
  BY <1>2 DEF OnLogin, tokenVars, issueVars
<1>3. ASSUME NEW c \in Clients, \/ Accept(c) \/ NoticeClientGone(c) \/ OnDisconnectClient(c)
                                \/ OnRegister(c) \/ OnInitiateConversation(c)
                                \/ OnSendMessageToUser(c)
      PROVE  issued' = issued
  BY <1>3 DEF Accept, PushConnection, IdentifyConnection, NoticeClientGone, OnDisconnectClient,
              OnRegister, OnInitiateConversation, OnSendMessageToUser, tokenVars, issueVars
<1>4. ASSUME UNCHANGED <<users, conn, tokenVars, terminated>> PROVE issued' = issued
  BY <1>4 DEF tokenVars, issueVars
<1>5. issued' = issued \/ issued' = issued + 1
  BY <1>2, <1>3, <1>4, ServerActions
<1>. QED BY <1>1, <1>5

\* A token is recorded when it is given out or never.
LEMMA TokenStep ==
  ASSUME SystemInv, TokensKnown, [Next]_vars
  PROVE  /\ issued \in Nat /\ issued' \in {issued, issued + 1}
         /\ DOMAIN tokens' \subseteq DOMAIN tokens \cup {issued'}
         /\ issued' = issued => DOMAIN tokens' = DOMAIN tokens
         /\ DOMAIN tokens \subseteq DOMAIN tokens'
         /\ TokensKnown'
<1>0. issued \in Nat /\ now \in Nat
  BY DEF SystemInv, SystemTypeOK
<1>1. ASSUME NEW c \in Clients, NEW t \in Tokens, ValidateToken(t)
      PROVE  /\ DOMAIN tokens' = IF ValidToken(t) THEN DOMAIN tokens ELSE DOMAIN tokens \ {t}
             /\ ValidToken(t) <=> t \in DOMAIN tokens
  BY <1>1, ValidateTokenEffect DEF SystemInv
<1>2. ASSUME NEW c \in Clients, NEW kind \in {"InitiateConversation", "SendMessageToUser"},
             Handles(c, kind)
      PROVE  Received(c).token \in Tokens
  BY <1>2, HandlesEffect, ServerMessageFields, TypesInParts DEF SystemInv, TypeParts
<1>3. CASE UNCHANGED <<tokenVars, terminated>>
  BY <1>0, <1>3 DEF TokensKnown, tokenVars, issueVars, Tokens
<1>4. ASSUME NEW c \in Clients, OnInitiateConversation(c)
      PROVE  DOMAIN tokens' = DOMAIN tokens /\ UNCHANGED <<issueVars, terminated>>
  <2>1. /\ Received(c).token \in Tokens /\ ValidateToken(Received(c).token)
        /\ UNCHANGED <<issueVars, terminated>>
    BY <1>2, <1>4 DEF OnInitiateConversation
  <2>. QED BY <1>1, <2>1
<1>5. ASSUME NEW c \in Clients, OnSendMessageToUser(c)
      PROVE  DOMAIN tokens' = DOMAIN tokens /\ UNCHANGED issueVars /\ TokensKnown'
  <2>1. /\ Received(c).token \in Tokens /\ ValidateToken(Received(c).token)
        /\ UNCHANGED issueVars
        /\ \/ UNCHANGED terminated
           \/ ~ValidToken(Received(c).token)
    BY <1>2, <1>5 DEF OnSendMessageToUser
  <2>2. DOMAIN tokens' = DOMAIN tokens
    BY <1>1, <2>1
  <2>3. terminated' => unrecorded # {}
    BY <1>1, <2>1 DEF TokensKnown
  <2>. QED BY <2>1, <2>2, <2>3 DEF TokensKnown, issueVars, Tokens
<1>6. ASSUME NEW c \in Clients, OnLogin(c)
      PROVE  \/ UNCHANGED <<tokenVars, terminated>>
             \/ /\ issued' = issued + 1 /\ UNCHANGED terminated
                /\ \/ DOMAIN tokens' = DOMAIN tokens \cup {issued + 1} /\ UNCHANGED unrecorded
                   \/ unrecorded' = unrecorded \cup {issued + 1} /\ UNCHANGED tokens
  BY <1>6, LoginEffect DEF SystemInv, Add
<1>7. CASE /\ issued' = issued + 1 /\ UNCHANGED terminated
           /\ \/ DOMAIN tokens' = DOMAIN tokens \cup {issued + 1} /\ UNCHANGED unrecorded
              \/ unrecorded' = unrecorded \cup {issued + 1} /\ UNCHANGED tokens
  <2>1. Tokens' = Tokens \cup {issued + 1}
    BY <1>0, <1>7 DEF Tokens
  <2>2. TokensKnown'
    BY <1>7, <2>1 DEF TokensKnown
  <2>. QED BY <1>0, <1>7, <2>2
<1>8. ASSUME NEW c \in Clients, Accept(c) \/ NoticeClientGone(c) \/ OnDisconnectClient(c)
                                \/ OnRegister(c)
      PROVE  UNCHANGED <<tokenVars, terminated>>
  BY <1>8 DEF Accept, PushConnection, IdentifyConnection, NoticeClientGone, OnDisconnectClient,
              OnRegister
<1>9. CASE \E c \in Clients : OnInitiateConversation(c)
  BY <1>0, <1>4, <1>9 DEF issueVars, TokensKnown, Tokens
<1>10. CASE \E c \in Clients : OnSendMessageToUser(c)
  BY <1>0, <1>5, <1>10 DEF issueVars
<1>. QED BY <1>3, <1>6, <1>7, <1>8, <1>9, <1>10, ServerActions

LEMMA TokensKnownInvariant == Spec => []TokensKnown
<1>1. Init => TokensKnown
  <2> SUFFICES ASSUME Init PROVE TokensKnown
    OBVIOUS
  <2>1. tokens = <<>> /\ issued = 0 /\ unrecorded = {} /\ terminated = FALSE
    BY DEF Init, ServerInit
  <2>2. DOMAIN tokens = {} /\ Tokens = {}
    BY <2>1 DEF Tokens
  <2>. QED BY <2>1, <2>2 DEF TokensKnown
<1>2. TokensKnown /\ SystemInv /\ [Next]_vars => TokensKnown'
  BY TokenStep
<1>. QED BY <1>1, <1>2, SystemInvariant, PTL DEF Spec

\* The server is ended by a message only after a token of 64 characters was
\* given out: every other token a client sends back is recorded, and the
\* comparison of ValidateToken never finds one expired.
THEOREM SurvivesClientsAlways == Spec => []SurvivesClients
<1>1. TokensKnown => SurvivesClients
  BY DEF TokensKnown, SurvivesClients
<1>. QED BY <1>1, TokensKnownInvariant, PTL

-----------------------------------------------------------------------------
(* What is in a queue.                                                     *)

In(queue) == {queue[i] : i \in DOMAIN queue}

LEMMA InQueue ==
  ASSUME NEW M, NEW queue \in Seq(M)
  PROVE  /\ \A m \in M : In(Append(queue, m)) = In(queue) \cup {m}
         /\ queue # <<>> => In(Tail(queue)) \subseteq In(queue) /\ Head(queue) \in In(queue)
         /\ \A k \in 0 .. Len(queue) : In(SubSeq(queue, 1, k)) \subseteq In(queue)
         /\ In(<<>>) = {}
         /\ In(queue) \subseteq M
<1>1. ASSUME NEW m \in M PROVE In(Append(queue, m)) = In(queue) \cup {m}
  <2>1. /\ DOMAIN Append(queue, m) = DOMAIN queue \cup {Len(queue) + 1}
        /\ \A i \in DOMAIN queue : Append(queue, m)[i] = queue[i]
        /\ Append(queue, m)[Len(queue) + 1] = m
    BY AppendProperties
  <2>. QED BY <2>1 DEF In
<1>2. ASSUME queue # <<>> PROVE In(Tail(queue)) \subseteq In(queue) /\ Head(queue) \in In(queue)
  <2>1. /\ DOMAIN queue = 1 .. Len(queue) /\ Len(queue) \in Nat /\ Len(queue) # 0
        /\ DOMAIN Tail(queue) = 1 .. Len(queue) - 1
        /\ \A i \in 1 .. Len(queue) - 1 : Tail(queue)[i] = queue[i + 1]
        /\ Head(queue) = queue[1]
    BY <1>2, HeadTailProperties, EmptySeq
  <2>2. 1 \in DOMAIN queue /\ \A i \in DOMAIN Tail(queue) : i + 1 \in DOMAIN queue
    BY <2>1
  <2>. QED BY <2>1, <2>2 DEF In
<1>3. ASSUME NEW k \in 0 .. Len(queue) PROVE In(SubSeq(queue, 1, k)) \subseteq In(queue)
  <2>1. /\ DOMAIN SubSeq(queue, 1, k) \subseteq DOMAIN queue
        /\ \A i \in DOMAIN SubSeq(queue, 1, k) : SubSeq(queue, 1, k)[i] = queue[i]
    OBVIOUS
  <2>. QED BY <2>1 DEF In
<1>4. In(<<>>) = {}
  BY DEF In
<1>5. In(queue) \subseteq M
  BY DEF In
<1>. QED BY <1>1, <1>2, <1>3, <1>4, <1>5

LEMMA InTwice ==
  ASSUME NEW M, NEW queue \in Seq(M), NEW m \in M, NEW n \in M
  PROVE  In(Append(Append(queue, m), n)) = In(queue) \cup {m, n}
<1>1. PICK longer \in Seq(M) : longer = Append(queue, m)
  BY AppendProperties
<1>2. In(longer) = In(queue) \cup {m}
  BY <1>1, InQueue
<1>3. In(Append(longer, n)) = In(longer) \cup {n}
  BY InQueue
<1>. QED BY <1>1, <1>2, <1>3

\* Of a message to the server: how the client came to send it.
SentBy(d, m) ==
  /\ m.id = "InitiateConversation" => ui[d].prompt = "talkto" /\ m.token = ui[d].currentToken
  /\ m.id = "SendMessageToUser" =>
       /\ m.token = ui[d].currentToken /\ ui[d].conversationMode
       /\ m.text = Text(d, typed'[d]["line"]) /\ Type(d, "line")

\* A client sends at most one message in a step, and the server takes the
\* first of a client's or none.
LEMMA ToServerStep ==
  ASSUME SystemInv, [Next]_vars, NEW d \in Clients
  PROVE  \/ toServer'[d] = toServer[d]
         \/ \E kind : Handles(d, kind) /\ toServer'[d] = Tail(toServer[d]) /\ toServer[d] # <<>>
         \/ \E k \in 0 .. Len(toServer[d]) : toServer'[d] = SubSeq(toServer[d], 1, k)
         \/ \E m \in ServerMessages : /\ SentBy(d, m) /\ UNCHANGED <<toClient, serverVars, screen>>
                                      /\ toServer'[d] = Append(toServer[d], m)
<1>1. SystemTypeOK /\ AskedOK /\ LinkTypes
  BY TypesInParts DEF SystemInv, TypeParts
<1> DEFINE Sends(m) == /\ SentBy(d, m) /\ UNCHANGED <<toClient, serverVars, screen>>
                       /\ toServer'[d] = Append(toServer[d], m)
<1>2. ASSUME NEW c \in Clients, OnMessage(c)
      PROVE  \/ toServer'[d] = toServer[d]
             \/ \E kind : Handles(d, kind) /\ toServer'[d] = Tail(toServer[d]) /\ toServer[d] # <<>>
  <2>1. PICK kind : Handles(c, kind)
    BY <1>2 DEF OnMessage, OnServerPing, OnDisconnectClient, OnRegister, OnLogin,
                OnInitiateConversation, OnSendMessageToUser
  <2>2. /\ c # d => toServer'[d] = toServer[d]
        /\ toServer'[c] = Tail(toServer[c]) /\ toServer[c] # <<>>
    BY <1>1, <2>1, HandlesEffect
  <2>. QED BY <2>1, <2>2
<1>3. ASSUME NEW c \in Clients, Keyboard(c), UNCHANGED serverVars
      PROVE  toServer'[d] = toServer[d] \/ \E m \in ServerMessages : Sends(m)
  <2>1. UNCHANGED <<toClient, screen>>
    BY <1>3 DEF Keyboard, PingServer, Ask, Command, Answer, SendMessageToUser, PressQ, Type
  <2>2. \/ UNCHANGED toServer
        \/ \E m \in ServerMessages : SendToServer(c, m) /\ SentBy(c, m)
    <3>1. CASE PingServer(c)
      <4>1. [id |-> "ServerPing"] \in ServerMessages
        BY <1>1, RequestMessages
      <4>. QED BY <3>1, <4>1 DEF PingServer, SentBy
    <3>2. CASE \E input \in Prompts : Ask(c, input)
      BY <3>2 DEF Ask
    <3>3. CASE Answer(c)
      BY <1>1, <3>3, AnswerEffect DEF SentBy
    <3>4. CASE SendMessageToUser(c)
      BY <1>1, <3>4, LineEffect DEF SentBy
    <3>5. CASE PressQ(c)
      <4>1. [id |-> "DisconnectClient"] \in ServerMessages
        BY <1>1, RequestMessages
      <4>. QED BY <1>1, <3>5, <4>1, PressQEffect DEF SentBy
    <3>. QED BY <1>3, <3>1, <3>2, <3>3, <3>4, <3>5 DEF Keyboard
  <2>3. ASSUME NEW m \in ServerMessages, SendToServer(c, m), SentBy(c, m)
        PROVE  toServer'[d] = toServer[d] \/ Sends(m)
    BY <1>1, <1>3, <2>1, <2>3, SendToServerEffect
  <2>. QED BY <2>2, <2>3
<1>4. ASSUME NEW c \in Clients, Exit(c)
      PROVE  \/ toServer'[d] = toServer[d]
             \/ \E k \in 0 .. Len(toServer[d]) : toServer'[d] = SubSeq(toServer[d], 1, k)
  BY <1>1, <1>4, ExitEffect
<1>5. ASSUME NEW c \in Clients, Accept(c) \/ NoticeClientGone(c) \/ HandleMessage(c) 
                                \/ FindServerDown(c) \/ LoseServer(c)
      PROVE  UNCHANGED toServer
  BY <1>5 DEF Accept, PushConnection, IdentifyConnection, NoticeClientGone, HandleMessage,
              FindServerDown, LoseServer, linkVars
<1>6. CASE Tick \/ UNCHANGED vars
  BY <1>6 DEF Tick, vars, linkVars
<1>. QED BY <1>2, <1>3, <1>4, <1>5, <1>6 DEF Next, ServerNext, ClientLoop

\* Of a message to a client: what the server sent it for.
SentTo(d, m) ==
  /\ m.id = "Login" =>
       \/ m.token = NoToken
       \/ /\ m.token = issued + 1 /\ issued' = issued + 1
          /\ conn'[d].currentToken # NoToken \/ UNCHANGED tokens
  /\ m.id = "InitiateConversation" =>
       /\ Handles(d, "InitiateConversation")
       /\ m.to # Failed => ValidToken(Received(d).token)
  /\ m.id \in {"SendMessageToUser", "ReceiveMessageFromUser"} =>
       \E e \in Clients : /\ Handles(e, "SendMessageToUser") /\ ValidToken(Received(e).token)
                          /\ m.text = Received(e).text
                          /\ m.id = "SendMessageToUser" => e = d

\* The server sends one message to a client in a step, or the line of its own
\* that it talks to itself with twice.
LEMMA ToClientStep ==
  ASSUME SystemInv, [Next]_vars, NEW d \in Clients
  PROVE  \/ toClient'[d] \in {toClient[d], <<>>} /\ UNCHANGED screen
         \/ HandleMessage(d) 
         \/ /\ UNCHANGED screen
            /\ \E m \in ClientMessages' : SentTo(d, m) /\ toClient'[d] = Append(toClient[d], m)
         \/ /\ UNCHANGED screen
            /\ \E m, n \in ClientMessages' :
                 /\ SentTo(d, m) /\ SentTo(d, n) /\ n.id = "SendMessageToUser"
                 /\ toClient'[d] = Append(Append(toClient[d], m), n)
         \/ \E c \in Clients : HandleMessage(c) /\ c # d /\ toClient'[d] = toClient[d]
<1>1. SystemTypeOK /\ AskedOK /\ LinkTypes /\ TurnsOK
  BY TypesInParts, AnswersTurns DEF SystemInv, TypeParts
<1>2. issued \in Nat /\ toClient \in [Clients -> Seq(ClientMessages)]
  BY <1>1 DEF SystemTypeOK
<1> DEFINE Same == toClient'[d] \in {toClient[d], <<>>}
           One == \E m \in ClientMessages' : SentTo(d, m) /\ toClient'[d] = Append(toClient[d], m)
           Two == \E m, n \in ClientMessages' :
                 /\ SentTo(d, m) /\ SentTo(d, n) /\ n.id = "SendMessageToUser"
                 /\ toClient'[d] = Append(Append(toClient[d], m), n)
<1>3. ASSUME NEW c \in Clients, NEW m \in ClientMessages', toClient' = With(toClient, c, m),
             SentTo(c, m)
      PROVE  Same \/ One
  BY <1>2, <1>3 DEF With
<1>4. ASSUME NEW c \in Clients, Accept(c) \/ NoticeClientGone(c)
      PROVE  Same \/ One
  <2>1. [id |-> "ServerAccept"] \in ClientMessages'
    BY AcceptMessage DEF ClientMessages
  <2>2. CASE PushConnection(c)
    BY <1>2, <2>1, <2>2 DEF PushConnection, SentTo
  <2>3. CASE IdentifyConnection(c) \/ NoticeClientGone(c)
    BY <2>3 DEF IdentifyConnection, NoticeClientGone, linkVars
  <2>. QED BY <1>4, <2>2, <2>3 DEF Accept
<1>5. ASSUME NEW c \in Clients, OnMessage(c)
      PROVE  Same \/ One \/ Two
  <2>1. ASSUME issued' = issued PROVE ClientMessages' = ClientMessages
    BY <2>1 DEF ClientMessages, Tokens
  <2>2. CASE OnServerPing(c)
    <3>1. Handles(c, "ServerPing") /\ UNCHANGED issued /\ toClient' = With(toClient, c, Received(c))
      BY <2>2 DEF OnServerPing, tokenVars, issueVars
    <3>2. Received(c).id = "ServerPing" /\ Received(c) \in ClientMessages'
      BY <1>1, <2>1, <3>1, HandlesEffect, PingMessage
    <3>. QED BY <1>3, <3>1, <3>2 DEF SentTo
  <2>3. CASE OnDisconnectClient(c)
    BY <2>3 DEF OnDisconnectClient
  <2>4. CASE OnRegister(c)
    <3>1. PICK r : toClient' = With(toClient, c, [id |-> "Register", code |-> r.code])
                   /\ r \in RegisterUser(DetailsUsername(Received(c)), DetailsPassword(Received(c)))
      BY <2>4 DEF OnRegister
    <3>2. r.code \in Codes /\ UNCHANGED issued
      BY <1>1, <2>4, <3>1, HandlesEffect, DetailsType, RegisterResults
         DEF OnRegister, SystemTypeOK, tokenVars, issueVars
    <3>3. [id |-> "Register", code |-> r.code] \in ClientMessages'
      BY <2>1, <3>2 DEF ClientMessages
    <3>. QED BY <1>3, <3>1, <3>3 DEF SentTo
  <2>5. CASE OnLogin(c)
    <3>1. CASE \E code \in Codes : toClient' = With(toClient, c, LoginReply(NoToken, code))
                                   /\ UNCHANGED <<tokenVars, conn>>
      <4>1. PICK code \in Codes : toClient' = With(toClient, c, LoginReply(NoToken, code))
                                  /\ UNCHANGED issued
        BY <3>1 DEF tokenVars, issueVars
      <4>2. LoginReply(NoToken, code) \in ClientMessages'
        BY <2>1, <4>1, LoginMessage
      <4>. QED BY <1>3, <4>1, <4>2 DEF SentTo, LoginReply
    <3>2. CASE /\ issued' = issued + 1
               /\ toClient' = With(toClient, c, LoginReply(issued + 1, Success))
               /\ conn'[c].currentToken # NoToken \/ UNCHANGED tokens
      <4>1. LoginReply(issued + 1, Success) \in ClientMessages'
        BY <1>2, <3>2 DEF LoginReply, ClientMessages, Tokens, Codes, Success
      <4>. QED BY <1>3, <3>2, <4>1 DEF SentTo, LoginReply
    <3>3. ASSUME conn' = [conn EXCEPT ![c].clientUsername = DetailsUsername(Received(c)),
                                     ![c].currentToken = issued + 1]
          PROVE  conn'[c].currentToken # NoToken
      <4>1. conn'[c].currentToken = issued + 1
        BY <3>3, TypesInParts, <1>1 DEF TypeParts, ConnTypes, Connections
      <4>. QED BY <1>2, <4>1, ProtocolAssumption
    <3>. QED BY <1>1, <2>5, <3>1, <3>2, <3>3, LoginEffect
  <2>6. CASE OnInitiateConversation(c)
    <3>1. PICK answer : /\ toClient' = With(toClient, c, [id |-> "InitiateConversation", to |-> answer])
                        /\ answer \in {IdOf(Received(c).username), Failed}
                        /\ answer # Failed => ValidToken(Received(c).token)
      BY <2>6 DEF OnInitiateConversation
    <3>2. answer \in Nat \cup {Failed} /\ UNCHANGED issued /\ Handles(c, "InitiateConversation")
      BY <1>1, <2>6, <3>1, IdOfType DEF OnInitiateConversation, issueVars
    <3>3. [id |-> "InitiateConversation", to |-> answer] \in ClientMessages'
      BY <2>1, <3>2 DEF ClientMessages
    <3>. QED BY <1>3, <3>1, <3>2, <3>3 DEF SentTo
  <2>7. CASE OnSendMessageToUser(c)
    <3> DEFINE line == Received(c)
               echo == [id |-> "SendMessageToUser", text |-> line.text]
               forward == [id |-> "ReceiveMessageFromUser", text |-> line.text]
    <3>1. line \in ServerMessages /\ line.id = "SendMessageToUser" /\ line.text \in Texts
          /\ Handles(c, "SendMessageToUser") /\ UNCHANGED issued
      BY <1>1, <2>7, HandlesEffect, ServerMessageFields DEF OnSendMessageToUser, issueVars
    <3>2. echo \in ClientMessages' /\ forward \in ClientMessages'
      BY <2>1, <3>1 DEF ClientMessages
    <3>3. CASE UNCHANGED toClient
      BY <3>3
    <3>4. CASE ValidToken(line.token) /\ toClient' = Relay(c, line)
      <4>1. SentTo(c, echo) /\ \A e \in Clients : SentTo(e, forward)
        BY <3>1, <3>4 DEF SentTo
      <4>2. PICK forwarded \in [Clients -> Seq(ClientMessages)] :
              /\ \/ forwarded = toClient
                 \/ \E e \in Clients : forwarded = With(toClient, e, forward)
              /\ toClient' = With(forwarded, c, echo)
        BY <1>1, <3>1, <3>4, RelayEffect
      <4>3. \/ forwarded[d] = toClient[d]
            \/ forwarded[d] = Append(toClient[d], forward)
        BY <1>2, <4>2 DEF With
      <4>4. \/ toClient'[d] = forwarded[d]
            \/ d = c /\ toClient'[d] = Append(forwarded[d], echo)
        BY <4>2 DEF With
      <4>5. echo.id = "SendMessageToUser"
        OBVIOUS
      <4> HIDE DEF echo, forward
      <4>. QED BY <3>2, <4>1, <4>3, <4>4, <4>5
    <3>. QED BY <2>7, <3>3, <3>4 DEF OnSendMessageToUser
  <2>. QED BY <1>5, <2>2, <2>3, <2>4, <2>5, <2>6, <2>7 DEF OnMessage
<1>6. ASSUME NEW c \in Clients, HandleMessage(c), c # d
      PROVE  toClient'[d] = toClient[d]
  BY <1>2, <1>6 DEF HandleMessage
<1>7. ASSUME NEW c \in Clients, Exit(c) \/ LoseServer(c)
      PROVE  Same /\ UNCHANGED screen
  BY <1>1, <1>7, ExitEffect, LoseServerEffect DEF clientVars
<1>8. ASSUME NEW c \in Clients, Keyboard(c) \/ FindServerDown(c)
      PROVE  Same /\ UNCHANGED screen
  BY <1>8 DEF Keyboard, PingServer, Ask, Command, Answer, SendMessageToUser, PressQ, Type,
              FindServerDown, linkVars
<1>9. CASE (Tick /\ UNCHANGED clientVars) \/ UNCHANGED vars
  BY <1>9 DEF Tick, vars, linkVars, clientVars
<1>. QED BY <1>4, <1>5, <1>6, <1>7, <1>8, <1>9
     DEF Next, ServerNext, ClientLoop, clientVars, vars

LEMMA NewAtServer ==
  ASSUME SystemInv, [Next]_vars, NEW c \in Clients, NEW m \in In(toServer'[c])
  PROVE  m \in In(toServer[c]) \/ SentBy(c, m)
<1>1. toServer[c] \in Seq(ServerMessages)
  BY DEF SystemInv, SystemTypeOK
<1>2. ASSUME NEW n \in ServerMessages, SentBy(c, n), toServer'[c] = Append(toServer[c], n)
      PROVE  m \in In(toServer[c]) \/ SentBy(c, m)
  BY <1>1, <1>2, InQueue
<1>. QED BY <1>1, <1>2, ToServerStep, InQueue

LEMMA NewAtClient ==
  ASSUME SystemInv, [Next]_vars, NEW c \in Clients, NEW m \in In(toClient'[c])
  PROVE  m \in In(toClient[c]) \/ SentTo(c, m)
<1>1. toClient[c] \in Seq(ClientMessages)
  BY DEF SystemInv, SystemTypeOK
<1>2. toClient[c] \in Seq(ClientMessages')
  BY <1>1, SetsGrow, TokensGrow
<1>3. ASSUME NEW n \in ClientMessages', SentTo(c, n), toClient'[c] = Append(toClient[c], n)
      PROVE  m \in In(toClient[c]) \/ SentTo(c, m)
  BY <1>2, <1>3, InQueue
<1>4. ASSUME NEW n \in ClientMessages', NEW o \in ClientMessages', SentTo(c, n), SentTo(c, o),
             toClient'[c] = Append(Append(toClient[c], n), o)
      PROVE  m \in In(toClient[c]) \/ SentTo(c, m)
  BY <1>2, <1>4, InTwice
<1>5. HandleMessage(c) => toClient'[c] = Tail(toClient[c]) /\ toClient[c] # <<>>
  BY DEF HandleMessage, SystemInv, SystemTypeOK
<1>. QED BY <1>1, <1>3, <1>4, <1>5, ToClientStep, InQueue

-----------------------------------------------------------------------------
(* Conversations.                                                          *)

\* What a step does to a client's modes.
LEMMA UiStep ==
  ASSUME SystemInv, [Next]_vars, NEW d \in Clients
  PROVE  /\ ui[d].currentToken # NoToken => ui'[d].currentToken # NoToken
         /\ ui[d].currentToken # NoToken /\ (ui[d].prompt = "none" => ui[d].commandMode)
              => (ui'[d].prompt = "none" => ui'[d].commandMode)
         /\ (ui[d].conversationMode => ui[d].prompt = "none")
              => (ui'[d].conversationMode => ui'[d].prompt = "none")
         /\ ui'[d].conversationMode =>
              \/ ui[d].conversationMode
              \/ HandleMessage(d) /\ Head(toClient[d]).id = "InitiateConversation"
         /\ \/ ui'[d].currentToken = ui[d].currentToken
            \/ /\ HandleMessage(d) /\ Head(toClient[d]).id = "Login"
               /\ ui'[d].currentToken = Head(toClient[d]).token
         /\ \/ screen'[d] = screen[d]
            \/ /\ HandleMessage(d) /\ screen'[d] = Append(screen[d], Head(toClient[d]).text)
               /\ Head(toClient[d]).id \in {"SendMessageToUser", "ReceiveMessageFromUser"}
<1> DEFINE Goal ==
         /\ ui[d].currentToken # NoToken => ui'[d].currentToken # NoToken
         /\ ui[d].currentToken # NoToken /\ (ui[d].prompt = "none" => ui[d].commandMode)
              => (ui'[d].prompt = "none" => ui'[d].commandMode)
         /\ (ui[d].conversationMode => ui[d].prompt = "none")
              => (ui'[d].conversationMode => ui'[d].prompt = "none")
         /\ ui'[d].conversationMode =>
              \/ ui[d].conversationMode
              \/ HandleMessage(d) /\ Head(toClient[d]).id = "InitiateConversation"
         /\ \/ ui'[d].currentToken = ui[d].currentToken
            \/ /\ HandleMessage(d) /\ Head(toClient[d]).id = "Login"
               /\ ui'[d].currentToken = Head(toClient[d]).token
         /\ \/ screen'[d] = screen[d]
            \/ /\ HandleMessage(d) /\ screen'[d] = Append(screen[d], Head(toClient[d]).text)
               /\ Head(toClient[d]).id \in {"SendMessageToUser", "ReceiveMessageFromUser"}
<1>1. SystemTypeOK /\ AskedOK /\ TurnsOK
  BY AnswersTurns DEF SystemInv
<1>2. ASSUME ui'[d] = ui[d], screen'[d] = screen[d] PROVE Goal
  BY <1>2
<1>3. ASSUME NEW c \in Clients, PingServer(c) PROVE Goal
  BY <1>2, <1>3 DEF PingServer, Command, Type
<1>4. ASSUME NEW c \in Clients, NEW input \in Prompts, Ask(c, input) PROVE Goal
  <2>0. UNCHANGED screen
    BY <1>4 DEF Ask, Command, Type
  <2>1. input # "none"
    BY DEF Prompts
  <2>2. CASE c = d
    BY <1>1, <1>4, <2>0, <2>1, <2>2, AskEffect
  <2>. QED BY <1>1, <1>2, <1>4, <2>0, <2>2, AskEffect
<1>5. ASSUME NEW c \in Clients, Answer(c) PROVE Goal
  <2>1. CASE c = d
    BY <1>1, <1>5, <2>1, AnswerEffect
  <2>. QED BY <1>1, <1>2, <1>5, <2>1, AnswerEffect
<1>6. ASSUME NEW c \in Clients, SendMessageToUser(c) PROVE Goal
  <2>0. UNCHANGED screen
    BY <1>6 DEF SendMessageToUser, Type
  <2>1. CASE c = d
    BY <1>1, <1>6, <2>0, <2>1, LineEffect
  <2>. QED BY <1>1, <1>2, <1>6, <2>0, <2>1, LineEffect
<1>7. ASSUME NEW c \in Clients, PressQ(c) PROVE Goal
  <2>0. UNCHANGED screen
    BY <1>7 DEF PressQ, Type
  <2>1. CASE c = d
    BY <1>1, <1>7, <2>0, <2>1, PressQEffect
  <2>. QED BY <1>1, <1>2, <1>7, <2>0, <2>1, PressQEffect
<1>8. ASSUME NEW c \in Clients, HandleMessage(c) PROVE Goal
  <2>1. Head(toClient[c]).id \in Requests => awaiting[c] # <<>>
    BY <1>1, <1>8, HeadAwaited
  <2>2. CASE c = d
    BY <1>1, <1>8, <2>1, <2>2, HandleMessageEffect
  <2>. QED BY <1>1, <1>2, <1>8, <2>1, <2>2, HandleMessageEffect
<1>9. ASSUME NEW c \in Clients, FindServerDown(c) PROVE Goal
  BY <1>1, <1>9, FindServerDownEffect
<1>10. ASSUME UNCHANGED clientVars PROVE Goal
  BY <1>2, <1>10 DEF clientVars
<1> HIDE DEF Goal
<1>11. \/ UNCHANGED clientVars
       \/ \E c \in Clients : Keyboard(c) \/ HandleMessage(c) \/ FindServerDown(c)
  BY DEF Next, ClientLoop, Exit, LoseServer, vars
<1>12. Goal
  BY <1>3, <1>4, <1>5, <1>6, <1>7, <1>8, <1>9, <1>10, <1>11 DEF Keyboard
<1>. QED BY <1>12 DEF Goal

\* Who has asked for a conversation, or is in one, has a token, and is asked
\* something or can give a command.
Initiates(queue) == \E m \in In(queue) : m.id = "InitiateConversation"

Talks(c) == ui[c].conversationMode \/ Initiates(toServer[c]) \/ Initiates(toClient[c])

TalkingOK ==
  \A c \in Clients :
    /\ Talks(c) => ui[c].currentToken # NoToken /\ (ui[c].prompt = "none" => ui[c].commandMode)
    /\ ui[c].conversationMode => ui[c].prompt = "none"

LEMMA InitiatesAtServer ==
  ASSUME SystemInv, [Next]_vars, NEW c \in Clients, Initiates(toServer[c])'
  PROVE  Initiates(toServer[c]) \/ ui[c].prompt = "talkto"
<1>1. PICK m \in In(toServer'[c]) : m.id = "InitiateConversation"
  BY DEF Initiates
<1>. QED BY <1>1, NewAtServer DEF Initiates, SentBy

LEMMA InitiatesAtClient ==
  ASSUME SystemInv, [Next]_vars, NEW c \in Clients, Initiates(toClient[c])'
  PROVE  Initiates(toClient[c]) \/ Initiates(toServer[c])
<1>1. PICK m \in In(toClient'[c]) : m.id = "InitiateConversation"
  BY DEF Initiates
<1>2. ASSUME Handles(c, "InitiateConversation")
      PROVE  Initiates(toServer[c])
  <2>1. toServer[c] \in Seq(ServerMessages)
    BY DEF SystemInv, SystemTypeOK
  <2>. QED BY <1>2, <2>1, InQueue DEF Handles, Initiates
<1>. QED BY <1>1, <1>2, NewAtClient DEF Initiates, SentTo

LEMMA TalkingInvariant == Spec => []TalkingOK
<1>1. Init => TalkingOK
  <2> SUFFICES ASSUME Init, NEW c \in Clients
               PROVE  /\ ~ui[c].conversationMode
                      /\ ~Initiates(toServer[c]) /\ ~Initiates(toClient[c])
    BY DEF TalkingOK, Talks
  <2>1. toServer[c] = <<>> /\ toClient[c] = <<>> /\ ~ui[c].conversationMode
    BY DEF Init, LinkInit, ClientInit
  <2>2. In(<<>>) = {}
    BY DEF In
  <2>. QED BY <2>1, <2>2 DEF Initiates
<1>2. TalkingOK /\ SystemInv /\ [Next]_vars => TalkingOK'
  <2> SUFFICES ASSUME TalkingOK, SystemInv, [Next]_vars, NEW c \in Clients
               PROVE  /\ Talks(c)' => /\ ui'[c].currentToken # NoToken
                                      /\ ui'[c].prompt = "none" => ui'[c].commandMode
                      /\ ui'[c].conversationMode => ui'[c].prompt = "none"
    BY DEF TalkingOK
  <2>1. ASSUME HandleMessage(c), Head(toClient[c]).id = "InitiateConversation"
        PROVE  Initiates(toClient[c])
    <3>1. toClient[c] \in Seq(ClientMessages) /\ toClient[c] # <<>>
      BY <2>1 DEF HandleMessage, SystemInv, SystemTypeOK
    <3>. QED BY <2>1, <3>1, InQueue DEF Initiates
  <2>2. ui[c].prompt = "talkto" => ui[c].currentToken # NoToken
    BY DEF SystemInv, AskedOK
  <2>3. ASSUME Talks(c)'
        PROVE  ui[c].currentToken # NoToken /\ (ui[c].prompt = "none" => ui[c].commandMode)
    BY <2>1, <2>2, <2>3, UiStep, InitiatesAtServer, InitiatesAtClient DEF TalkingOK, Talks
  <2>. QED BY <2>3, UiStep DEF TalkingOK
<1>. QED BY <1>1, <1>2, SystemInvariant, PTL DEF Spec

\* A conversation is opened only for a token and can be left again: no answer
\* to a login or a command typed while the reply is on its way takes the token
\* or the command mode away.
THEOREM ConversesLoggedInAlways == Spec => []ConversesLoggedIn
<1>1. TalkingOK => ConversesLoggedIn
  BY DEF TalkingOK, Talks, ConversesLoggedIn
<1>. QED BY <1>1, TalkingInvariant, PTL

-----------------------------------------------------------------------------
(* Lines of conversations.                                                 *)

Carries(m) == m.id \in {"SendMessageToUser", "ReceiveMessageFromUser"}

\* The connection's login was recorded.
Vouched(c) == conn[c].currentToken # NoToken

\* A recorded token that a client has, or is sent, or sends, is that of a login
\* on its own connection; a line that the server has passed on came by a
\* connection with such a login.
SpeakersOK ==
  \A c \in Clients :
    /\ ui[c].currentToken \in DOMAIN tokens => Vouched(c)
    /\ \A m \in In(toClient[c]) :
         /\ m.id = "Login" /\ m.token \in DOMAIN tokens => Vouched(c)
         /\ Carries(m) => m.text.from \in Clients /\ Vouched(m.text.from)
    /\ \A m \in In(toServer[c]) :
         m.id = "SendMessageToUser" =>
           m.text.from = c /\ (m.token \in DOMAIN tokens => Vouched(c))
    /\ \A line \in In(screen[c]) : line.from \in Clients /\ Vouched(line.from)

\* No token that was given out before is recorded now.
LEMMA OldTokens ==
  ASSUME SystemInv, TokensKnown, [Next]_vars, NEW t \in Tokens \cup {NoToken}, t \in DOMAIN tokens'
  PROVE  t \in DOMAIN tokens
<1>1. t # issued + 1
  BY TokenStep, ProtocolAssumption DEF Tokens
<1>2. t \in DOMAIN tokens \/ t = issued'
  BY TokenStep
<1>. QED BY <1>1, <1>2, TokenStep

LEMMA SpeakersStep ==
  ASSUME SystemInv, TokensKnown, SpeakersOK, [Next]_vars
  PROVE  SpeakersOK'
<1>1. /\ toServer \in [Clients -> Seq(ServerMessages)]
      /\ toClient \in [Clients -> Seq(ClientMessages)]
      /\ screen \in [Clients -> Seq(Texts)]
      /\ ui \in [Clients -> Uis]
  BY TypesInParts DEF SystemInv, TypeParts, LinkTypes, UiTypes
<1>2. \A t \in Tokens \cup {NoToken} : t \in DOMAIN tokens' => t \in DOMAIN tokens
  BY OldTokens
<1>3. \A c \in Clients : Vouched(c) => Vouched(c)'
  BY ConnStep DEF Vouched
<1>4. ASSUME NEW c \in Clients, HandleMessage(c)
      PROVE  toClient[c] # <<>> /\ Head(toClient[c]) \in In(toClient[c])
             /\ Head(toClient[c]) \in ClientMessages
  BY <1>1, <1>4, InQueue DEF HandleMessage
<1>5. ASSUME NEW c \in Clients, ui'[c].currentToken \in DOMAIN tokens'
      PROVE  Vouched(c)'
  <2>1. CASE ui'[c].currentToken = ui[c].currentToken
    <3>1. ui[c].currentToken \in Tokens \cup {NoToken}
      BY <1>1 DEF Uis
    <3>. QED BY <1>2, <1>3, <1>5, <2>1, <3>1 DEF SpeakersOK
  <2>2. CASE /\ HandleMessage(c) /\ Head(toClient[c]).id = "Login"
             /\ ui'[c].currentToken = Head(toClient[c]).token
    <3>1. Head(toClient[c]).token \in Tokens \cup {NoToken}
      BY <1>4, <2>2, ClientMessageFields
    <3>. QED BY <1>2, <1>3, <1>4, <1>5, <2>2, <3>1 DEF SpeakersOK
  <2>. QED BY <2>1, <2>2, UiStep
<1>6. ASSUME NEW c \in Clients, NEW m \in In(toClient'[c]), m.id = "Login",
             m.token \in DOMAIN tokens'
      PROVE  Vouched(c)'
  <2>1. CASE m \in In(toClient[c])
    <3>1. m \in ClientMessages
      BY <1>1, <2>1, InQueue
    <3>2. m.token \in Tokens \cup {NoToken}
      BY <1>6, <3>1, ClientMessageFields
    <3>. QED BY <1>2, <1>3, <1>6, <2>1, <3>2 DEF SpeakersOK
  <2>2. CASE SentTo(c, m)
    <3>1. issued + 1 \notin DOMAIN tokens /\ NoToken \notin DOMAIN tokens
      BY ProtocolAssumption, TokenStep DEF TokensKnown, Tokens
    <3>2. m.token # NoToken
      BY <1>2, <1>6, <3>1
    <3>. QED BY <1>6, <2>2, <3>1, <3>2 DEF SentTo, Vouched
  <2>. QED BY <2>1, <2>2, NewAtClient
<1>7. ASSUME NEW c \in Clients, NEW m \in In(toClient'[c]), Carries(m)
      PROVE  m.text.from \in Clients /\ Vouched(m.text.from)'
  <2>1. CASE m \in In(toClient[c])
    BY <1>3, <1>7, <2>1 DEF SpeakersOK
  <2>2. CASE SentTo(c, m)
    <3>1. PICK e \in Clients : /\ Handles(e, "SendMessageToUser") /\ ValidToken(Received(e).token)
                               /\ m.text = Received(e).text
      BY <1>7, <2>2 DEF SentTo, Carries
    <3>2. /\ Received(e) \in In(toServer[e]) /\ Received(e).id = "SendMessageToUser"
          /\ Received(e).token \in DOMAIN tokens
      BY <1>1, <3>1, InQueue DEF Handles, Received, ValidToken
    <3>. QED BY <1>3, <3>1, <3>2 DEF SpeakersOK
  <2>. QED BY <2>1, <2>2, NewAtClient
<1>8. ASSUME NEW c \in Clients, NEW m \in In(toServer'[c]), m.id = "SendMessageToUser"
      PROVE  m.text.from = c /\ (m.token \in DOMAIN tokens' => Vouched(c)')
  <2>1. CASE m \in In(toServer[c])
    <3>1. m \in ServerMessages
      BY <1>1, <2>1, InQueue
    <3>2. m.token \in Tokens
      BY <1>8, <3>1, ServerMessageFields
    <3>. QED BY <1>2, <1>3, <1>8, <2>1, <3>2 DEF SpeakersOK
  <2>2. CASE SentBy(c, m)
    <3>1. m.text.from = c /\ m.token = ui[c].currentToken
      BY <1>8, <2>2 DEF SentBy, Text
    <3>2. ui[c].currentToken \in Tokens \cup {NoToken}
      BY <1>1 DEF Uis
    <3>. QED BY <1>2, <1>3, <3>1, <3>2 DEF SpeakersOK
  <2>. QED BY <2>1, <2>2, NewAtServer
<1>9. ASSUME NEW c \in Clients, NEW line \in In(screen'[c])
      PROVE  line.from \in Clients /\ Vouched(line.from)'
  <2>1. CASE line \in In(screen[c])
    BY <1>3, <2>1 DEF SpeakersOK
  <2>2. CASE HandleMessage(c) /\ Carries(Head(toClient[c])) /\ line = Head(toClient[c]).text
    BY <1>3, <1>4, <2>2 DEF SpeakersOK
  <2>3. ASSUME HandleMessage(c), Carries(Head(toClient[c])),
               screen'[c] = Append(screen[c], Head(toClient[c]).text)
        PROVE  line \in In(screen[c]) \/ line = Head(toClient[c]).text
    <3>1. Head(toClient[c]).text \in Texts
      BY <1>4, <2>3, ClientMessageFields DEF Carries
    <3>. QED BY <1>1, <2>3, <3>1, InQueue
  <2>. QED BY <2>1, <2>2, <2>3, UiStep DEF Carries
<1>. QED BY <1>5, <1>6, <1>7, <1>8, <1>9 DEF SpeakersOK

LEMMA SpeakersInvariant == Spec => []SpeakersOK
<1>1. Init => SpeakersOK
  <2> SUFFICES ASSUME Init PROVE SpeakersOK
    OBVIOUS
  <2>1. \A c \in Clients : /\ toServer[c] = <<>> /\ toClient[c] = <<>> /\ screen[c] = <<>>
                           /\ ui[c].currentToken = NoToken
    BY DEF Init, LinkInit, ClientInit
  <2>2. In(<<>>) = {}
    BY DEF In
  <2>3. NoToken \notin DOMAIN tokens
    <3>1. tokens = <<>>
      BY DEF Init, ServerInit
    <3>. QED BY <3>1
  <2>. QED BY <2>1, <2>2, <2>3 DEF SpeakersOK
<1>2. SpeakersOK /\ TokensKnown /\ SystemInv /\ [Next]_vars => SpeakersOK'
  BY SpeakersStep
<1>. QED BY <1>1, <1>2, SystemInvariant, TokensKnownInvariant, PTL DEF Spec

\* No one's words are shown without a login on the connection they came by,
\* though the server reads only the token in the message and the author's
\* client program says who it is to be shown to.
THEOREM SpeakersLoggedInAlways == Spec => []SpeakersLoggedIn
<1>1. SpeakersOK => SpeakersLoggedIn
  BY DEF SpeakersOK, SpeakersLoggedIn, Vouched, In
<1>. QED BY <1>1, SpeakersInvariant, PTL

-----------------------------------------------------------------------------
(* The order of the lines. A line of d is in toServer[d], then in          *)
(* toClient[c], then on screen[c]: the lines further on are earlier ones.  *)

Line(m, d) == Carries(m) /\ m.text.from = d

Ascending(queue, d) ==
  \A i, j \in DOMAIN queue :
    i < j /\ Line(queue[i], d) /\ Line(queue[j], d) => queue[i].text.n < queue[j].text.n

LEMMA AscendingAppend ==
  ASSUME NEW M, NEW queue \in Seq(M), NEW m \in M, NEW d, Ascending(queue, d),
         \A x \in In(queue) : Line(x, d) /\ Line(m, d) => x.text.n < m.text.n
  PROVE  Ascending(Append(queue, m), d)
<1>1. /\ Len(queue) \in Nat /\ DOMAIN queue = 1..Len(queue)
      /\ DOMAIN Append(queue, m) = 1 .. Len(queue) + 1
      /\ \A i \in 1..Len(queue) : Append(queue, m)[i] = queue[i]
      /\ Append(queue, m)[Len(queue) + 1] = m
  BY AppendProperties
<1>2. \A i \in DOMAIN queue : queue[i] \in In(queue)
  BY DEF In
<1> SUFFICES ASSUME NEW i \in 1 .. Len(queue) + 1, NEW j \in 1 .. Len(queue) + 1, i < j,
                    Line(Append(queue, m)[i], d), Line(Append(queue, m)[j], d)
             PROVE  Append(queue, m)[i].text.n < Append(queue, m)[j].text.n
  BY <1>1 DEF Ascending
<1>3. CASE j \in 1..Len(queue)
  <2>1. i \in 1..Len(queue)
    BY <1>1, <1>3
  <2>2. Append(queue, m)[i] = queue[i] /\ Append(queue, m)[j] = queue[j]
    BY <1>1, <1>3, <2>1
  <2>. QED BY <1>1, <1>3, <2>1, <2>2 DEF Ascending
<1>4. CASE j = Len(queue) + 1
  <2>1. i \in 1..Len(queue)
    BY <1>1, <1>4
  <2>2. Append(queue, m)[i] = queue[i] /\ Append(queue, m)[j] = m
    BY <1>1, <1>4, <2>1
  <2>. QED BY <1>1, <1>2, <2>1, <2>2
<1>. QED BY <1>1, <1>3, <1>4

LEMMA AscendingTail ==
  ASSUME NEW M, NEW queue \in Seq(M), NEW d, Ascending(queue, d), queue # <<>>
  PROVE  /\ Ascending(Tail(queue), d)
         /\ \A x \in In(Tail(queue)) :
              Line(x, d) /\ Line(Head(queue), d) => Head(queue).text.n < x.text.n
<1>1. /\ DOMAIN queue = 1 .. Len(queue) /\ Len(queue) \in Nat /\ Len(queue) # 0
      /\ DOMAIN Tail(queue) = 1 .. Len(queue) - 1
      /\ \A i \in 1 .. Len(queue) - 1 : Tail(queue)[i] = queue[i + 1]
      /\ Head(queue) = queue[1]
  BY HeadTailProperties, EmptySeq
<1>2. Ascending(Tail(queue), d)
  <2> SUFFICES ASSUME NEW i \in 1 .. Len(queue) - 1, NEW j \in 1 .. Len(queue) - 1, i < j,
                      Line(Tail(queue)[i], d), Line(Tail(queue)[j], d)
               PROVE  Tail(queue)[i].text.n < Tail(queue)[j].text.n
    BY <1>1 DEF Ascending
  <2>1. /\ Tail(queue)[i] = queue[i + 1] /\ Tail(queue)[j] = queue[j + 1]
        /\ i + 1 \in DOMAIN queue /\ j + 1 \in DOMAIN queue /\ i + 1 < j + 1
    BY <1>1
  <2>. QED BY <2>1 DEF Ascending
<1>3. ASSUME NEW x \in In(Tail(queue)), Line(x, d), Line(Head(queue), d)
      PROVE  Head(queue).text.n < x.text.n
  <2>1. PICK i \in 1 .. Len(queue) - 1 : x = queue[i + 1]
    BY <1>1 DEF In
  <2>2. 1 \in DOMAIN queue /\ i + 1 \in DOMAIN queue /\ 1 < i + 1
    BY <1>1
  <2>. QED BY <1>1, <1>3, <2>1, <2>2 DEF Ascending
<1>. QED BY <1>2, <1>3

LEMMA AscendingSub ==
  ASSUME NEW M, NEW queue \in Seq(M), NEW d, Ascending(queue, d), NEW k \in 0 .. Len(queue)
  PROVE  Ascending(SubSeq(queue, 1, k), d)
<1>1. /\ DOMAIN SubSeq(queue, 1, k) \subseteq DOMAIN queue
      /\ \A i \in DOMAIN SubSeq(queue, 1, k) : SubSeq(queue, 1, k)[i] = queue[i]
  OBVIOUS
<1>. QED BY <1>1 DEF Ascending

\* What d has sent and the server not handled.
Sending(d) ==
  /\ Ascending(toServer[d], d)
  /\ \A m \in In(toServer[d]) : Line(m, d) => m.text.n <= typed[d]["line"]

\* What of d has been sent to c, and what of it c has printed.
Between(c, d) ==
  /\ Ascending(toClient[c], d)
  /\ \A i, j \in DOMAIN screen[c] :
       i < j /\ screen[c][i].from = d /\ screen[c][j].from = d => screen[c][i].n < screen[c][j].n
  /\ \A line \in In(screen[c]) : line.from = d =>
       /\ line.n <= typed[d]["line"]
       /\ \A m \in In(toClient[c]) : Line(m, d) => line.n < m.text.n
       /\ \A m \in In(toServer[d]) : Line(m, d) => line.n < m.text.n
  /\ \A x \in In(toClient[c]) : Line(x, d) =>
       /\ x.text.n <= typed[d]["line"]
       /\ \A m \in In(toServer[d]) : Line(m, d) => x.text.n < m.text.n

OrderOK ==
  \A d \in Clients : Sending(d) /\ \A c \in Clients \ {d} : Between(c, d)

\* The user types on.
LEMMA TypedStep ==
  ASSUME SystemInv, [Next]_vars, NEW d \in Clients
  PROVE  /\ typed[d]["line"] \in Nat /\ typed'[d]["line"] \in Nat
         /\ typed[d]["line"] <= typed'[d]["line"]
         /\ Type(d, "line") => typed'[d]["line"] = typed[d]["line"] + 1
<1>1. SystemTypeOK /\ AskedOK /\ "line" \in Inputs /\ Prompts \subseteq Inputs
      /\ "ping" \in Inputs /\ "q" \in Inputs
  BY DEF SystemInv, Inputs
<1>2. typed[d]["line"] \in Nat
  BY <1>1 DEF SystemTypeOK
<1>3. ASSUME NEW c \in Clients, NEW input \in Inputs, Type(c, input)
      PROVE  typed[d]["line"] <= typed'[d]["line"] /\ typed'[d]["line"] \in Nat
  BY <1>1, <1>3, TypeEffect
<1>4. ASSUME UNCHANGED typed
      PROVE  typed[d]["line"] <= typed'[d]["line"] /\ typed'[d]["line"] \in Nat
  BY <1>2, <1>4
<1>5. \/ UNCHANGED typed
      \/ \E c \in Clients, input \in Inputs : Type(c, input)
  <2>1. ASSUME NEW c \in Clients, Keyboard(c)
        PROVE  UNCHANGED typed \/ \E input \in Inputs : Type(c, input)
    BY <1>1, <2>1 DEF Keyboard, PingServer, Ask, Command, Answer, SendMessageToUser, PressQ
  <2>2. ASSUME NEW c \in Clients, ClientLoop(c)
        PROVE  UNCHANGED typed
    BY <2>2 DEF ClientLoop, HandleMessage, FindServerDown, Exit, clientVars
  <2>. QED BY <2>1, <2>2 DEF Next, LoseServer, clientVars, vars
<1>6. Type(d, "line") => typed'[d]["line"] = typed[d]["line"] + 1
  BY <1>1, TypeEffect
<1>. QED BY <1>2, <1>3, <1>4, <1>5, <1>6

LEMMA LinesHaveNumbers ==
  ASSUME SystemInv, NEW c \in Clients
  PROVE  /\ \A m \in In(toClient[c]) : Carries(m) => m.text \in Texts /\ m.text.n \in Nat
         /\ \A m \in In(toServer[c]) : Carries(m) =>
              m.text \in Texts /\ m.text.n \in Nat /\ m.id = "SendMessageToUser"
         /\ \A line \in In(screen[c]) : line.n \in Nat
<1>1. /\ In(toServer[c]) \subseteq ServerMessages /\ In(toClient[c]) \subseteq ClientMessages
      /\ In(screen[c]) \subseteq Texts
  BY DEF SystemInv, SystemTypeOK, In
<1>2. \A t \in Texts : t.n \in Nat
  BY DEF Texts
<1>. QED BY <1>1, <1>2, ServerMessageFields, ClientMessageFields DEF Carries, Requests

\* A client has no other message with a line in it to send.
LEMMA NewCarriesLine ==
  ASSUME SystemInv, [Next]_vars, NEW c \in Clients, NEW m \in In(toServer'[c]), Carries(m)
  PROVE  m.id = "SendMessageToUser"
<1>1. TypeParts'
  BY SystemInvStep, TypesInParts DEF SystemInv
<1>2. m \in ServerMessages'
  <2>1. toServer'[c] \in Seq(ServerMessages')
    BY <1>1 DEF TypeParts, LinkTypes
  <2>. QED BY <2>1, InQueue
<1>3. m.id \in Requests \cup {"DisconnectClient"}
  BY <1>2 DEF ServerMessages, Requests
<1>. QED BY <1>3 DEF Carries, Requests

\* The user of d types a line and nothing else happens: it has the highest
\* number so far.
LEMMA TypedInOrder ==
  ASSUME SystemInv, OrderOK, [Next]_vars, NEW d \in Clients, NEW m \in ServerMessages,
         SentBy(d, m), UNCHANGED <<toClient, screen>>, toServer'[d] = Append(toServer[d], m)
  PROVE  Sending(d)' /\ \A c \in Clients \ {d} : Between(c, d)'
<1>1. toServer[d] \in Seq(ServerMessages)
  BY DEF SystemInv, SystemTypeOK
<1>2. In(toServer'[d]) = In(toServer[d]) \cup {m}
  BY <1>1, InQueue
<1>3. Line(m, d) => /\ m.text.n = typed'[d]["line"]
                    /\ typed'[d]["line"] = typed[d]["line"] + 1
  <2>1. Line(m, d) => m.id = "SendMessageToUser"
    BY ServerMessageFields DEF Line, Carries, Requests
  <2>. QED BY <2>1, TypedStep DEF SentBy, Text
<1>4. /\ typed[d]["line"] \in Nat /\ typed'[d]["line"] \in Nat
      /\ typed[d]["line"] <= typed'[d]["line"]
  BY TypedStep
<1>5. Sending(d)'
  <2>1. \A x \in In(toServer[d]) : Line(x, d) => x.text.n \in Nat /\ x.text.n <= typed[d]["line"]
    BY LinesHaveNumbers DEF OrderOK, Sending, Line
  <2>2. \A x \in In(toServer[d]) : Line(x, d) /\ Line(m, d) => x.text.n < m.text.n
    BY <1>3, <1>4, <2>1
  <2>3. Ascending(toServer[d], d)
    BY DEF OrderOK, Sending
  <2>4. Ascending(toServer'[d], d)
    BY <1>1, <2>2, <2>3, AscendingAppend
  <2>5. \A x \in In(toServer'[d]) : Line(x, d) => x.text.n <= typed'[d]["line"]
    BY <1>2, <1>3, <1>4, <2>1
  <2>. QED BY <2>4, <2>5 DEF Sending
<1>6. ASSUME NEW c \in Clients \ {d} PROVE Between(c, d)'
  <2>1. Between(c, d) /\ toClient'[c] = toClient[c] /\ screen'[c] = screen[c]
    BY DEF OrderOK
  <2>2. \A line \in In(screen[c]) : line.from = d =>
          /\ line.n \in Nat /\ line.n <= typed[d]["line"]
          /\ line.n <= typed'[d]["line"] /\ (Line(m, d) => line.n < m.text.n)
    BY <1>3, <1>4, <2>1, LinesHaveNumbers DEF Between
  <2>3. \A x \in In(toClient[c]) : Line(x, d) =>
          /\ x.text.n \in Nat /\ x.text.n <= typed[d]["line"]
          /\ x.text.n <= typed'[d]["line"] /\ (Line(m, d) => x.text.n < m.text.n)
    BY <1>3, <1>4, <2>1, LinesHaveNumbers DEF Between, Line
  <2>. QED BY <1>2, <2>1, <2>2, <2>3 DEF Between
<1>. QED BY <1>5, <1>6

\* The server takes a message of d or d breaks off.
LEMMA TakenInOrder ==
  ASSUME SystemInv, OrderOK, [Next]_vars, NEW d \in Clients,
         \/ toServer'[d] = toServer[d]
         \/ toServer'[d] = Tail(toServer[d]) /\ toServer[d] # <<>>
         \/ \E k \in 0 .. Len(toServer[d]) : toServer'[d] = SubSeq(toServer[d], 1, k)
  PROVE  Sending(d)' /\ In(toServer'[d]) \subseteq In(toServer[d])
<1>1. toServer[d] \in Seq(ServerMessages)
  BY DEF SystemInv, SystemTypeOK
<1>2. Ascending(toServer[d], d)
  BY DEF OrderOK, Sending
<1>3. In(toServer'[d]) \subseteq In(toServer[d])
  BY <1>1, InQueue
<1>4. Ascending(toServer'[d], d)
  BY <1>1, <1>2, AscendingTail, AscendingSub
<1>5. \A m \in In(toServer'[d]) : Line(m, d) => m.text.n <= typed'[d]["line"]
  <2>1. \A m \in In(toServer[d]) : Line(m, d) => m.text.n \in Nat /\ m.text.n <= typed[d]["line"]
    BY LinesHaveNumbers DEF OrderOK, Sending, Line
  <2>. QED BY <1>3, <2>1, TypedStep
<1>. QED BY <1>3, <1>4, <1>5 DEF Sending

\* A line of d that the server sends to c is the first of those d has sent.
LEMMA PassedOn ==
  ASSUME SystemInv, SpeakersOK, OrderOK, [Next]_vars, NEW d \in Clients, NEW c \in Clients \ {d},
         NEW m, SentTo(c, m), Line(m, d)
  PROVE  /\ m.id # "SendMessageToUser"
         /\ \A line \in In(screen[c]) : line.from = d => line.n < m.text.n
         /\ \A x \in In(toClient[c]) : Line(x, d) => x.text.n < m.text.n
         /\ \A x \in In(toServer'[d]) : Line(x, d) => m.text.n < x.text.n
         /\ m.text.n <= typed'[d]["line"]
<1> DEFINE h == Head(toServer[d])
<1>1. toServer \in [Clients -> Seq(ServerMessages)]
  BY DEF SystemInv, SystemTypeOK
<1>2. PICK e \in Clients : /\ Handles(e, "SendMessageToUser") /\ m.text = Received(e).text
                           /\ m.id = "SendMessageToUser" => e = c
  BY DEF SentTo, Line, Carries
<1>3. /\ Received(e) \in In(toServer[e]) /\ Received(e).id = "SendMessageToUser"
      /\ toServer'[e] = Tail(toServer[e]) /\ toServer[e] # <<>>
  BY <1>1, <1>2, InQueue DEF Handles, Received
<1>4. e = d
  BY <1>2, <1>3 DEF SpeakersOK, Line
<1>5. /\ h \in In(toServer[d]) /\ Line(h, d) /\ m.text = h.text
      /\ toServer'[d] = Tail(toServer[d]) /\ toServer[d] # <<>>
  BY <1>2, <1>3, <1>4 DEF Received, Line, Carries
<1>6. \A x \in In(toServer'[d]) : Line(x, d) => m.text.n < x.text.n
  <2>1. Ascending(toServer[d], d)
    BY DEF OrderOK, Sending
  <2>. QED BY <1>1, <1>5, <2>1, AscendingTail
<1>7. m.text.n <= typed'[d]["line"]
  <2>1. h.text.n \in Nat /\ h.text.n <= typed[d]["line"]
    BY <1>5, LinesHaveNumbers DEF OrderOK, Sending, Line
  <2>. QED BY <1>5, <2>1, TypedStep
<1>8. /\ \A line \in In(screen[c]) : line.from = d => line.n < m.text.n
      /\ \A x \in In(toClient[c]) : Line(x, d) => x.text.n < m.text.n
  BY <1>5 DEF OrderOK, Between
<1>. QED BY <1>2, <1>4, <1>6, <1>7, <1>8

\* With fewer or later lines on their way it is still in order.
LEMMA FewerInOrder ==
  ASSUME SystemInv, OrderOK, [Next]_vars, NEW d \in Clients, NEW c \in Clients \ {d},
         In(toServer'[d]) \subseteq In(toServer[d]), In(toClient'[c]) \subseteq In(toClient[c]),
         Ascending(toClient'[c], d), screen'[c] = screen[c]
  PROVE  Between(c, d)'
<1>1. \A line \in In(screen[c]) : line.from = d => line.n <= typed'[d]["line"]
  BY LinesHaveNumbers, TypedStep DEF OrderOK, Between
<1>2. \A x \in In(toClient[c]) : Line(x, d) => x.text.n <= typed'[d]["line"]
  BY LinesHaveNumbers, TypedStep DEF OrderOK, Between, Line
<1>. QED BY <1>1, <1>2 DEF OrderOK, Between

LEMMA SentInOrder ==
  ASSUME SystemInv, SpeakersOK, OrderOK, [Next]_vars, NEW d \in Clients, NEW c \in Clients \ {d},
         In(toServer'[d]) \subseteq In(toServer[d]), screen'[c] = screen[c],
         NEW m, SentTo(c, m), Ascending(toClient'[c], d),
         \A x \in In(toClient'[c]) : x \in In(toClient[c]) \/ x = m \/ ~Line(x, d)
  PROVE  Between(c, d)'
<1>1. \A line \in In(screen[c]) : line.from = d => line.n <= typed'[d]["line"]
  BY LinesHaveNumbers, TypedStep DEF OrderOK, Between
<1>2. \A x \in In(toClient[c]) : Line(x, d) => x.text.n <= typed'[d]["line"]
  BY LinesHaveNumbers, TypedStep DEF OrderOK, Between, Line
<1>3. Line(m, d) =>
        /\ \A line \in In(screen[c]) : line.from = d => line.n < m.text.n
        /\ \A x \in In(toServer'[d]) : Line(x, d) => m.text.n < x.text.n
        /\ m.text.n <= typed'[d]["line"]
  BY PassedOn
<1>. QED BY <1>1, <1>2, <1>3 DEF OrderOK, Between

LEMMA ArrivesInOrder ==
  ASSUME SystemInv, SpeakersOK, OrderOK, [Next]_vars, NEW d \in Clients, NEW c \in Clients \ {d},
         In(toServer'[d]) \subseteq In(toServer[d]), screen'[c] = screen[c],
         NEW m \in ClientMessages', SentTo(c, m),
         \/ toClient'[c] = Append(toClient[c], m)
         \/ \E n \in ClientMessages' : /\ SentTo(c, n) /\ n.id = "SendMessageToUser"
                                       /\ toClient'[c] = Append(Append(toClient[c], m), n)
  PROVE  Between(c, d)'
<1>1. toClient[c] \in Seq(ClientMessages')
  <2>1. toClient[c] \in Seq(ClientMessages)
    BY DEF SystemInv, SystemTypeOK
  <2>. QED BY <2>1, SetsGrow, TokensGrow
<1>2. PICK longer \in Seq(ClientMessages') : longer = Append(toClient[c], m)
  BY <1>1, AppendProperties
<1>3. In(longer) = In(toClient[c]) \cup {m}
  BY <1>1, <1>2, InQueue
<1>4. Ascending(longer, d)
  <2>1. Ascending(toClient[c], d)
    BY DEF OrderOK, Between
  <2>. QED BY <1>1, <1>2, <2>1, PassedOn, AscendingAppend
<1>5. CASE toClient'[c] = longer
  BY <1>3, <1>4, <1>5, SentInOrder
<1>6. ASSUME NEW n \in ClientMessages', SentTo(c, n), n.id = "SendMessageToUser",
             toClient'[c] = Append(longer, n)
      PROVE  Between(c, d)'
  <2>1. ~Line(n, d)
    BY <1>6, PassedOn
  <2>2. In(Append(longer, n)) = In(longer) \cup {n}
    BY InQueue
  <2>3. Ascending(toClient'[c], d)
    BY <1>2, <1>4, <1>6, <2>1, AscendingAppend
  <2>4. \A x \in In(toClient'[c]) : x \in In(toClient[c]) \/ x = m \/ ~Line(x, d)
    BY <1>3, <1>6, <2>1, <2>2
  <2>. QED BY <2>3, <2>4, SentInOrder
<1>. QED BY <1>2, <1>5, <1>6

\* A line is printed: what is printed already and what is on its way is in
\* order.
LEMMA PrintedInOrder ==
  ASSUME SystemInv, OrderOK, [Next]_vars, NEW d \in Clients, NEW c \in Clients \ {d},
         In(toServer'[d]) \subseteq In(toServer[d]), HandleMessage(c)
  PROVE  Between(c, d)'
<1> DEFINE h == Head(toClient[c])
<1>1. /\ toClient[c] \in Seq(ClientMessages) /\ toClient[c] # <<>> /\ screen[c] \in Seq(Texts)
      /\ toClient'[c] = Tail(toClient[c])
  BY DEF SystemInv, SystemTypeOK, HandleMessage
<1>2. h \in In(toClient[c]) /\ In(toClient'[c]) \subseteq In(toClient[c])
  BY <1>1, InQueue
<1>3. /\ Ascending(toClient'[c], d)
      /\ \A x \in In(toClient'[c]) : Line(x, d) /\ Line(h, d) => h.text.n < x.text.n
  <2>1. Ascending(toClient[c], d)
    BY DEF OrderOK, Between
  <2>. QED BY <1>1, <2>1, AscendingTail
<1>4. CASE screen'[c] = screen[c]
  BY <1>2, <1>3, <1>4, FewerInOrder
<1>5. CASE Carries(h) /\ screen'[c] = Append(screen[c], h.text)
  <2>1. h.text \in Texts /\ h.text.n \in Nat
    BY <1>2, <1>5, LinesHaveNumbers
  <2>2. /\ Len(screen[c]) \in Nat /\ DOMAIN screen[c] = 1..Len(screen[c])
        /\ DOMAIN screen'[c] = 1 .. Len(screen[c]) + 1
        /\ \A i \in 1..Len(screen[c]) : screen'[c][i] = screen[c][i] /\ screen[c][i] \in In(screen[c])
        /\ screen'[c][Len(screen[c]) + 1] = h.text
    BY <1>1, <1>5, <2>1, AppendProperties DEF In
  <2>3. In(screen'[c]) = In(screen[c]) \cup {h.text}
    BY <1>1, <1>5, <2>1, InQueue
  <2>4. h.text.from = d => Line(h, d)
    BY <1>5 DEF Line
  <2>5. \A line \in In(screen[c]) : line.from = d /\ h.text.from = d => line.n < h.text.n
    BY <1>2, <2>4 DEF OrderOK, Between
  <2>6. ASSUME NEW i \in DOMAIN screen'[c], NEW j \in DOMAIN screen'[c], i < j,
               screen'[c][i].from = d, screen'[c][j].from = d
        PROVE  screen'[c][i].n < screen'[c][j].n
    <3>1. i \in 1..Len(screen[c]) /\ (j \in 1..Len(screen[c]) \/ j = Len(screen[c]) + 1)
      BY <2>2, <2>6
    <3>2. CASE j \in 1..Len(screen[c])
      BY <2>2, <2>6, <3>1, <3>2 DEF OrderOK, Between
    <3>3. CASE j = Len(screen[c]) + 1
      BY <2>2, <2>5, <2>6, <3>1, <3>3
    <3>. QED BY <3>1, <3>2, <3>3
  <2>7. \A x \in In(toClient[c]) : Line(x, d) =>
          /\ x.text.n <= typed'[d]["line"]
          /\ \A m \in In(toServer'[d]) : Line(m, d) => x.text.n < m.text.n
    BY LinesHaveNumbers, TypedStep DEF OrderOK, Between, Line
  <2>8. \A line \in In(screen'[c]) : line.from = d =>
          /\ line.n <= typed'[d]["line"]
          /\ \A m \in In(toClient'[c]) : Line(m, d) => line.n < m.text.n
          /\ \A m \in In(toServer'[d]) : Line(m, d) => line.n < m.text.n
    <3>1. ASSUME NEW line \in In(screen[c]), line.from = d
          PROVE  /\ line.n <= typed'[d]["line"]
                 /\ \A m \in In(toClient'[c]) : Line(m, d) => line.n < m.text.n
                 /\ \A m \in In(toServer'[d]) : Line(m, d) => line.n < m.text.n
      BY <1>2, <3>1, LinesHaveNumbers, TypedStep DEF OrderOK, Between
    <3>2. ASSUME h.text.from = d
          PROVE  /\ h.text.n <= typed'[d]["line"]
                 /\ \A m \in In(toClient'[c]) : Line(m, d) => h.text.n < m.text.n
                 /\ \A m \in In(toServer'[d]) : Line(m, d) => h.text.n < m.text.n
      BY <1>2, <1>3, <2>4, <2>7, <3>2
    <3>. QED BY <2>3, <3>1, <3>2
  <2>. QED BY <1>2, <1>3, <2>6, <2>7, <2>8 DEF Between
<1>. QED BY <1>4, <1>5, UiStep DEF Carries

LEMMA OrderStep ==
  ASSUME SystemInv, SpeakersOK, OrderOK, [Next]_vars
  PROVE  OrderOK'
<1> SUFFICES ASSUME NEW d \in Clients
             PROVE  Sending(d)' /\ \A c \in Clients \ {d} : Between(c, d)'
  BY DEF OrderOK
<1>1. CASE \E m \in ServerMessages : /\ SentBy(d, m) /\ UNCHANGED <<toClient, screen>>
                                     /\ toServer'[d] = Append(toServer[d], m)
  BY <1>1, TypedInOrder
<1>2. CASE \/ toServer'[d] = toServer[d]
           \/ toServer'[d] = Tail(toServer[d]) /\ toServer[d] # <<>>
           \/ \E k \in 0 .. Len(toServer[d]) : toServer'[d] = SubSeq(toServer[d], 1, k)
  <2>1. Sending(d)' /\ In(toServer'[d]) \subseteq In(toServer[d])
    BY <1>2, TakenInOrder
  <2>2. ASSUME NEW c \in Clients \ {d} PROVE Between(c, d)'
    <3>1. CASE HandleMessage(c)
      BY <2>1, <3>1, PrintedInOrder
    <3>2. ASSUME ~HandleMessage(c) PROVE screen'[c] = screen[c]
      BY <3>2, UiStep
    <3>3. CASE ~HandleMessage(c) /\ toClient'[c] \in {toClient[c], <<>>}
      <4>1. Ascending(toClient[c], d) /\ Ascending(<<>>, d) /\ In(<<>>) = {}
        BY DEF OrderOK, Between, Ascending, In
      <4>2. Ascending(toClient'[c], d) /\ In(toClient'[c]) \subseteq In(toClient[c])
        BY <3>3, <4>1
      <4>. QED BY <2>1, <3>2, <3>3, <4>2, FewerInOrder
    <3>4. CASE ~HandleMessage(c) /\ toClient'[c] \notin {toClient[c], <<>>}
      <4>1. PICK m \in ClientMessages' :
              /\ SentTo(c, m)
              /\ \/ toClient'[c] = Append(toClient[c], m)
                 \/ \E n \in ClientMessages' : /\ SentTo(c, n) /\ n.id = "SendMessageToUser"
                                               /\ toClient'[c] = Append(Append(toClient[c], m), n)
        BY <3>4, ToClientStep
      <4>. QED BY <2>1, <3>2, <3>4, <4>1, ArrivesInOrder
    <3>. QED BY <3>1, <3>3, <3>4
  <2>. QED BY <2>1, <2>2
<1>. QED BY <1>1, <1>2, ToServerStep

LEMMA OrderInvariant == Spec => []OrderOK
<1>1. Init => OrderOK
  <2> SUFFICES ASSUME Init, NEW d \in Clients
               PROVE  Sending(d) /\ \A c \in Clients : Between(c, d)
    BY DEF OrderOK
  <2>1. \A c \in Clients : toServer[c] = <<>> /\ toClient[c] = <<>> /\ screen[c] = <<>>
    BY DEF Init, LinkInit, ClientInit
  <2>2. In(<<>>) = {} /\ DOMAIN <<>> = {}
    BY DEF In
  <2>. QED BY <2>1, <2>2 DEF Sending, Between, Ascending
<1>2. OrderOK /\ SpeakersOK /\ SystemInv /\ [Next]_vars => OrderOK'
  BY OrderStep
<1>. QED BY <1>1, <1>2, SystemInvariant, SpeakersInvariant, PTL DEF Spec

\* The server and the two connections keep a line's place among its author's,
\* in whatever conversation and to whichever client it is sent.
THEOREM RelayedInOrderAlways == Spec => []RelayedInOrder
<1>1. OrderOK /\ SystemInv => RelayedInOrder
  <2> SUFFICES ASSUME OrderOK, SystemInv, NEW c \in Clients, NEW i \in DOMAIN screen[c],
                      NEW j \in DOMAIN screen[c], i < j,
                      screen[c][i].from = screen[c][j].from, screen[c][i].from # c
               PROVE  screen[c][i].n < screen[c][j].n
    BY DEF RelayedInOrder
  <2>1. screen[c][i].from \in Clients
    <3>1. screen[c] \in Seq(Texts)
      BY DEF SystemInv, SystemTypeOK
    <3>2. screen[c][i] \in Texts
      BY <3>1
    <3>. QED BY <3>2 DEF Texts
  <2>. QED BY <2>1 DEF OrderOK, Between
<1>. QED BY <1>1, OrderInvariant, SystemInvariant, PTL

-----------------------------------------------------------------------------
(* What the system promises its users: Messenger. Of each line and of each *)
(* conversation the invariants below say what Messenger asks for.          *)

\* A recorded login gave the connection a name.
NamedOK == \A c \in Clients : Vouched(c) => conn[c].clientUsername # Blank

LEMMA NamedInvariant == Spec => []NamedOK
<1>1. Init => NamedOK
  BY DEF Init, ServerInit, NewConnection, NamedOK, Vouched
<1>2. NamedOK /\ SystemInv /\ [Next]_vars => NamedOK'
  BY ConnStep DEF NamedOK, Vouched
<1>. QED BY <1>1, <1>2, SystemInvariant, PTL DEF Spec

\* Whom the server has found or will find the partner of a conversation for has
\* logged in on the connection that the request came by.
TalkersOK ==
  \A c \in Clients :
    /\ \A m \in In(toServer[c]) :
         m.id = "InitiateConversation" /\ m.token \in DOMAIN tokens => Vouched(c)
    /\ \A m \in In(toClient[c]) :
         m.id = "InitiateConversation" /\ m.to # Failed => Vouched(c)

LEMMA TalkersStep ==
  ASSUME SystemInv, TokensKnown, SpeakersOK, TalkersOK, [Next]_vars
  PROVE  TalkersOK'
<1>1. \A c \in Clients : Vouched(c) => Vouched(c)'
  BY ConnStep DEF Vouched
<1>2. ASSUME NEW c \in Clients, NEW m \in In(toServer'[c]), m.id = "InitiateConversation",
             m.token \in DOMAIN tokens'
      PROVE  Vouched(c)'
  <2>1. m.token \in Tokens \cup {NoToken} /\ (m \in In(toServer[c]) \/ m.token = ui[c].currentToken)
    <3>1. CASE m \in In(toServer[c])
      <4>1. m \in ServerMessages
        BY <3>1 DEF SystemInv, SystemTypeOK, In
      <4>. QED BY <1>2, <3>1, <4>1, ServerMessageFields
    <3>2. CASE SentBy(c, m)
      <4>1. m.token = ui[c].currentToken
        BY <1>2, <3>2 DEF SentBy
      <4>2. ui[c].currentToken \in Tokens \cup {NoToken}
        BY DEF SystemInv, SystemTypeOK
      <4>. QED BY <4>1, <4>2
    <3>. QED BY <3>1, <3>2, NewAtServer
  <2>2. m.token \in DOMAIN tokens
    BY <1>2, <2>1, OldTokens
  <2>. QED BY <1>1, <1>2, <2>1, <2>2 DEF TalkersOK, SpeakersOK
<1>3. ASSUME NEW c \in Clients, NEW m \in In(toClient'[c]), m.id = "InitiateConversation",
             m.to # Failed
      PROVE  Vouched(c)'
  <2>1. CASE m \in In(toClient[c])
    BY <1>1, <1>3, <2>1 DEF TalkersOK
  <2>2. CASE SentTo(c, m)
    <3>1. Handles(c, "InitiateConversation") /\ Received(c).token \in DOMAIN tokens
      BY <1>3, <2>2 DEF SentTo, ValidToken
    <3>2. toServer[c] \in Seq(ServerMessages)
      BY DEF SystemInv, SystemTypeOK
    <3>3. Received(c) \in In(toServer[c]) /\ Received(c).id = "InitiateConversation"
      BY <3>1, <3>2, InQueue DEF Handles, Received
    <3>. QED BY <1>1, <3>1, <3>3 DEF TalkersOK
  <2>. QED BY <2>1, <2>2, NewAtClient
<1>. QED BY <1>2, <1>3 DEF TalkersOK

LEMMA TalkersInvariant == Spec => []TalkersOK
<1>1. Init => TalkersOK
  <2> SUFFICES ASSUME Init PROVE TalkersOK
    OBVIOUS
  <2>1. \A c \in Clients : toServer[c] = <<>> /\ toClient[c] = <<>>
    BY DEF Init, LinkInit
  <2>2. In(<<>>) = {}
    BY DEF In
  <2>. QED BY <2>1, <2>2 DEF TalkersOK
<1>2. TalkersOK /\ SpeakersOK /\ TokensKnown /\ SystemInv /\ [Next]_vars => TalkersOK'
  BY TalkersStep
<1>. QED BY <1>1, <1>2, SystemInvariant, TokensKnownInvariant, SpeakersInvariant, PTL DEF Spec

\* A line on its way is one that was typed; what a client is sent back is its own.
Typed(text) == text.from \in Clients /\ text.n \in 1 .. typed[text.from]["line"]

TypedOK ==
  \A c \in Clients :
    /\ \A m \in In(toServer[c]) : Carries(m) => Typed(m.text) /\ m.text.from = c
    /\ \A m \in In(toClient[c]) :
         Carries(m) => Typed(m.text) /\ (m.id = "SendMessageToUser" => m.text.from = c)

LEMMA TypedOKStep ==
  ASSUME SystemInv, TypedOK, [Next]_vars
  PROVE  TypedOK'
<1>1. ASSUME NEW text, Typed(text)
      PROVE  Typed(text)'
  <2>1. /\ typed[text.from]["line"] \in Nat /\ typed'[text.from]["line"] \in Nat
        /\ typed[text.from]["line"] <= typed'[text.from]["line"]
    BY <1>1, TypedStep DEF Typed
  <2>. QED BY <1>1, <2>1 DEF Typed
<1>2. ASSUME NEW c \in Clients, NEW m \in In(toServer'[c]), Carries(m)
      PROVE  Typed(m.text)' /\ m.text.from = c
  <2>1. CASE m \in In(toServer[c])
    BY <1>1, <1>2, <2>1 DEF TypedOK
  <2>2. CASE m \notin In(toServer[c])
    <3>1. SentBy(c, m)
      BY <2>2, NewAtServer
    <3>2. m.id = "SendMessageToUser"
      BY <1>2, <2>2, NewCarriesLine
    <3>3. m.text = Text(c, typed'[c]["line"]) /\ Type(c, "line")
      BY <3>1, <3>2 DEF SentBy
    <3>4. typed[c]["line"] \in Nat /\ typed'[c]["line"] = typed[c]["line"] + 1
      BY <3>3, TypedStep
    <3>5. m.text.from = c /\ m.text.n = typed'[c]["line"]
      BY <3>3 DEF Text
    <3>. QED BY <3>4, <3>5 DEF Typed
  <2>. QED BY <2>1, <2>2
<1>3. ASSUME NEW c \in Clients, NEW m \in In(toClient'[c]), Carries(m)
      PROVE  Typed(m.text)' /\ (m.id = "SendMessageToUser" => m.text.from = c)
  <2>1. CASE m \in In(toClient[c])
    BY <1>1, <1>3, <2>1 DEF TypedOK
  <2>2. CASE SentTo(c, m)
    <3>1. PICK e \in Clients : /\ Handles(e, "SendMessageToUser") /\ m.text = Received(e).text
                               /\ m.id = "SendMessageToUser" => e = c
      BY <1>3, <2>2 DEF SentTo, Carries
    <3>2. toServer[e] \in Seq(ServerMessages)
      BY DEF SystemInv, SystemTypeOK
    <3>3. Received(e) \in In(toServer[e]) /\ Carries(Received(e))
      BY <3>1, <3>2, InQueue DEF Handles, Received, Carries
    <3>. QED BY <1>1, <3>1, <3>3 DEF TypedOK
  <2>. QED BY <2>1, <2>2, NewAtClient
<1>. QED BY <1>2, <1>3 DEF TypedOK

LEMMA TypedInvariant == Spec => []TypedOK
<1>1. Init => TypedOK
  <2> SUFFICES ASSUME Init PROVE TypedOK
    OBVIOUS
  <2>1. \A c \in Clients : toServer[c] = <<>> /\ toClient[c] = <<>>
    BY DEF Init, LinkInit
  <2>2. In(<<>>) = {}
    BY DEF In
  <2>. QED BY <2>1, <2>2 DEF TypedOK
<1>2. TypedOK /\ SystemInv /\ [Next]_vars => TypedOK'
  BY TypedOKStep
<1>. QED BY <1>1, <1>2, SystemInvariant, PTL DEF Spec

\* A step puts something into the queue to one client, unless it relays a line.
LEMMA OneServed ==
  ASSUME SystemInv, [Next]_vars
  PROVE  \/ \E x : \A d \in Clients : d # x => toClient'[d] = toClient[d]
         \/ \E e \in Clients : /\ Handles(e, "SendMessageToUser")
                               /\ toClient' = Relay(e, Received(e))
<1> DEFINE One == \E x : \A d \in Clients : d # x => toClient'[d] = toClient[d]
<1>1. toClient \in [Clients -> Seq(ClientMessages)]
  BY DEF SystemInv, SystemTypeOK
<1>2. ASSUME NEW c \in Clients, NEW m, toClient' = With(toClient, c, m)
      PROVE  One
  BY <1>1, <1>2 DEF With
<1>3. ASSUME UNCHANGED toClient PROVE One
  BY <1>3
<1>4. ASSUME NEW c \in Clients, NEW queue, toClient' = [toClient EXCEPT ![c] = queue]
      PROVE  One
  BY <1>1, <1>4
<1>5. ASSUME NEW c \in Clients, Accept(c) \/ NoticeClientGone(c)
      PROVE  One
  BY <1>3, <1>4, <1>5
     DEF Accept, PushConnection, IdentifyConnection, NoticeClientGone, linkVars
<1>6. ASSUME NEW c \in Clients, OnMessage(c), ~OnSendMessageToUser(c)
      PROVE  One
  <2>1. CASE OnServerPing(c) \/ OnDisconnectClient(c)
    BY <1>2, <1>3, <2>1 DEF OnServerPing, OnDisconnectClient
  <2>2. CASE OnRegister(c)
    BY <1>2, <2>2 DEF OnRegister
  <2>3. CASE OnLogin(c)
    BY <1>2, <2>3 DEF OnLogin
  <2>4. CASE OnInitiateConversation(c)
    BY <1>2, <2>4 DEF OnInitiateConversation
  <2>. QED BY <1>6, <2>1, <2>2, <2>3, <2>4 DEF OnMessage
<1>7. ASSUME NEW c \in Clients, OnSendMessageToUser(c)
      PROVE  One \/ (Handles(c, "SendMessageToUser") /\ toClient' = Relay(c, Received(c)))
  BY <1>3, <1>7 DEF OnSendMessageToUser
<1>8. ASSUME NEW c \in Clients, HandleMessage(c) \/ Exit(c) \/ LoseServer(c)
      PROVE  One
  BY <1>4, <1>8 DEF HandleMessage, Exit, LoseServer
<1>9. ASSUME NEW c \in Clients, Keyboard(c) \/ FindServerDown(c)
      PROVE  UNCHANGED toClient
  BY <1>9 DEF Keyboard, PingServer, Ask, Command, Answer, SendMessageToUser, PressQ, Type,
              FindServerDown, linkVars
<1>10. ASSUME Tick \/ UNCHANGED vars PROVE UNCHANGED toClient
  BY <1>10 DEF Tick, vars, linkVars
<1> HIDE DEF One
<1>11. One \/ \E e \in Clients : /\ Handles(e, "SendMessageToUser")
                                 /\ toClient' = Relay(e, Received(e))
  BY <1>3, <1>5, <1>6, <1>7, <1>8, <1>9, <1>10 DEF Next, ServerNext, ClientLoop
<1>. QED BY <1>11 DEF One

\* Of two clients that a line is sent to one is its author.
LEMMA SentToOne ==
  ASSUME SystemInv, SpeakersOK, [Next]_vars, NEW c \in Clients, NEW w \in Clients \ {c},
         NEW m \in In(toClient'[c]), NEW n \in In(toClient'[w]),
         m \notin In(toClient[c]), n \notin In(toClient[w]), Carries(m), Carries(n)
  PROVE  m.text.from = c \/ n.text.from = w
<1>1. toClient'[c] # toClient[c] /\ toClient'[w] # toClient[w]
  OBVIOUS
<1>2. PICK e \in Clients : Handles(e, "SendMessageToUser") /\ toClient' = Relay(e, Received(e))
  BY <1>1, OneServed
<1>3. /\ Received(e) \in ServerMessages /\ Received(e).id = "SendMessageToUser"
      /\ Received(e) \in In(toServer[e])
  <2>1. toServer[e] \in Seq(ServerMessages)
    BY DEF SystemInv, SystemTypeOK
  <2>. QED BY <1>2, <2>1, InQueue DEF Handles, Received
<1>4. Received(e).text.from = e
  BY <1>3 DEF SpeakersOK
<1> DEFINE echo == [id |-> "SendMessageToUser", text |-> Received(e).text]
           forward == [id |-> "ReceiveMessageFromUser", text |-> Received(e).text]
<1>5. PICK forwarded \in [Clients -> Seq(ClientMessages)] :
        /\ forwarded = toClient \/ \E d \in Clients : forwarded = With(toClient, d, forward)
        /\ Relay(e, Received(e)) = With(forwarded, e, echo)
  BY <1>3, RelayEffect DEF SystemInv
<1>6. toClient \in [Clients -> Seq(ClientMessages)]
  BY DEF SystemInv, SystemTypeOK
<1>7. echo \in ClientMessages /\ forward \in ClientMessages
  BY <1>3, ServerMessageFields DEF ClientMessages
<1> HIDE DEF echo, forward
<1>8. PICK r : \A d \in Clients : d # r => forwarded[d] = toClient[d]
  BY <1>5, <1>6 DEF With
<1>9. \A d \in Clients : d # e => toClient'[d] = forwarded[d]
  BY <1>2, <1>5 DEF With
<1>10. ASSUME NEW d \in Clients, d = e, d # r, NEW x \in In(toClient'[d]), x \notin In(toClient[d])
       PROVE  x.text.from = d
  <2>1. toClient'[d] = toClient[d] \/ toClient'[d] = Append(toClient[d], echo)
    BY <1>2, <1>5, <1>8, <1>10 DEF With
  <2>2. In(Append(toClient[d], echo)) = In(toClient[d]) \cup {echo}
    BY <1>6, <1>7, InQueue
  <2>3. x = echo
    BY <1>10, <2>1, <2>2
  <2>. QED BY <1>4, <1>10, <2>3 DEF echo
<1>11. c \in {e, r} /\ w \in {e, r}
  BY <1>1, <1>8, <1>9
<1>. QED BY <1>10, <1>11

\* A line is for one other client, whatever conversations there are.
Holds(c, text) ==
  text \in In(screen[c]) \/ \E m \in In(toClient[c]) : Carries(m) /\ m.text = text

OneViewerOK ==
  \A v \in Clients : \A c \in Clients \ {v} : \A w \in Clients \ {c, v} : \A text :
    text.from = v /\ Holds(c, text) => ~Holds(w, text)

LEMMA HoldsStep ==
  ASSUME SystemInv, [Next]_vars, NEW c \in Clients, NEW text, Holds(c, text)'
  PROVE  \/ Holds(c, text)
         \/ \E m \in In(toClient'[c]) : /\ m \notin In(toClient[c]) /\ SentTo(c, m)
                                        /\ Carries(m) /\ m.text = text
<1>1. CASE text \in In(screen'[c]) /\ text \notin In(screen[c])
  <2>1. /\ HandleMessage(c) /\ Carries(Head(toClient[c]))
        /\ screen'[c] = Append(screen[c], Head(toClient[c]).text)
    BY <1>1, UiStep DEF Carries
  <2>2. toClient[c] \in Seq(ClientMessages) /\ toClient[c] # <<>> /\ screen[c] \in Seq(Texts)
    BY <2>1 DEF HandleMessage, SystemInv, SystemTypeOK
  <2>3. Head(toClient[c]) \in In(toClient[c])
    BY <2>2, InQueue
  <2>4. Head(toClient[c]).text \in Texts
    BY <2>1, <2>3, LinesHaveNumbers
  <2>5. text = Head(toClient[c]).text
    BY <1>1, <2>1, <2>2, <2>4, InQueue
  <2>. QED BY <2>1, <2>3, <2>5 DEF Holds
<1>2. ASSUME NEW m \in In(toClient'[c]), Carries(m), m.text = text
      PROVE  Holds(c, text) \/ (m \notin In(toClient[c]) /\ SentTo(c, m))
  BY <1>2, NewAtClient DEF Holds
<1>. QED BY <1>1, <1>2 DEF Holds

\* What the server sends on nobody else has.
LEMMA SentIsNew ==
  ASSUME SystemInv, SpeakersOK, OrderOK, [Next]_vars, NEW v \in Clients,
         NEW c \in Clients \ {v}, NEW w \in Clients \ {v},
         NEW m, SentTo(c, m), Line(m, v)
  PROVE  ~Holds(w, m.text)
<1> DEFINE h == Head(toServer[v])
<1>1. toServer \in [Clients -> Seq(ServerMessages)]
  BY DEF SystemInv, SystemTypeOK
<1>2. PICK e \in Clients : Handles(e, "SendMessageToUser") /\ m.text = Received(e).text
  BY DEF SentTo, Line, Carries
<1>3. Received(e) \in In(toServer[e]) /\ Received(e).id = "SendMessageToUser"
  BY <1>1, <1>2, InQueue DEF Handles, Received
<1>4. e = v
  BY <1>2, <1>3 DEF SpeakersOK, Line
<1>5. h \in In(toServer[v]) /\ Line(h, v) /\ m.text = h.text
  BY <1>2, <1>3, <1>4 DEF Received, Line, Carries
<1>6. h.text.n \in Nat
  BY <1>5, LinesHaveNumbers DEF Line
<1>7. Between(w, v)
  BY DEF OrderOK
<1>8. \A line \in In(screen[w]) : line # h.text
  BY <1>5, <1>6, <1>7 DEF Between, Line
<1>9. \A x \in In(toClient[w]) : Carries(x) => x.text # h.text
  BY <1>5, <1>6, <1>7 DEF Between, Line
<1>. QED BY <1>5, <1>8, <1>9 DEF Holds

LEMMA OneViewerStep ==
  ASSUME SystemInv, SpeakersOK, OrderOK, OneViewerOK, [Next]_vars
  PROVE  OneViewerOK'
<1> SUFFICES ASSUME NEW v \in Clients, NEW c \in Clients \ {v}, NEW w \in Clients \ {c, v},
                    NEW text, text.from = v, Holds(c, text)', Holds(w, text)'
             PROVE  FALSE
  BY DEF OneViewerOK
<1> DEFINE New(d) == \E m \in In(toClient'[d]) : /\ m \notin In(toClient[d]) /\ SentTo(d, m)
                                                 /\ Carries(m) /\ m.text = text
<1>1. (Holds(c, text) \/ New(c)) /\ (Holds(w, text) \/ New(w))
  BY HoldsStep
<1>2. ~(Holds(c, text) /\ Holds(w, text))
  BY DEF OneViewerOK
<1>3. ASSUME NEW d \in Clients \ {v}, NEW b \in Clients \ {v}, New(d) PROVE ~Holds(b, text)
  BY <1>3, SentIsNew DEF Line
<1>4. ~(New(c) /\ New(w))
  BY SentToOne
<1>. QED BY <1>1, <1>2, <1>3, <1>4

LEMMA OneViewerInvariant == Spec => [](OrderOK /\ OneViewerOK)
<1>1. Init => OneViewerOK
  <2> SUFFICES ASSUME Init PROVE OneViewerOK
    OBVIOUS
  <2>1. \A c \in Clients : toClient[c] = <<>> /\ screen[c] = <<>>
    BY DEF Init, LinkInit, ClientInit
  <2>2. In(<<>>) = {}
    BY DEF In
  <2>. QED BY <2>1, <2>2 DEF OneViewerOK, Holds
<1>2. OneViewerOK /\ OrderOK /\ SpeakersOK /\ SystemInv /\ [Next]_vars => OneViewerOK'
  BY OneViewerStep
<1>. QED BY <1>1, <1>2, OrderInvariant, SystemInvariant, SpeakersInvariant, PTL DEF Spec

-----------------------------------------------------------------------------
(* Every step of the system is one of Messenger or none.                   *)

ChatInv == /\ SystemInv /\ NamedOK /\ SpeakersOK /\ TalkersOK /\ TypedOK
           /\ ConversesLoggedIn /\ OrderOK /\ OneViewerOK

LEMMA ChatInvariant == Spec => []ChatInv
BY SystemInvariant, NamedInvariant, SpeakersInvariant, TalkersInvariant, TypedInvariant,
   ConversesLoggedInAlways, OneViewerInvariant, PTL DEF ChatInv

\* Messenger's variables.
Accs  == {users[i] : i \in DOMAIN users}
Names == [c \in Clients |-> conn[c].clientUsername]
Modes == [c \in Clients |-> ui[c].conversationMode]
Lines == [c \in Clients |-> typed[c]["line"]]

\* What is not touched below a variable of Messenger leaves that as it was.
LEMMA ChatSame ==
  /\ UNCHANGED users => UNCHANGED Accs
  /\ UNCHANGED conn => UNCHANGED Names
  /\ UNCHANGED ui => UNCHANGED Modes
  /\ UNCHANGED typed => UNCHANGED Lines
BY DEF Accs, Names, Modes, Lines

\* The step is one of Messenger: stated with the variables above.
Chats == Chat!MessengerNext \/ UNCHANGED <<Accs, Names, Modes, Lines, screen>>

LEMMA ChatVars == <<Accs, Names, Modes, Lines, screen>> = Chat!messengerVars
BY DEF Chat!messengerVars, Accs, Names, Modes, Lines

LEMMA RegisterChats ==
  ASSUME SystemInv, [Next]_vars, NEW c \in Clients, OnRegister(c), UNCHANGED clientVars
  PROVE  Chats
<1>1. UNCHANGED <<Names, Modes, Lines, screen>>
  BY ChatSame DEF OnRegister, clientVars
<1>2. CASE UNCHANGED users
  BY <1>1, <1>2, ChatSame DEF Chats
<1>3. ASSUME NEW u \in Usernames, NEW p \in Passwords, ~Registered(u),
             users' = Append(users, Document(u, p))
      PROVE  Chats
  <2>1. users \in Seq(Documents) /\ Document(u, p) \in Documents
    BY DEF SystemInv, SystemTypeOK, Document, Documents
  <2>2. Accs' = Accs \cup {Document(u, p)}
    <3>1. In(users') = In(users) \cup {Document(u, p)}
      BY <1>3, <2>1, InQueue
    <3>. QED BY <3>1 DEF In, Accs
  <2>3. \A a \in Accs : a.username # u
    BY <1>3 DEF Accs, Registered
  <2>4. Chat!Enroll
    BY <1>1, <2>2, <2>3 DEF Chat!Enroll, Document, Accs, Names, Modes, Lines
  <2>. QED BY <2>4 DEF Chats, Chat!MessengerNext
<1>. QED BY <1>2, <1>3, UsersStep

LEMMA LoginChats ==
  ASSUME SystemInv, [Next]_vars, NEW c \in Clients, OnLogin(c), UNCHANGED clientVars
  PROVE  Chats
<1> DEFINE u == DetailsUsername(Received(c))
<1>1. UNCHANGED <<Accs, Modes, Lines, screen>>
  BY LoginEffect, ChatSame DEF SystemInv, clientVars
<1>2. CASE UNCHANGED conn
  BY <1>1, <1>2, ChatSame DEF Chats
<1>3. CASE ~UNCHANGED conn
  <2>1. /\ u \in Usernames /\ u # Blank /\ \E p : Matches(u, p)
        /\ conn' = [conn EXCEPT ![c].clientUsername = u, ![c].currentToken = issued + 1]
    BY <1>3, LoginEffect DEF SystemInv
  <2>2. conn \in [Clients -> Connections]
    BY TypesInParts DEF SystemInv, TypeParts, ConnTypes
  <2>3. \E a \in Accs : a.username = u
    BY <2>1 DEF Matches, Document, Accs
  <2> HIDE DEF u
  <2>4. Names' = [Names EXCEPT ![c] = u]
    <3>1. \A d \in Clients : conn'[d].clientUsername = IF d = c THEN u ELSE conn[d].clientUsername
      BY <2>1, <2>2 DEF Connections
    <3>. QED BY <3>1 DEF Names
  <2>5. Chat!TakeName(c)
    BY <1>1, <2>1, <2>3, <2>4 DEF Chat!TakeName, Accs, Names, Modes, Lines
  <2>. QED BY <2>5 DEF Chats, Chat!MessengerNext
<1>. QED BY <1>2, <1>3

LEMMA KeyboardChats ==
  ASSUME SystemInv, ConversesLoggedIn, [Next]_vars, NEW c \in Clients, Keyboard(c),
         UNCHANGED serverVars
  PROVE  Chats
<1>1. SystemTypeOK /\ AskedOK /\ typed \in [Clients -> [Inputs -> Nat]]
  BY DEF SystemInv, SystemTypeOK
<1>2. UNCHANGED <<Accs, Names>>
  BY ChatSame DEF serverVars
<1>3. UNCHANGED screen
  BY DEF Keyboard, PingServer, Ask, Command, Answer, SendMessageToUser, PressQ, Type
<1>4. ASSUME NEW input \in Inputs, input # "line", Type(c, input)
      PROVE  UNCHANGED Lines
  <2>1. \A d \in Clients : typed'[d]["line"] = typed[d]["line"]
    <3>1. "line" \in Inputs
      BY DEF Inputs
    <3>. QED BY <1>1, <1>4, <3>1 DEF Type
  <2>. QED BY <2>1 DEF Lines
<1>6. CASE PingServer(c)
  <2>1. "ping" \in Inputs
    BY DEF Inputs
  <2>. QED BY <1>2, <1>3, <1>4, <1>6, <2>1, ChatSame DEF PingServer, Command, Chats
<1>7. ASSUME NEW input \in Prompts, Ask(c, input) PROVE Chats
  <2>1. input \in Inputs /\ input # "line" /\ Type(c, input)
    BY <1>7 DEF Ask, Command, Inputs, Prompts
  <2>2. UNCHANGED Modes
    BY <1>1, <1>7, AskEffect DEF Modes
  <2>. QED BY <1>2, <1>3, <1>4, <2>1, <2>2 DEF Chats
<1>8. CASE Answer(c)
  <2>1. UNCHANGED Modes /\ UNCHANGED Lines
    BY <1>1, <1>8, AnswerEffect, ChatSame DEF Modes
  <2>. QED BY <1>2, <1>3, <2>1 DEF Chats
<1>9. CASE SendMessageToUser(c)
  <2>1. Type(c, "line") /\ ui[c].conversationMode /\ ui[c].currentToken # NoToken
    BY <1>9 DEF SendMessageToUser, ConversesLoggedIn
  <2>2. UNCHANGED Modes
    BY <1>9, <2>1, ChatSame DEF SendMessageToUser
  <2>3. Lines' = [Lines EXCEPT ![c] = @ + 1]
    <3>1. "line" \in Inputs
      BY DEF Inputs
    <3>2. \A d \in Clients : typed'[d]["line"] = IF d = c THEN typed[d]["line"] + 1 ELSE typed[d]["line"]
      BY <1>1, <2>1, <3>1 DEF Type
    <3>. QED BY <3>2 DEF Lines
  <2>4. Modes[c]
    BY <2>1 DEF Modes
  <2>5. Chat!Speak(c)
    BY <1>2, <1>3, <2>2, <2>3, <2>4 DEF Chat!Speak, Accs, Names, Modes, Lines
  <2>. QED BY <2>5 DEF Chats, Chat!MessengerNext
<1>10. CASE PressQ(c)
  <2>1. UNCHANGED Lines
    <3>1. "q" \in Inputs
      BY DEF Inputs
    <3>. QED BY <1>1, <1>4, <1>10, <3>1, PressQEffect
  <2>2. Modes' = [Modes EXCEPT ![c] = FALSE]
    <3>1. ui'[c].conversationMode = FALSE
      BY <1>1, <1>10, PressQEffect DEF Uis
    <3>. QED BY <1>1, <1>10, <3>1, PressQEffect DEF Modes
  <2>3. Chat!Quit(c)
    BY <1>2, <1>3, <2>1, <2>2 DEF Chat!Quit, Accs, Names, Modes, Lines
  <2>. QED BY <2>3 DEF Chats, Chat!MessengerNext
<1>. QED BY <1>6, <1>7, <1>8, <1>9, <1>10 DEF Keyboard

\* A line is printed: it is fresh.
LEMMA PrintChats ==
  ASSUME ChatInv, NEW c \in Clients, toClient[c] # <<>>, NEW m, m = Head(toClient[c]),
         Printed(c, m), screen' = [screen EXCEPT ![c] = Append(@, m.text)],
         UNCHANGED <<Accs, Names, Modes, Lines>>
  PROVE  Chats
<1>1. /\ toClient[c] \in Seq(ClientMessages) /\ m \in In(toClient[c]) /\ Carries(m)
      /\ screen \in [Clients -> Seq(Texts)]
  <2>1. toClient[c] \in Seq(ClientMessages) /\ screen \in [Clients -> Seq(Texts)]
    BY DEF ChatInv, SystemInv, SystemTypeOK
  <2>. QED BY <2>1, InQueue DEF Printed, Carries
<1>2. PICK v \in Clients : m.text.from = v
  BY <1>1 DEF ChatInv, TypedOK, Typed
<1>3. PICK n \in 1 .. Lines[v] : m.text.n = n
  BY <1>1, <1>2 DEF ChatInv, TypedOK, Typed, Lines
<1>4. m.text = Chat!Line(v, n)
  <2>1. m.text \in Texts
    BY <1>1, LinesHaveNumbers DEF ChatInv
  <2>. QED BY <1>2, <1>3, <2>1 DEF Texts, Chat!Line
<1>5. Names[v] # Blank
  <2>1. Vouched(v)
    BY <1>1, <1>2 DEF ChatInv, SpeakersOK
  <2>. QED BY <2>1 DEF ChatInv, NamedOK, Names
<1>6. ASSUME v # c
      PROVE  Modes[c] /\ Chat!Fresh(c, v, n)
  <2>1. ui[c].conversationMode
    BY <1>1, <1>2, <1>6 DEF Printed, ChatInv, TypedOK
  <2>2. \A line \in In(screen[c]) : line.from = v => line.n < n
    BY <1>1, <1>2, <1>3, <1>6 DEF ChatInv, OrderOK, Between, Line
  <2>3. Holds(c, m.text)
    BY <1>1 DEF Holds
  <2>4. \A w \in Clients \ {c, v} : m.text \notin In(screen[w])
    BY <1>2, <1>6, <2>3 DEF ChatInv, OneViewerOK, Holds
  <2>5. \A w \in Clients : Chat!ShownTo(w) = In(screen[w])
    BY DEF Chat!ShownTo, In
  <2>6. Chat!Fresh(c, v, n)
    BY <1>4, <2>2, <2>4, <2>5 DEF Chat!Fresh
  <2>. QED BY <2>1, <2>6 DEF Modes
<1>7. Chat!Show(c)
  <2>1. screen' = [screen EXCEPT ![c] = Append(@, Chat!Line(v, n))]
    BY <1>4
  <2>. QED BY <1>3, <1>5, <1>6, <2>1 DEF Chat!Show, Accs, Names, Modes, Lines
<1>. QED BY <1>7 DEF Chats, Chat!MessengerNext

LEMMA HandleMessageChats ==
  ASSUME ChatInv, [Next]_vars, NEW c \in Clients, HandleMessage(c), UNCHANGED serverVars
  PROVE  Chats
<1> DEFINE m == Head(toClient[c])
<1>1. UNCHANGED <<Accs, Names, Lines>> /\ toClient[c] # <<>>
  BY ChatSame DEF serverVars, HandleMessage
<1>2. toClient[c] \in Seq(ClientMessages) /\ m \in In(toClient[c])
  <2>1. toClient[c] \in Seq(ClientMessages)
    BY DEF ChatInv, SystemInv, SystemTypeOK
  <2>. QED BY <1>1, <2>1, InQueue
<1>3. ui \in [Clients -> Uis]
  BY TypesInParts DEF ChatInv, SystemInv, TypeParts, UiTypes
<1>4. CASE Printed(c, m)
  <2>1. ~TokenTaken(m) /\ ~Converses(m)
    BY <1>4 DEF Printed, TokenTaken, Converses
  <2>2. UNCHANGED ui /\ screen' = [screen EXCEPT ![c] = Append(@, m.text)]
    BY <1>4, <2>1 DEF HandleMessage
  <2>. QED BY <1>1, <1>4, <2>2, ChatSame, PrintChats
<1>5. CASE ~Printed(c, m) /\ Converses(m)
  <2>1. ui' = [ui EXCEPT ![c].currentConversatorID = m.to, ![c].conversationMode = TRUE]
        /\ UNCHANGED screen
    BY <1>5 DEF HandleMessage, TokenTaken, Converses
  <2>2. Modes' = [Modes EXCEPT ![c] = TRUE]
    BY <1>3, <2>1 DEF Modes, Uis
  <2>3. Names[c] # Blank
    BY <1>2, <1>5 DEF ChatInv, TalkersOK, NamedOK, Converses, Names
  <2>4. Chat!Enter(c)
    BY <1>1, <2>1, <2>2, <2>3 DEF Chat!Enter, Accs, Names, Modes, Lines
  <2>. QED BY <2>4 DEF Chats, Chat!MessengerNext
<1>6. CASE ~Printed(c, m) /\ TokenTaken(m)
  <2>1. ui' = [ui EXCEPT ![c].currentToken = m.token] /\ UNCHANGED screen
    BY <1>6 DEF HandleMessage, TokenTaken, Converses
  <2>2. UNCHANGED Modes
    BY <1>3, <2>1 DEF Modes, Uis
  <2>. QED BY <1>1, <2>1, <2>2 DEF Chats
<1>7. CASE ~Printed(c, m) /\ ~TokenTaken(m) /\ ~Converses(m)
  <2>1. UNCHANGED ui /\ UNCHANGED screen
    BY <1>7 DEF HandleMessage
  <2>. QED BY <1>1, <2>1, ChatSame DEF Chats
<1>. QED BY <1>4, <1>5, <1>6, <1>7

LEMMA ChatStep == ASSUME ChatInv, [Next]_vars PROVE Chats
<1>1. SystemInv /\ ConversesLoggedIn
  BY DEF ChatInv
<1>2. ASSUME NEW c \in Clients, UNCHANGED clientVars,
             \/ Accept(c) \/ NoticeClientGone(c) \/ OnServerPing(c) \/ OnDisconnectClient(c)
             \/ OnInitiateConversation(c) \/ OnSendMessageToUser(c)
      PROVE  Chats
  <2>1. UNCHANGED users
    BY <1>2 DEF Accept, PushConnection, IdentifyConnection, NoticeClientGone, OnServerPing,
                OnDisconnectClient, OnInitiateConversation, OnSendMessageToUser
  <2>2. UNCHANGED Names
    <3>1. conn \in [Clients -> Connections]
      BY <1>1, TypesInParts DEF SystemInv, TypeParts, ConnTypes
    <3>2. \A d \in Clients : conn'[d].clientUsername = conn[d].clientUsername
      BY <1>2, <3>1 DEF Accept, PushConnection, IdentifyConnection, NoticeClientGone,
             OnServerPing, OnDisconnectClient, OnInitiateConversation, OnSendMessageToUser,
             Connections
    <3>. QED BY <3>2 DEF Names
  <2>. QED BY <1>2, <2>1, <2>2, ChatSame DEF clientVars, Chats
<1>3. ASSUME NEW c \in Clients, FindServerDown(c), UNCHANGED serverVars
      PROVE  Chats
  <2>1. UNCHANGED Modes /\ UNCHANGED <<typed, screen>>
    BY <1>1, <1>3, FindServerDownEffect DEF Modes, SystemInv
  <2>. QED BY <1>3, <2>1, ChatSame DEF serverVars, Chats
<1>4. ASSUME UNCHANGED <<users, conn, clientVars>> PROVE Chats
  BY <1>4, ChatSame DEF clientVars, Chats
<1>5. ASSUME NEW c \in Clients, (Exit(c) /\ UNCHANGED serverVars) \/ LoseServer(c)
      PROVE  UNCHANGED <<users, conn, clientVars>>
  BY <1>5 DEF Exit, LoseServer, serverVars
<1>6. ASSUME (Tick /\ UNCHANGED clientVars) \/ UNCHANGED vars
      PROVE  UNCHANGED <<users, conn, clientVars>>
  BY <1>6 DEF Tick, vars, serverVars
<1>. QED BY <1>1, <1>2, <1>3, <1>4, <1>5, <1>6, RegisterChats, LoginChats, KeyboardChats,
            HandleMessageChats DEF Next, ServerNext, OnMessage, ClientLoop

\* The whole of server, connections and client programs implements Messenger:
\* an account, a name, a conversation, a line typed or a line seen comes about
\* in a step that Messenger allows, and no other step of the threads and the
\* programs is noticed by the users.
THEOREM KeepsPromisesAlways == Spec => KeepsPromises
<1>1. Init => Chat!MessengerInit
  BY DEF Init, ServerInit, ClientInit, NewConnection, Inputs, Chat!MessengerInit
<1>2. ChatInv /\ [Next]_vars => [Chat!MessengerNext]_(Chat!messengerVars)
  BY ChatStep, ChatVars DEF Chats, Accs, Names, Modes, Lines, Chat!messengerVars
<1>. QED BY <1>1, <1>2, ChatInvariant, PTL DEF Spec, KeepsPromises, Chat!MessengerSpec

\* The comparison of ValidateToken never drops a token: none is later than now.
THEOREM TokensLastAlways == Spec => TokensLast
<1>1. SystemInv /\ TokensKnown /\ [Next]_vars
        => [\A t \in DOMAIN tokens : ValidToken(t) /\ t \in DOMAIN tokens']_vars
  <2> SUFFICES ASSUME SystemInv, TokensKnown, [Next]_vars, NEW t \in DOMAIN tokens
               PROVE  ValidToken(t) /\ t \in DOMAIN tokens'
    OBVIOUS
  <2>1. ValidToken(t)
    <3>1. tokens[t] \in 0..now /\ now \in Nat
      BY DEF SystemInv, SystemTypeOK
    <3>. QED BY <3>1, ServerAssumption DEF ValidToken, Expired
  <2>2. t \in DOMAIN tokens'
    BY TokenStep
  <2>. QED BY <2>1, <2>2
<1>. QED BY <1>1, SystemInvariant, TokensKnownInvariant, PTL DEF Spec, TokensLast

=============================================================================
