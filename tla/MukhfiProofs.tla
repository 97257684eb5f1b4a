---------------------------- MODULE MukhfiProofs ----------------------------
(***************************************************************************)
(* The types of the whole system and the order of its replies, for any     *)
(* number of clients, usernames and messages. The two hold together only:  *)
(* a message of a client has its type since who is asked whom to talk to   *)
(* has a token (AskedOK), and a reply always finds a request it answers at *)
(* the head of awaiting (AnswersOK, the strengthening of AnsweredInOrder). *)
(***************************************************************************)
EXTENDS Mukhfi, SequenceTheorems, FiniteSetTheorems, TLAPS

-----------------------------------------------------------------------------
(* Messages.                                                               *)

\* What was a message before more tokens were given out still is one.
LEMMA MessagesGrow ==
  ASSUME issued \in Nat, issued' \in Nat, issued <= issued'
  PROVE  /\ Tokens \subseteq Tokens'
         /\ ServerMessages \subseteq ServerMessages'
         /\ ClientMessages \subseteq ClientMessages'
<1>1. Tokens \subseteq Tokens'
  BY DEF Tokens
<1>2. ServerMessages \subseteq ServerMessages'
  BY <1>1 DEF ServerMessages
<1>3. ClientMessages \subseteq ClientMessages'
  BY <1>1 DEF ClientMessages
<1>. QED BY <1>1, <1>2, <1>3

LEMMA ServerMessageFields ==
  ASSUME NEW m \in ServerMessages
  PROVE  /\ m.id \in Requests \cup {"DisconnectClient"}
         /\ m.id \in {"Login", "Register"} => m.username \in Usernames /\ m.password \in Passwords
         /\ m.id = "InitiateConversation" => m.token \in Tokens /\ m.username \in Usernames
         /\ m.id = "SendMessageToUser" => m.token \in Tokens /\ m.to \in Nat /\ m.text \in Texts
BY DEF ServerMessages, Requests

LEMMA ClientMessageFields ==
  ASSUME NEW m \in ClientMessages
  PROVE  /\ m.id \in Requests \cup {"ServerAccept", "ReceiveMessageFromUser"}
         /\ m.id = "Login" => m.token \in Tokens \cup {NoToken}
         /\ m.id = "InitiateConversation" => m.to \in Nat \cup {Failed}
         /\ m.id \in {"SendMessageToUser", "ReceiveMessageFromUser"} => m.text \in Texts
BY DEF ClientMessages, Requests

LEMMA AcceptMessage == [id |-> "ServerAccept"] \in ClientMessages
BY DEF ClientMessages

LEMMA PingMessage == ASSUME NEW m \in ServerMessages, m.id = "ServerPing" PROVE m \in ClientMessages
BY DEF ClientMessages, ServerMessages

LEMMA LoginMessage == ASSUME NEW t \in Tokens \cup {NoToken}, NEW k \in Codes
  PROVE LoginReply(t, k) \in ClientMessages
BY DEF ClientMessages, LoginReply

\* A set of numbers has a least one, which Least chooses.
LEMMA MinimumOfNat ==
  ASSUME NEW R, IsWellFoundedOn(R, Nat), NEW S, S \subseteq Nat, S # {}
  PROVE  \E i \in S : \A j \in S : ~ (<<j, i>> \in R)
BY WFMin

LEMMA LessWellFounded ==
  \E R : /\ IsWellFoundedOn(R, Nat)
         /\ \A j, i \in Nat : ~(<<j, i>> \in R) => i <= j
<1> DEFINE Less == {pair \in Nat \X Nat : pair[1] < pair[2]}
<1>1. OpToRel(<, Nat) = Less
  BY DEF OpToRel
<1>2. IsWellFoundedOn(Less, Nat)
  BY <1>1, NatLessThanWellFounded, Zenon
<1>3. \A j, i \in Nat : ~(<<j, i>> \in Less) => i <= j
  OBVIOUS
<1> HIDE DEF Less
<1>. QED BY <1>2, <1>3

LEMMA LeastOfNat ==
  ASSUME NEW S, S \subseteq Nat, S # {}
  PROVE  Least(S) \in S
<1>1. PICK R : /\ IsWellFoundedOn(R, Nat)
               /\ \A j, i \in Nat : ~(<<j, i>> \in R) => i <= j
  BY LessWellFounded
<1>2. \E i \in S : \A j \in S : ~ (<<j, i>> \in R)
  BY <1>1, MinimumOfNat, Zenon
<1>. QED BY <1>1, <1>2 DEF Least

-----------------------------------------------------------------------------
(* Types.                                                                  *)

LinkTypes ==
  /\ toServer \in [Clients -> Seq(ServerMessages)]
  /\ toClient \in [Clients -> Seq(ClientMessages)]
  /\ clientOpen \in [Clients -> BOOLEAN]

Connections == [id : Nat, clientUsername : Usernames, currentToken : Tokens \cup {NoToken},
                open : BOOLEAN]

ConnTypes ==
  /\ conn \in [Clients -> Connections]
  /\ m_deqConnections \in Seq(Clients)
  /\ nIDCounter \in Nat

TokenTypes ==
  /\ tokens \in [DOMAIN tokens -> 0..now] /\ DOMAIN tokens \subseteq Tokens
  /\ issued \in Nat
  /\ unrecorded \subseteq Tokens
  /\ now \in 0..MaxTime

Uis == [commandMode : BOOLEAN, conversationMode : BOOLEAN, prompt : Prompts \cup {"none"},
        currentToken : Tokens \cup {NoToken}, currentConversatorID : Nat, bQuit : BOOLEAN]

UiTypes ==
  /\ ui \in [Clients -> Uis]
  /\ typed \in [Clients -> [Inputs -> Nat]]
  /\ awaiting \in [Clients -> Seq(Requests)]
  /\ screen \in [Clients -> Seq(Texts)]

TypeParts == users \in Seq(Documents) /\ LinkTypes /\ ConnTypes /\ TokenTypes
             /\ terminated \in BOOLEAN /\ UiTypes

LEMMA TypesInParts == (SystemTypeOK <=> TypeParts) /\ (SystemTypeOK' <=> TypeParts')
BY DEF SystemTypeOK, TypeParts, LinkTypes, ConnTypes, TokenTypes, UiTypes, Connections, Uis

\* Nothing but issued enters the sets of the types.
LEMMA SetsGrow ==
  ASSUME issued \in Nat, issued' \in Nat, issued <= issued'
  PROVE  /\ Tokens \subseteq Tokens'
         /\ Seq(ServerMessages) \subseteq Seq(ServerMessages')
         /\ Seq(ClientMessages) \subseteq Seq(ClientMessages')
         /\ Connections \subseteq Connections'
         /\ Uis \subseteq Uis'
<1>1. Connections \subseteq Connections'
  BY MessagesGrow DEF Connections
<1>2. Uis \subseteq Uis'
  BY MessagesGrow DEF Uis
<1>. QED BY <1>1, <1>2, MessagesGrow, SeqMonotonic

LEMMA WithType ==
  ASSUME NEW M, NEW queue \in [Clients -> Seq(M)], NEW c \in Clients, NEW m \in M
  PROVE  /\ With(queue, c, m) \in [Clients -> Seq(M)]
         /\ \A d \in Clients : \/ With(queue, c, m)[d] = queue[d]
                               \/ d = c /\ With(queue, c, m)[d] = Append(queue[d], m)
<1>1. Append(queue[c], m) \in Seq(M)
  BY AppendProperties
<1>2. CASE Reaches(c)
  BY <1>1, <1>2 DEF With
<1>3. CASE ~Reaches(c)
  BY <1>3 DEF With
<1>. QED BY <1>2, <1>3 DEF Reaches

LEMMA SentType ==
  ASSUME SystemTypeOK, NEW c \in Clients, NEW m \in ClientMessages
  PROVE  With(toClient, c, m) \in [Clients -> Seq(ClientMessages)]
<1>1. toClient \in [Clients -> Seq(ClientMessages)]
  BY DEF SystemTypeOK
<1>. QED BY <1>1, WithType

LEMMA HandlesEffect ==
  ASSUME LinkTypes, NEW c \in Clients, NEW kind, Handles(c, kind)
  PROVE  /\ toServer' \in [Clients -> Seq(ServerMessages)]
         /\ Received(c) \in ServerMessages
         /\ Received(c).id = kind
         /\ \A d \in Clients : d # c => toServer'[d] = toServer[d]
         /\ toServer'[c] = Tail(toServer[c])
         /\ toServer[c] # <<>>
         /\ ~terminated /\ conn[c].id # 0
         /\ UNCHANGED <<clientOpen, acceptVars, now>>
<1>1. toServer[c] \in Seq(ServerMessages) /\ toServer[c] # <<>>
  BY DEF LinkTypes, Handles
<1>2. Head(toServer[c]) \in ServerMessages /\ Tail(toServer[c]) \in Seq(ServerMessages)
  BY <1>1, HeadTailProperties
<1>. QED BY <1>1, <1>2 DEF LinkTypes, Handles, Received

\* What a step does not touch keeps its type, also when a token is issued.
LEMMA Kept ==
  ASSUME SystemTypeOK, issued' \in Nat, issued <= issued'
  PROVE  /\ UNCHANGED toServer => toServer' \in [Clients -> Seq(ServerMessages')]
         /\ UNCHANGED toClient => toClient' \in [Clients -> Seq(ClientMessages')]
         /\ UNCHANGED clientOpen => clientOpen' \in [Clients -> BOOLEAN]
         /\ UNCHANGED users => users' \in Seq(Documents)
         /\ UNCHANGED <<conn, acceptVars>> => ConnTypes'
         /\ UNCHANGED <<tokenVars, now>> => TokenTypes'
         /\ UNCHANGED clientVars => UiTypes'
         /\ UNCHANGED terminated => terminated' \in BOOLEAN
<1>1. /\ Seq(ServerMessages) \subseteq Seq(ServerMessages')
      /\ Seq(ClientMessages) \subseteq Seq(ClientMessages')
      /\ Connections \subseteq Connections' /\ Uis \subseteq Uis'
  BY SetsGrow DEF SystemTypeOK
<1>2. UNCHANGED toServer => toServer' \in [Clients -> Seq(ServerMessages')]
  BY <1>1 DEF SystemTypeOK
<1>3. UNCHANGED toClient => toClient' \in [Clients -> Seq(ClientMessages')]
  BY <1>1 DEF SystemTypeOK
<1>4. UNCHANGED <<conn, acceptVars>> => ConnTypes'
  BY <1>1, TypesInParts DEF TypeParts, ConnTypes, acceptVars
<1>5. UNCHANGED <<tokenVars, now>> => TokenTypes'
  BY TypesInParts DEF TypeParts, TokenTypes, tokenVars, issueVars, Tokens
<1>6. UNCHANGED clientVars => UiTypes'
  BY <1>1, TypesInParts DEF TypeParts, UiTypes, clientVars
<1>. QED BY <1>2, <1>3, <1>4, <1>5, <1>6 DEF SystemTypeOK

\* The steps of the io_context thread and the clock.
LEMMA AcceptTypes ==
  ASSUME SystemTypeOK, NEW c \in Clients, Accept(c) \/ NoticeClientGone(c), UNCHANGED clientVars
  PROVE  SystemTypeOK'
<1>1. issued' = issued /\ issued \in Nat /\ UNCHANGED <<users, toServer, clientOpen, tokenVars, now, terminated>>
  BY DEF Accept, PushConnection, IdentifyConnection, NoticeClientGone, SystemTypeOK,
         linkVars, tokenVars, issueVars, acceptVars
<1>2. Connections' = Connections /\ ClientMessages' = ClientMessages
  BY <1>1 DEF Connections, ClientMessages, Tokens
<1>3. toClient' \in [Clients -> Seq(ClientMessages)]
  <2>1. CASE PushConnection(c)
    <3>1. Append(toClient[c], [id |-> "ServerAccept"]) \in Seq(ClientMessages)
      BY AcceptMessage, AppendProperties DEF SystemTypeOK
    <3>. QED BY <2>1, <3>1 DEF PushConnection, SystemTypeOK
  <2>2. CASE IdentifyConnection(c) \/ NoticeClientGone(c)
    BY <2>2 DEF IdentifyConnection, NoticeClientGone, SystemTypeOK, linkVars
  <2>. QED BY <2>1, <2>2 DEF Accept
<1>4. ConnTypes'
  <2>1. CASE PushConnection(c)
    <3>1. Append(m_deqConnections, c) \in Seq(Clients)
      BY AppendProperties DEF SystemTypeOK
    <3>2. conn' \in [Clients -> Connections]
      BY <2>1, TypesInParts DEF TypeParts, PushConnection, ConnTypes, Connections
    <3>. QED BY <1>2, <2>1, <3>1, <3>2, TypesInParts DEF TypeParts, PushConnection, ConnTypes
  <2>2. CASE IdentifyConnection(c)
    <3>1. conn' \in [Clients -> Connections]
      BY <2>2, TypesInParts DEF TypeParts, IdentifyConnection, ConnTypes, Connections
    <3>. QED BY <1>2, <2>2, <3>1, TypesInParts DEF TypeParts, IdentifyConnection, ConnTypes
  <2>3. CASE NoticeClientGone(c)
    <3>1. conn' \in [Clients -> Connections]
      BY <2>3, TypesInParts DEF TypeParts, NoticeClientGone, ConnTypes, Connections
    <3>. QED BY <1>2, <2>3, <3>1, TypesInParts DEF TypeParts, NoticeClientGone, ConnTypes, acceptVars
  <2>. QED BY <2>1, <2>2, <2>3 DEF Accept
<1>. QED BY <1>1, <1>2, <1>3, <1>4, Kept, TypesInParts DEF TypeParts, LinkTypes

LEMMA TickTypes == SystemTypeOK /\ Tick /\ UNCHANGED clientVars => SystemTypeOK'
<1> SUFFICES ASSUME SystemTypeOK, Tick, UNCHANGED clientVars PROVE SystemTypeOK'
  OBVIOUS
<1>1. issued' = issued /\ issued \in Nat
  BY DEF Tick, SystemTypeOK, tokenVars, issueVars
<1>2. now' \in 0..MaxTime /\ now <= now'
  BY ServerAssumption DEF Tick, SystemTypeOK
<1>3. TokenTypes'
  BY <1>1, <1>2, TypesInParts DEF TypeParts, TokenTypes, Tick, tokenVars, issueVars, Tokens
<1>. QED BY <1>1, <1>3, Kept, TypesInParts DEF TypeParts, LinkTypes, Tick, linkVars

\* What a login and a registration can come to; no one logs in by no name.
LEMMA Verdicts ==
  ASSUME NEW u \in Usernames, NEW p
  PROVE  /\ ValidateUsername(u) \in {1, 2, 4, 8} /\ ValidatePassword(p) \in {1, 32}
         /\ Rejection(u, p) \in Codes
         /\ ~Acceptable(u, p) => Rejection(u, p) # Success
         /\ Acceptable(u, p) => p \in Passwords
<1>1. ValidateUsername(u) \in {1, 2, 4, 8}
  BY AccountsAssumption
     DEF ValidateUsername, Success, UsernameLong, UsernameShort, UsernameInvalidCharacters
<1>2. ValidatePassword(p) \in {1, 32}
  BY DEF ValidatePassword, Success, PasswordNotHashed
<1>3. Acceptable(u, p) => p \in Passwords
  BY DEF Acceptable, ValidatePassword, Success, PasswordNotHashed
<1>4. Rejection(u, p) \in Codes /\ (~Acceptable(u, p) => Rejection(u, p) # Success)
  BY <1>1, <1>2 DEF Rejection, Acceptable, Codes, Success
<1>. QED BY <1>1, <1>2, <1>3, <1>4

LEMMA LoginCodes ==
  ASSUME NEW u \in Usernames, NEW p, NEW code \in LoginUser(u, p)
  PROVE  code \in Codes /\ (code = Success => Matches(u, p) /\ u # Blank)
<1>1. CASE ~Acceptable(u, p)
  BY <1>1, Verdicts DEF LoginUser
<1>2. CASE Acceptable(u, p)
  <2>1. code \in Codes /\ (code = Success => Matches(u, p))
    BY <1>2 DEF LoginUser, Codes, Success, DatabaseError, PasswordNoMatchFound, UserAlreadyExists
  <2>2. ValidateUsername(Blank) = UsernameShort
    BY AccountsAssumption DEF ValidateUsername
  <2>3. u # Blank
    BY <1>2, <2>2 DEF Acceptable, Success, UsernameShort
  <2>. QED BY <2>1, <2>3
<1>. QED BY <1>1, <1>2

LEMMA RegisterResults ==
  ASSUME users \in Seq(Documents), NEW u \in Usernames, NEW p, NEW r \in RegisterUser(u, p)
  PROVE  /\ r.code \in Codes /\ r.users \in Seq(Documents)
         /\ \/ r.users = users
            \/ ~Registered(u) /\ Document(u, p) \in Documents /\ r.users = Append(users, Document(u, p))
<1>1. CASE ~Acceptable(u, p)
  BY <1>1, Verdicts DEF RegisterUser
<1>2. CASE Acceptable(u, p)
  <2>1. Document(u, p) \in Documents
    BY <1>2, Verdicts DEF Document, Documents
  <2>2. Append(users, Document(u, p)) \in Seq(Documents)
    BY <2>1, AppendProperties
  <2>3. /\ r.code \in {DatabaseError, UserAlreadyExists, Success}
        /\ r.users = users \/ (~Registered(u) /\ r.users = Append(users, Document(u, p)))
    BY <1>2 DEF RegisterUser
  <2>. QED BY <2>1, <2>2, <2>3 DEF Codes, DatabaseError, UserAlreadyExists, Success
<1>. QED BY <1>1, <1>2

\* Every answer is a message of the client's.
LEMMA IdOfType == ASSUME SystemTypeOK, NEW u PROVE IdOf(u) \in Nat \cup {Failed}
<1>1. CASE Named(u) = {}
  BY <1>1 DEF IdOf
<1>2. CASE Named(u) # {}
  <2>1. Named(u) \subseteq DOMAIN m_deqConnections
    BY DEF Named
  <2>2. m_deqConnections \in Seq(Clients)
    BY DEF SystemTypeOK
  <2>3. DOMAIN m_deqConnections \subseteq Nat
    BY <2>2
  <2>4. Least(Named(u)) \in DOMAIN m_deqConnections
    BY <1>2, <2>1, <2>3, LeastOfNat
  <2>5. m_deqConnections[Least(Named(u))] \in Clients
    BY <2>2, <2>4
  <2>6. conn[m_deqConnections[Least(Named(u))]].id \in Nat
    BY <2>5 DEF SystemTypeOK
  <2>. QED BY <1>2, <2>6 DEF IdOf
<1>. QED BY <1>1, <1>2

\* A step of OnMessage that issues no token and closes at most a connection:
\* what is left to show is the accounts, the answers and the tokens' times.
LEMMA HandledTypes ==
  ASSUME SystemTypeOK, NEW c \in Clients, NEW kind, Handles(c, kind), UNCHANGED clientVars,
         UNCHANGED issueVars, users' \in Seq(Documents),
         toClient' \in [Clients -> Seq(ClientMessages)],
         conn' \in [Clients -> Connections],
         tokens' \in [DOMAIN tokens' -> 0..now], DOMAIN tokens' \subseteq DOMAIN tokens,
         terminated' \in BOOLEAN
  PROVE  SystemTypeOK'
<1>1. issued' = issued /\ issued \in Nat /\ unrecorded' = unrecorded
  BY DEF SystemTypeOK, issueVars
<1>2. LinkTypes
  BY TypesInParts DEF TypeParts
<1>3. /\ toServer' \in [Clients -> Seq(ServerMessages)]
      /\ UNCHANGED <<clientOpen, acceptVars, now>>
  BY <1>2, HandlesEffect
<1>4. /\ Connections' = Connections /\ ClientMessages' = ClientMessages
      /\ ServerMessages' = ServerMessages /\ Tokens' = Tokens
  BY <1>1 DEF Connections, ClientMessages, ServerMessages, Tokens
<1>5. LinkTypes'
  BY <1>2, <1>3, <1>4 DEF LinkTypes
<1>6. ConnTypes'
  BY <1>3, <1>4, TypesInParts DEF TypeParts, ConnTypes, acceptVars
<1>7. TokenTypes'
  BY <1>1, <1>3, <1>4, TypesInParts DEF TypeParts, TokenTypes
<1>8. UiTypes'
  BY <1>1, Kept
<1>. QED BY <1>5, <1>6, <1>7, <1>8, TypesInParts DEF TypeParts

LEMMA ValidateTokenEffect ==
  ASSUME SystemTypeOK, NEW t, ValidateToken(t)
  PROVE  /\ tokens' \in [DOMAIN tokens' -> 0..now]
         /\ DOMAIN tokens' = IF ValidToken(t) THEN DOMAIN tokens ELSE DOMAIN tokens \ {t}
         /\ ValidToken(t) <=> t \in DOMAIN tokens
<1>1. now \in Nat /\ tokens \in [DOMAIN tokens -> 0..now]
  BY DEF SystemTypeOK
<1>2. ValidToken(t) <=> t \in DOMAIN tokens
  <2>1. t \in DOMAIN tokens => tokens[t] \in 0..now
    BY <1>1
  <2>. QED BY <1>1, <2>1, ServerAssumption DEF ValidToken, Expired
<1>3. CASE t \in DOMAIN tokens
  BY <1>1, <1>2, <1>3 DEF ValidateToken
<1>4. CASE t \notin DOMAIN tokens
  BY <1>1, <1>2, <1>4 DEF ValidateToken
<1>. QED BY <1>2, <1>3, <1>4

\* The text of a login or a registration has a username in it.
LEMMA DetailsType ==
  ASSUME NEW m \in ServerMessages, m.id \in {"Login", "Register"}
  PROVE  DetailsUsername(m) \in Usernames
BY ServerMessageFields, ServerAssumption DEF DetailsUsername

LEMMA PingTypes == ASSUME SystemTypeOK, NEW c \in Clients, OnServerPing(c), UNCHANGED clientVars
                   PROVE  SystemTypeOK'
<1>1. Handles(c, "ServerPing") /\ UNCHANGED <<users, conn, tokens, issueVars, terminated>>
      /\ toClient' = With(toClient, c, Received(c))
  BY DEF OnServerPing, tokenVars
<1>2. Received(c) \in ClientMessages
  BY <1>1, HandlesEffect, PingMessage, TypesInParts DEF TypeParts
<1>3. toClient' \in [Clients -> Seq(ClientMessages)]
  BY <1>1, <1>2, SentType
<1>. QED BY <1>1, <1>3, HandledTypes DEF SystemTypeOK, Connections

LEMMA DisconnectTypes ==
  ASSUME SystemTypeOK, NEW c \in Clients, OnDisconnectClient(c), UNCHANGED clientVars
  PROVE  SystemTypeOK'
<1>1. Handles(c, "DisconnectClient") /\ UNCHANGED <<users, toClient, tokens, issueVars, terminated>>
  BY DEF OnDisconnectClient, tokenVars
<1>2. conn' \in [Clients -> Connections]
  BY TypesInParts DEF TypeParts, ConnTypes, Connections, OnDisconnectClient
<1>. QED BY <1>1, <1>2, HandledTypes DEF SystemTypeOK

LEMMA RegisterTypes ==
  ASSUME SystemTypeOK, NEW c \in Clients, OnRegister(c), UNCHANGED clientVars
  PROVE  SystemTypeOK'
<1>1. Handles(c, "Register") /\ UNCHANGED <<conn, tokens, issueVars, terminated>>
  BY DEF OnRegister, tokenVars
<1>2. DetailsUsername(Received(c)) \in Usernames
  BY <1>1, HandlesEffect, DetailsType, TypesInParts DEF TypeParts
<1>3. PICK r \in RegisterUser(DetailsUsername(Received(c)), DetailsPassword(Received(c))) :
        users' = r.users /\ toClient' = With(toClient, c, [id |-> "Register", code |-> r.code])
  BY DEF OnRegister
<1>4. r.code \in Codes /\ r.users \in Seq(Documents)
  BY <1>2, RegisterResults DEF SystemTypeOK
<1>5. [id |-> "Register", code |-> r.code] \in ClientMessages
  BY <1>4 DEF ClientMessages
<1>6. toClient' \in [Clients -> Seq(ClientMessages)]
  BY <1>3, <1>5, SentType
<1>. QED BY <1>1, <1>3, <1>4, <1>6, HandledTypes DEF SystemTypeOK, Connections

LEMMA InitiateTypes ==
  ASSUME SystemTypeOK, NEW c \in Clients, OnInitiateConversation(c), UNCHANGED clientVars
  PROVE  SystemTypeOK'
<1>1. Handles(c, "InitiateConversation") /\ UNCHANGED <<users, conn, issueVars, terminated>>
  BY DEF OnInitiateConversation
<1>2. PICK answer :
        /\ answer \in {IdOf(Received(c).username), Failed}
        /\ ValidateToken(Received(c).token)
        /\ toClient' = With(toClient, c, [id |-> "InitiateConversation", to |-> answer])
  BY DEF OnInitiateConversation
<1>3. answer \in Nat \cup {Failed}
  BY <1>2, IdOfType
<1>4. [id |-> "InitiateConversation", to |-> answer] \in ClientMessages
  BY <1>3 DEF ClientMessages
<1>5. toClient' \in [Clients -> Seq(ClientMessages)]
  BY <1>2, <1>4, SentType
<1>6. tokens' \in [DOMAIN tokens' -> 0..now] /\ DOMAIN tokens' \subseteq DOMAIN tokens
  BY <1>2, ValidateTokenEffect
<1>. QED BY <1>1, <1>5, <1>6, HandledTypes DEF SystemTypeOK, Connections

\* A line goes to at most one other connection, and back.
LEMMA RelayEffect ==
  ASSUME SystemTypeOK, NEW c \in Clients, NEW m \in ServerMessages, m.id = "SendMessageToUser"
  PROVE  \E forwarded \in [Clients -> Seq(ClientMessages)] :
           /\ \/ forwarded = toClient
              \/ \E d \in Clients :
                   forwarded = With(toClient, d, [id |-> "ReceiveMessageFromUser", text |-> m.text])
           /\ Relay(c, m) = With(forwarded, c, [id |-> "SendMessageToUser", text |-> m.text])
           /\ Relay(c, m) \in [Clients -> Seq(ClientMessages)]
<1> DEFINE echo == [id |-> "SendMessageToUser", text |-> m.text]
           forward == [id |-> "ReceiveMessageFromUser", text |-> m.text]
           receiver == m_deqConnections[Least(WithId(m.to))]
<1>1. echo \in ClientMessages /\ forward \in ClientMessages
  BY ServerMessageFields DEF ClientMessages
<1>2. toClient \in [Clients -> Seq(ClientMessages)]
  BY DEF SystemTypeOK
<1>3. CASE WithId(m.to) = {}
  <2>1. Relay(c, m) = With(toClient, c, echo)
    BY <1>3 DEF Relay
  <2>2. With(toClient, c, echo) \in [Clients -> Seq(ClientMessages)]
    BY <1>1, SentType
  <2>. QED BY <1>2, <2>1, <2>2
<1>4. CASE WithId(m.to) # {}
  <2>1. WithId(m.to) \subseteq DOMAIN m_deqConnections
    BY DEF WithId
  <2>2. m_deqConnections \in Seq(Clients)
    BY DEF SystemTypeOK
  <2>3. DOMAIN m_deqConnections \subseteq Nat
    BY <2>2
  <2>4. receiver \in Clients
    BY <1>4, <2>1, <2>2, <2>3, LeastOfNat
  <2>5. With(toClient, receiver, forward) \in [Clients -> Seq(ClientMessages)]
    BY <1>1, <2>4, SentType
  <2>6. With(With(toClient, receiver, forward), c, echo) \in [Clients -> Seq(ClientMessages)]
    BY <1>1, <2>5, WithType
  <2>7. Relay(c, m) = With(With(toClient, receiver, forward), c, echo)
    BY <1>4 DEF Relay
  <2>. QED BY <2>4, <2>5, <2>6, <2>7
<1>. QED BY <1>3, <1>4

LEMMA SendTypes ==
  ASSUME SystemTypeOK, NEW c \in Clients, OnSendMessageToUser(c), UNCHANGED clientVars
  PROVE  SystemTypeOK'
<1>1. /\ Handles(c, "SendMessageToUser") /\ UNCHANGED <<users, conn, issueVars>>
      /\ toClient' \in {toClient, Relay(c, Received(c))}
      /\ terminated' \in {terminated, TRUE}
      /\ ValidateToken(Received(c).token)
  BY DEF OnSendMessageToUser
<1>2. Received(c) \in ServerMessages /\ Received(c).id = "SendMessageToUser"
  BY <1>1, HandlesEffect, TypesInParts DEF TypeParts
<1>3. toClient' \in [Clients -> Seq(ClientMessages)]
  <2>1. Relay(c, Received(c)) \in [Clients -> Seq(ClientMessages)]
    BY <1>2, RelayEffect
  <2>2. toClient \in [Clients -> Seq(ClientMessages)]
    BY DEF SystemTypeOK
  <2>. QED BY <1>1, <2>1, <2>2
<1>4. tokens' \in [DOMAIN tokens' -> 0..now] /\ DOMAIN tokens' \subseteq DOMAIN tokens
  BY <1>1, ValidateTokenEffect
<1>. QED BY <1>1, <1>3, <1>4, HandledTypes DEF SystemTypeOK, Connections

\* What OnLogin can come to.
LEMMA LoginEffect ==
  ASSUME SystemTypeOK, NEW c \in Clients, OnLogin(c)
  PROVE  /\ Handles(c, "Login") /\ UNCHANGED <<users, terminated>>
         /\ DetailsUsername(Received(c)) \in Usernames
         /\ \/ \E p : 
                 /\ Matches(DetailsUsername(Received(c)), p)
                 /\ DetailsUsername(Received(c)) # Blank
                 /\ issued' = issued + 1
                 /\ toClient' = With(toClient, c, LoginReply(issued + 1, Success))
                 /\ \/ /\ tokens' = Add(issued + 1)
                       /\ UNCHANGED unrecorded
                       /\ conn' = [conn EXCEPT
                                     ![c].clientUsername = DetailsUsername(Received(c)),
                                     ![c].currentToken = issued + 1]
                    \/ /\ unrecorded' = unrecorded \cup {issued + 1}
                       /\ UNCHANGED <<tokens, conn>>
            \/ \E code \in Codes :
                 /\ toClient' = With(toClient, c, LoginReply(NoToken, code))
                 /\ UNCHANGED <<tokenVars, conn>>
<1>1. Handles(c, "Login") /\ UNCHANGED <<users, terminated>>
  BY DEF OnLogin
<1>2. DetailsUsername(Received(c)) \in Usernames
  BY <1>1, HandlesEffect, DetailsType, TypesInParts DEF TypeParts
<1> DEFINE u == DetailsUsername(Received(c))
           p == DetailsPassword(Received(c))
<1>3. \A code \in LoginUser(u, p) : code \in Codes /\ (code = Success => Matches(u, p) /\ u # Blank)
  BY <1>2, LoginCodes
<1>. QED BY <1>1, <1>2, <1>3 DEF OnLogin

LEMMA LoginTypes ==
  ASSUME SystemTypeOK, NEW c \in Clients, OnLogin(c), UNCHANGED clientVars
  PROVE  SystemTypeOK'
<1> DEFINE u == DetailsUsername(Received(c))
<1>1. Handles(c, "Login") /\ UNCHANGED <<users, terminated>> /\ u \in Usernames
  BY LoginEffect
<1>2. CASE \E code \in Codes : /\ toClient' = With(toClient, c, LoginReply(NoToken, code))
                               /\ UNCHANGED <<tokenVars, conn>>
  <2>1. PICK code \in Codes : /\ toClient' = With(toClient, c, LoginReply(NoToken, code))
                              /\ UNCHANGED <<tokenVars, conn>>
    BY <1>2
  <2>2. toClient' \in [Clients -> Seq(ClientMessages)]
    BY <2>1, LoginMessage, SentType
  <2>. QED BY <1>1, <2>1, <2>2, HandledTypes DEF SystemTypeOK, Connections, tokenVars
<1>3. CASE /\ issued' = issued + 1
           /\ toClient' = With(toClient, c, LoginReply(issued + 1, Success))
           /\ \/ /\ tokens' = Add(issued + 1)
                 /\ UNCHANGED unrecorded
                 /\ conn' = [conn EXCEPT ![c].clientUsername = u, ![c].currentToken = issued + 1]
              \/ /\ unrecorded' = unrecorded \cup {issued + 1}
                 /\ UNCHANGED <<tokens, conn>>
  <2>1. /\ issued \in Nat /\ issued' \in Nat /\ issued <= issued' /\ issued + 1 \in Tokens'
        /\ now \in Nat
    BY <1>3 DEF SystemTypeOK, Tokens
  <2>2. /\ Seq(ServerMessages) \subseteq Seq(ServerMessages')
        /\ Seq(ClientMessages) \subseteq Seq(ClientMessages')
        /\ Connections \subseteq Connections' /\ Tokens \subseteq Tokens'
    BY <2>1, SetsGrow
  <2>3. /\ toServer' \in [Clients -> Seq(ServerMessages)]
        /\ UNCHANGED <<clientOpen, acceptVars, now>>
    BY <1>1, HandlesEffect, TypesInParts DEF TypeParts
  <2>4. toClient \in [Clients -> Seq(ClientMessages')]
    BY <2>2 DEF SystemTypeOK
  <2>5. LoginReply(issued + 1, Success) \in ClientMessages'
    BY <2>1 DEF ClientMessages, LoginReply, Codes, Success
  <2>6. With(toClient, c, LoginReply(issued + 1, Success)) \in [Clients -> Seq(ClientMessages')]
    <3>1. PICK M : M = ClientMessages'
      OBVIOUS
    <3>2. PICK reply : reply = LoginReply(issued + 1, Success)
      OBVIOUS
    <3>3. toClient \in [Clients -> Seq(M)] /\ reply \in M
      BY <2>4, <2>5, <3>1, <3>2
    <3>4. With(toClient, c, reply) \in [Clients -> Seq(M)]
      BY <3>3, WithType
    <3>. QED BY <3>1, <3>2, <3>4
  <2>7. LinkTypes'
    BY <1>3, <2>2, <2>3, <2>6 DEF LinkTypes, SystemTypeOK
  <2>8. conn' \in [Clients -> Connections']
    <3>1. conn \in [Clients -> Connections']
      BY <2>2, TypesInParts DEF TypeParts, ConnTypes
    <3>2. [conn EXCEPT ![c].clientUsername = u, ![c].currentToken = issued + 1]
            \in [Clients -> Connections']
      BY <1>1, <2>1, <3>1 DEF Connections
    <3>. QED BY <1>3, <3>1, <3>2
  <2>9. ConnTypes'
    BY <2>3, <2>8 DEF SystemTypeOK, ConnTypes, acceptVars
  <2>10. TokenTypes'
    <3>1. unrecorded' \subseteq Tokens' /\ now' \in 0..MaxTime
      BY <1>3, <2>1, <2>2, <2>3 DEF SystemTypeOK
    <3>2. tokens' \in [DOMAIN tokens' -> 0..now] /\ DOMAIN tokens' \subseteq Tokens'
      <4>1. Add(issued + 1) \in [DOMAIN tokens \cup {issued + 1} -> 0..now]
        BY <2>1 DEF Add, SystemTypeOK
      <4>2. tokens \in [DOMAIN tokens -> 0..now] /\ DOMAIN tokens \subseteq Tokens
        BY DEF SystemTypeOK
      <4>3. CASE tokens' = Add(issued + 1)
        BY <2>1, <2>2, <4>1, <4>2, <4>3
      <4>4. CASE tokens' = tokens
        BY <2>2, <4>2, <4>4
      <4>. QED BY <1>3, <4>3, <4>4
    <3>. QED BY <2>1, <2>3, <3>1, <3>2 DEF TokenTypes
  <2>11. UiTypes'
    BY <2>1, Kept
  <2>. QED BY <1>1, <2>7, <2>9, <2>10, <2>11, TypesInParts DEF TypeParts
<1>. QED BY <1>2, <1>3, LoginEffect

LEMMA OnMessageTypes ==
  ASSUME SystemTypeOK, NEW c \in Clients, OnMessage(c), UNCHANGED clientVars
  PROVE  SystemTypeOK'
BY PingTypes, DisconnectTypes, RegisterTypes, LoginTypes, InitiateTypes, SendTypes
   DEF OnMessage

-----------------------------------------------------------------------------
(* The types of the clients.                                               *)

\* A step of a client issues no token.
LEMMA ClientKept ==
  ASSUME SystemTypeOK, UNCHANGED serverVars
  PROVE  /\ ServerMessages' = ServerMessages /\ ClientMessages' = ClientMessages /\ Uis' = Uis
         /\ users' \in Seq(Documents) /\ ConnTypes' /\ TokenTypes' /\ terminated' \in BOOLEAN
<1>1. issued' = issued /\ issued \in Nat /\ UNCHANGED <<users, conn, acceptVars, tokenVars, now, terminated>>
  BY DEF SystemTypeOK, serverVars, tokenVars, issueVars
<1>2. ServerMessages' = ServerMessages /\ ClientMessages' = ClientMessages /\ Uis' = Uis
  BY <1>1 DEF ServerMessages, ClientMessages, Uis, Tokens
<1>. QED BY <1>1, <1>2, Kept

\* client_interface::Send.
LEMMA SendToServerEffect ==
  ASSUME SystemTypeOK, NEW c \in Clients, NEW m \in ServerMessages, SendToServer(c, m)
  PROVE  /\ toServer' \in [Clients -> Seq(ServerMessages)]
         /\ awaiting' \in [Clients -> Seq(Requests)]
         /\ \A d \in Clients : \/ toServer'[d] = toServer[d]
                               \/ d = c /\ toServer'[d] = Append(toServer[d], m)
<1>1. Append(toServer[c], m) \in Seq(ServerMessages)
  BY AppendProperties DEF SystemTypeOK
<1>2. m.id \in Requests => Append(awaiting[c], m.id) \in Seq(Requests)
  BY AppendProperties DEF SystemTypeOK
<1>3. CASE clientOpen[c]
  BY <1>1, <1>2, <1>3 DEF SendToServer, SystemTypeOK
<1>4. CASE ~clientOpen[c]
  BY <1>4 DEF SendToServer, SystemTypeOK
<1>. QED BY <1>3, <1>4

\* What the user can make the program send.
LEMMA RequestMessages ==
  ASSUME SystemTypeOK, NEW c \in Clients
  PROVE  /\ [id |-> "ServerPing"] \in ServerMessages
         /\ [id |-> "DisconnectClient"] \in ServerMessages
         /\ \A id \in {"Login", "Register"}, u \in Usernames, p \in Passwords :
              [id |-> id, username |-> u, password |-> p] \in ServerMessages
         /\ ui[c].currentToken # NoToken =>
              /\ \A u \in Usernames :
                   [id |-> "InitiateConversation", token |-> ui[c].currentToken, username |-> u]
                     \in ServerMessages
              /\ \A text \in Texts :
                   [id |-> "SendMessageToUser", token |-> ui[c].currentToken,
                    to |-> ui[c].currentConversatorID, text |-> text] \in ServerMessages
<1>1. ui[c].currentToken \in Tokens \cup {NoToken} /\ ui[c].currentConversatorID \in Nat
  BY DEF SystemTypeOK
<1>. QED BY <1>1 DEF ServerMessages

\* Who is asked whom to talk to has a token.
AskedOK == \A c \in Clients : ui[c].prompt = "talkto" => ui[c].currentToken # NoToken

LEMMA TypeEffect ==
  ASSUME SystemTypeOK, NEW c \in Clients, NEW input \in Inputs, Type(c, input)
  PROVE  /\ typed' \in [Clients -> [Inputs -> Nat]]
         /\ toClient' \in [Clients -> Seq(ClientMessages)]
         /\ clientOpen' \in [Clients -> BOOLEAN]
         /\ screen' \in [Clients -> Seq(Texts)]
         /\ ui[c].prompt = "none"
         /\ typed'[c][input] = typed[c][input] + 1
         /\ \A d \in Clients : typed[d]["line"] <= typed'[d]["line"]
<1>1. "line" \in Inputs
  BY DEF Inputs
<1>2. typed' \in [Clients -> [Inputs -> Nat]]
  BY DEF Type, SystemTypeOK
<1>3. typed'[c][input] = typed[c][input] + 1
  BY DEF Type, SystemTypeOK
<1>4. \A d \in Clients : typed[d]["line"] <= typed'[d]["line"]
  <2> SUFFICES ASSUME NEW d \in Clients PROVE typed[d]["line"] <= typed'[d]["line"]
    OBVIOUS
  <2>1. typed \in [Clients -> [Inputs -> Nat]]
    BY DEF SystemTypeOK
  <2>2. typed[d]["line"] \in Nat /\ typed[c][input] \in Nat
    BY <1>1, <2>1
  <2>3. typed'[d] = IF d = c THEN [typed[c] EXCEPT ![input] = @ + 1] ELSE typed[d]
    BY <2>1 DEF Type
  <2>4. CASE d = c /\ input = "line"
    BY <1>1, <1>3, <2>2, <2>4
  <2>5. CASE d # c \/ input # "line"
    BY <1>1, <2>1, <2>2, <2>3, <2>5
  <2>. QED BY <2>4, <2>5
<1>. QED BY <1>2, <1>3, <1>4 DEF Type, SystemTypeOK, Looping

\* What the keyboard does to ui and sends, action by action.
LEMMA AskEffect ==
  ASSUME SystemTypeOK, NEW c \in Clients, NEW input \in Prompts, Ask(c, input)
  PROVE  /\ Type(c, input) /\ UNCHANGED <<toServer, awaiting>>
         /\ ui' \in [Clients -> Uis]
         /\ \A d \in Clients : d # c => ui'[d] = ui[d]
         /\ ui'[c].conversationMode = ui[c].conversationMode /\ ~ui[c].conversationMode
         /\ ui'[c].currentToken = ui[c].currentToken
         /\ ui'[c].prompt \in {input, "none"}
         /\ ui'[c].currentToken # NoToken => ui'[c].prompt = input
         /\ ui'[c].prompt = "talkto" => ui'[c].currentToken # NoToken
<1> DEFINE asked == IF input = "talkto" /\ ui[c].currentToken = NoToken THEN "none" ELSE input
<1>1. Type(c, input) /\ UNCHANGED <<toServer, awaiting>> /\ ~ui[c].conversationMode
      /\ ui' = [ui EXCEPT ![c].commandMode = FALSE, ![c].prompt = asked]
  BY DEF Ask, Command
<1>2. asked \in Prompts \cup {"none"} /\ asked \in {input, "none"}
  OBVIOUS
<1>3. ui \in [Clients -> Uis]
  BY TypesInParts DEF TypeParts, UiTypes
<1>4. /\ ui' \in [Clients -> Uis]
      /\ \A d \in Clients : d # c => ui'[d] = ui[d]
      /\ ui'[c].conversationMode = ui[c].conversationMode
      /\ ui'[c].currentToken = ui[c].currentToken
      /\ ui'[c].prompt = asked
  <2>1. PICK prompt \in Prompts \cup {"none"} : prompt = asked
    BY <1>2
  <2>2. ui' = [ui EXCEPT ![c].commandMode = FALSE, ![c].prompt = prompt]
    BY <1>1, <2>1
  <2> HIDE DEF asked
  <2>. QED BY <1>3, <2>1, <2>2 DEF Uis
<1>5. asked = "talkto" => ui[c].currentToken # NoToken
  OBVIOUS
<1>6. ui[c].currentToken # NoToken => asked = input
  OBVIOUS
<1> HIDE DEF asked
<1>. QED BY <1>1, <1>2, <1>4, <1>5, <1>6

LEMMA AnswerEffect ==
  ASSUME SystemTypeOK, AskedOK, NEW c \in Clients, Answer(c)
  PROVE  /\ UNCHANGED <<toClient, clientOpen, typed, screen>>
         /\ ui' \in [Clients -> Uis]
         /\ \A d \in Clients : d # c => ui'[d] = ui[d]
         /\ ui'[c].conversationMode = ui[c].conversationMode
         /\ ui'[c].currentToken = ui[c].currentToken
         /\ ui'[c].prompt = "none" /\ ui'[c].commandMode
         /\ \/ UNCHANGED <<toServer, awaiting>>
            \/ \E m \in ServerMessages :
                 /\ SendToServer(c, m)
                 /\ m.id \in {"Login", "Register", "InitiateConversation"}
                 /\ m.id = "InitiateConversation" =>
                      ui[c].prompt = "talkto" /\ m.token = ui[c].currentToken
<1>1. UNCHANGED <<toClient, clientOpen, typed, screen>>
      /\ ui' = [ui EXCEPT ![c].prompt = "none", ![c].commandMode = TRUE]
  BY DEF Answer
<1>2. ui \in [Clients -> Uis]
  BY TypesInParts DEF TypeParts, UiTypes
<1>3. /\ ui' \in [Clients -> Uis]
      /\ \A d \in Clients : d # c => ui'[d] = ui[d]
      /\ ui'[c].conversationMode = ui[c].conversationMode
      /\ ui'[c].currentToken = ui[c].currentToken
      /\ ui'[c].prompt = "none" /\ ui'[c].commandMode
  BY <1>1, <1>2 DEF Uis
<1> DEFINE Sends == \E m \in ServerMessages :
                 /\ SendToServer(c, m)
                 /\ m.id \in {"Login", "Register", "InitiateConversation"}
                 /\ m.id = "InitiateConversation" =>
                      ui[c].prompt = "talkto" /\ m.token = ui[c].currentToken
<1>4. CASE Login(c)
  <2>1. PICK u \in Usernames, p \in Passwords :
           SendToServer(c, [id |-> "Login", username |-> u, password |-> p])
    BY <1>4 DEF Login, SendDetails
  <2>. QED BY <1>1, <1>3, <2>1, RequestMessages
<1>5. CASE Register(c)
  <2>1. PICK u \in Usernames, p \in Passwords :
           SendToServer(c, [id |-> "Register", username |-> u, password |-> p])
    BY <1>5 DEF Register, SendDetails
  <2>. QED BY <1>1, <1>3, <2>1, RequestMessages
<1>6. CASE InitiateConversation(c)
  <2>1. PICK u \in Usernames :
          SendToServer(c, [id |-> "InitiateConversation", token |-> ui[c].currentToken,
                           username |-> u])
    BY <1>6 DEF InitiateConversation
  <2>2. ui[c].prompt = "talkto" /\ ui[c].currentToken # NoToken
    BY <1>6 DEF InitiateConversation, AskedOK
  <2>. QED BY <1>1, <1>3, <2>1, <2>2, RequestMessages
<1>7. CASE CaptureColour(c)
  BY <1>1, <1>3, <1>7 DEF CaptureColour
<1>. QED BY <1>4, <1>5, <1>6, <1>7 DEF Answer

LEMMA LineEffect ==
  ASSUME SystemTypeOK, NEW c \in Clients, SendMessageToUser(c)
  PROVE  /\ Type(c, "line")
         /\ ui' \in [Clients -> Uis]
         /\ \A d \in Clients : d # c => ui'[d] = ui[d]
         /\ ui[c].conversationMode
         /\ ui'[c].currentToken = ui[c].currentToken
         /\ ui'[c].prompt = ui[c].prompt /\ ui'[c].commandMode = ui[c].commandMode
         /\ ui'[c].conversationMode => ui[c].conversationMode
         /\ \/ UNCHANGED <<toServer, awaiting>>
            \/ \E m \in ServerMessages :
                 /\ SendToServer(c, m)
                 /\ m.id = "SendMessageToUser" /\ m.token = ui[c].currentToken
                 /\ m.text = Text(c, typed'[c]["line"])
<1>1. Type(c, "line") /\ ui[c].conversationMode
  BY DEF SendMessageToUser
<1>2. ui \in [Clients -> Uis]
  BY TypesInParts DEF TypeParts, UiTypes
<1>3. CASE /\ ui[c].currentToken = NoToken
           /\ ui' = [ui EXCEPT ![c].conversationMode = FALSE]
           /\ UNCHANGED <<toServer, awaiting>>
  BY <1>1, <1>2, <1>3 DEF Uis
<1>4. CASE /\ ui[c].currentToken # NoToken
           /\ SendToServer(c, [id |-> "SendMessageToUser", token |-> ui[c].currentToken,
                to |-> ui[c].currentConversatorID, text |-> Text(c, typed'[c].line)])
           /\ UNCHANGED ui
  <2>1. Text(c, typed'[c].line) \in Texts
    <3>1. typed'[c]["line"] \in Nat
      BY <1>1, TypeEffect DEF Inputs
    <3>. QED BY <3>1 DEF Text, Texts
  <2>. QED BY <1>1, <1>2, <1>4, <2>1, RequestMessages
<1>. QED BY <1>3, <1>4 DEF SendMessageToUser

LEMMA PressQEffect ==
  ASSUME SystemTypeOK, NEW c \in Clients, PressQ(c)
  PROVE  /\ Type(c, "q")
         /\ ui' \in [Clients -> Uis]
         /\ \A d \in Clients : d # c => ui'[d] = ui[d]
         /\ ui'[c].currentToken = ui[c].currentToken
         /\ ui'[c].prompt = ui[c].prompt
         /\ ui[c].commandMode => ui'[c].commandMode
         /\ ~ui'[c].conversationMode
         /\ \/ UNCHANGED <<toServer, awaiting>>
            \/ SendToServer(c, [id |-> "DisconnectClient"])
<1>1. ui \in [Clients -> Uis]
  BY TypesInParts DEF TypeParts, UiTypes
<1>2. CASE ui' = [ui EXCEPT ![c].conversationMode = FALSE, ![c].commandMode = TRUE]
           /\ UNCHANGED <<toServer, awaiting>>
  <2>1. /\ ui' \in [Clients -> Uis]
        /\ \A d \in Clients : d # c => ui'[d] = ui[d]
        /\ ui'[c].currentToken = ui[c].currentToken
        /\ ui'[c].prompt = ui[c].prompt
        /\ ui'[c].commandMode
        /\ ~ui'[c].conversationMode
    BY <1>1, <1>2 DEF Uis
  <2>. QED BY <1>2, <2>1 DEF PressQ
<1>3. CASE /\ ~ui[c].conversationMode
           /\ ui' = [ui EXCEPT ![c].bQuit = TRUE]
           /\ SendToServer(c, [id |-> "DisconnectClient"])
  BY <1>1, <1>3 DEF PressQ, Uis
<1>. QED BY <1>2, <1>3 DEF PressQ

\* What a message of the server does.
LEMMA HandleMessageEffect ==
  ASSUME SystemTypeOK, NEW c \in Clients, HandleMessage(c),
         Head(toClient[c]).id \in Requests => awaiting[c] # <<>>
  PROVE  /\ toClient[c] # <<>> /\ Head(toClient[c]) \in ClientMessages
         /\ toClient' \in [Clients -> Seq(ClientMessages)]
         /\ toClient'[c] = Tail(toClient[c])
         /\ \A d \in Clients : d # c => toClient'[d] = toClient[d]
         /\ UNCHANGED <<toServer, clientOpen, typed>>
         /\ ui' \in [Clients -> Uis]
         /\ \A d \in Clients : d # c => ui'[d] = ui[d]
         /\ ui[c].prompt = "none"
         /\ ui'[c].prompt = ui[c].prompt /\ ui'[c].commandMode = ui[c].commandMode
         /\ \/ ui'[c].currentToken = ui[c].currentToken
            \/ /\ Head(toClient[c]).id = "Login" /\ Head(toClient[c]).token # NoToken
               /\ ui'[c].currentToken = Head(toClient[c]).token
         /\ \/ ui'[c].conversationMode = ui[c].conversationMode
            \/ Head(toClient[c]).id = "InitiateConversation"
         /\ awaiting' \in [Clients -> Seq(Requests)]
         /\ \A d \in Clients : d # c => awaiting'[d] = awaiting[d]
         /\ awaiting'[c] = IF Head(toClient[c]).id \in Requests THEN Tail(awaiting[c])
                           ELSE awaiting[c]
         /\ screen' \in [Clients -> Seq(Texts)]
         /\ \A d \in Clients : d # c => screen'[d] = screen[d]
         /\ \/ screen'[c] = screen[c]
            \/ /\ Head(toClient[c]).id \in {"SendMessageToUser", "ReceiveMessageFromUser"}
               /\ screen'[c] = Append(screen[c], Head(toClient[c]).text)
<1> DEFINE m == Head(toClient[c])
<1>1. toClient[c] \in Seq(ClientMessages) /\ toClient[c] # <<>>
  BY DEF HandleMessage, SystemTypeOK
<1>2. m \in ClientMessages /\ Tail(toClient[c]) \in Seq(ClientMessages)
  BY <1>1, HeadTailProperties
<1>3. /\ toClient' \in [Clients -> Seq(ClientMessages)]
      /\ toClient'[c] = Tail(toClient[c])
      /\ \A d \in Clients : d # c => toClient'[d] = toClient[d]
  BY <1>2 DEF HandleMessage, SystemTypeOK
<1>4. ui \in [Clients -> Uis]
  BY TypesInParts DEF TypeParts, UiTypes
<1>5. /\ ui' \in [Clients -> Uis]
      /\ \A d \in Clients : d # c => ui'[d] = ui[d]
      /\ ui'[c].prompt = ui[c].prompt /\ ui'[c].commandMode = ui[c].commandMode
      /\ \/ ui'[c].currentToken = ui[c].currentToken
         \/ m.id = "Login" /\ m.token # NoToken /\ ui'[c].currentToken = m.token
      /\ ui'[c].conversationMode = ui[c].conversationMode \/ m.id = "InitiateConversation"
  <2>1. CASE TokenTaken(m)
    <3>1. PICK token \in Tokens \cup {NoToken} : token = m.token
      BY <1>2, <2>1, ClientMessageFields DEF TokenTaken
    <3>2. m.id = "Login" /\ m.token # NoToken /\ ~Converses(m)
      BY <2>1 DEF TokenTaken, Converses
    <3>3. ui' = [ui EXCEPT ![c].currentToken = token]
      BY <2>1, <3>1, <3>2 DEF HandleMessage
    <3> HIDE DEF m
    <3>. QED BY <1>4, <3>1, <3>2, <3>3 DEF Uis
  <2>2. CASE Converses(m)
    <3>1. PICK to \in Nat : to = m.to
      BY <1>2, <2>2, ClientMessageFields DEF Converses
    <3>2. ~TokenTaken(m) /\ m.id = "InitiateConversation"
      BY <2>2 DEF Converses, TokenTaken
    <3>3. ui' = [ui EXCEPT ![c].currentConversatorID = to, ![c].conversationMode = TRUE]
      BY <2>2, <3>1, <3>2 DEF HandleMessage
    <3> HIDE DEF m
    <3>. QED BY <1>4, <3>2, <3>3 DEF Uis
  <2>3. CASE ~TokenTaken(m) /\ ~Converses(m)
    <3>1. ui' = ui
      BY <2>3 DEF HandleMessage
    <3>. QED BY <1>4, <3>1
  <2>. QED BY <2>1, <2>2, <2>3 DEF TokenTaken, Converses
<1>6. /\ awaiting' \in [Clients -> Seq(Requests)]
      /\ \A d \in Clients : d # c => awaiting'[d] = awaiting[d]
      /\ awaiting'[c] = IF m.id \in Requests THEN Tail(awaiting[c]) ELSE awaiting[c]
  <2>1. CASE m.id \in Requests
    <3>1. awaiting[c] \in Seq(Requests) /\ awaiting[c] # <<>>
      BY <2>1 DEF SystemTypeOK
    <3>2. awaiting' = [awaiting EXCEPT ![c] = Tail(@)]
      BY <2>1 DEF HandleMessage
    <3>3. Tail(awaiting[c]) \in Seq(Requests)
      BY <3>1, HeadTailProperties
    <3>. QED BY <2>1, <3>2, <3>3 DEF SystemTypeOK
  <2>2. CASE m.id \notin Requests
    BY <2>2 DEF HandleMessage, SystemTypeOK
  <2>. QED BY <2>1, <2>2
<1>7. /\ screen' \in [Clients -> Seq(Texts)]
      /\ \A d \in Clients : d # c => screen'[d] = screen[d]
      /\ \/ screen'[c] = screen[c]
         \/ /\ m.id \in {"SendMessageToUser", "ReceiveMessageFromUser"}
            /\ screen'[c] = Append(screen[c], m.text)
  <2>1. CASE Printed(c, m)
    <3>1. m.id \in {"SendMessageToUser", "ReceiveMessageFromUser"}
      BY <2>1 DEF Printed
    <3>2. m.text \in Texts
      BY <1>2, <3>1, ClientMessageFields
    <3>3. Append(screen[c], m.text) \in Seq(Texts)
      BY <3>2, AppendProperties DEF SystemTypeOK
    <3>4. screen' = [screen EXCEPT ![c] = Append(screen[c], m.text)]
      BY <2>1 DEF HandleMessage
    <3>. QED BY <3>1, <3>3, <3>4 DEF SystemTypeOK
  <2>2. CASE ~Printed(c, m)
    BY <2>2 DEF HandleMessage, SystemTypeOK
  <2>. QED BY <2>1, <2>2, Zenon
<1>8. UNCHANGED <<toServer, clientOpen, typed>> /\ ui[c].prompt = "none"
  BY DEF HandleMessage, Looping
<1> HIDE DEF m
<1>. QED BY <1>1, <1>2, <1>3, <1>5, <1>6, <1>7, <1>8 DEF m

\* The program ends; what is cut off is the end of what was to be sent.
LEMMA ExitEffect ==
  ASSUME SystemTypeOK, NEW c \in Clients, Exit(c)
  PROVE  /\ UNCHANGED clientVars
         /\ clientOpen' \in [Clients -> BOOLEAN]
         /\ toServer' \in [Clients -> Seq(ServerMessages)]
         /\ \A d \in Clients : d # c => toServer'[d] = toServer[d]
         /\ \E k \in 0 .. Len(toServer[c]) : toServer'[c] = SubSeq(toServer[c], 1, k)
         /\ toClient' \in [Clients -> Seq(ClientMessages)]
         /\ \A d \in Clients : toClient'[d] \in {toClient[d], <<>>}
<1>1. UNCHANGED clientVars /\ clientOpen' \in [Clients -> BOOLEAN]
  BY DEF Exit, SystemTypeOK
<1>2. PICK k \in 0 .. Len(toServer[c]) : toServer' = [toServer EXCEPT ![c] = SubSeq(toServer[c], 1, k)]
  BY DEF Exit
<1>3. toServer[c] \in Seq(ServerMessages)
  BY DEF SystemTypeOK
<1>4. SubSeq(toServer[c], 1, k) \in Seq(ServerMessages)
  BY <1>2, <1>3, SubSeqProperties
<1>5. toClient' = [toClient EXCEPT ![c] = <<>>]
  BY DEF Exit
<1>6. /\ toClient' \in [Clients -> Seq(ClientMessages)]
      /\ \A d \in Clients : toClient'[d] \in {toClient[d], <<>>}
  BY <1>5 DEF SystemTypeOK
<1>7. /\ toServer' \in [Clients -> Seq(ServerMessages)]
      /\ \A d \in Clients : d # c => toServer'[d] = toServer[d]
      /\ toServer'[c] = SubSeq(toServer[c], 1, k)
  BY <1>2, <1>4 DEF SystemTypeOK
<1>. QED BY <1>1, <1>2, <1>6, <1>7

LEMMA LoseServerEffect ==
  ASSUME SystemTypeOK, NEW c \in Clients, LoseServer(c)
  PROVE  /\ UNCHANGED <<toServer, serverVars, clientVars>>
         /\ clientOpen' \in [Clients -> BOOLEAN]
         /\ toClient' \in [Clients -> Seq(ClientMessages)]
         /\ \A d \in Clients : toClient'[d] \in {toClient[d], <<>>}
<1>1. toClient' = [toClient EXCEPT ![c] = <<>>]
  BY DEF LoseServer
<1>. QED BY <1>1 DEF LoseServer, SystemTypeOK

LEMMA FindServerDownEffect ==
  ASSUME SystemTypeOK, NEW c \in Clients, FindServerDown(c)
  PROVE  /\ UNCHANGED <<linkVars, typed, awaiting, screen>>
         /\ ui' \in [Clients -> Uis]
         /\ \A d \in Clients :
              /\ ui'[d].conversationMode = ui[d].conversationMode
              /\ ui'[d].commandMode = ui[d].commandMode
              /\ ui'[d].prompt = ui[d].prompt
              /\ ui'[d].currentToken = ui[d].currentToken
<1>1. ui \in [Clients -> Uis]
  BY TypesInParts DEF TypeParts, UiTypes
<1>. QED BY <1>1 DEF FindServerDown, Uis

-----------------------------------------------------------------------------
(* Replies in the order of the requests.                                   *)

IsRequest(queue, i) == queue[i].id \in Requests
Among(queue, i) == {j \in 1..i : IsRequest(queue, j)}

LEMMA RepliesCount ==
  ASSUME NEW queue, NEW i \in Nat
  PROVE  /\ Replies(queue, i) = Cardinality(Among(queue, i))
         /\ IsFiniteSet(Among(queue, i)) /\ Among(queue, i) \subseteq 1..i
         /\ Replies(queue, i) \in Nat
         /\ i \in 1..i /\ IsRequest(queue, i) => Replies(queue, i) >= 1
<1>1. Replies(queue, i) = Cardinality(Among(queue, i))
  BY DEF Replies, Among, IsRequest
<1>2. Among(queue, i) \subseteq 1..i /\ IsFiniteSet(1..i)
  BY FS_Interval DEF Among
<1>3. IsFiniteSet(Among(queue, i))
  BY <1>2, FS_Subset
<1>4. Cardinality(Among(queue, i)) \in Nat
  BY <1>3, FS_CardinalityType
<1>5. ASSUME i \in 1..i, IsRequest(queue, i) PROVE Cardinality(Among(queue, i)) # 0
  <2>1. i \in Among(queue, i)
    BY <1>5 DEF Among
  <2>. QED BY <1>3, <2>1, FS_EmptySet
<1>. QED BY <1>1, <1>2, <1>3, <1>4, <1>5

\* What does not change the first messages does not change their count.
LEMMA RepliesSame ==
  ASSUME NEW queue, NEW other, NEW i \in Nat, \A j \in 1..i : other[j] = queue[j]
  PROVE  Replies(other, i) = Replies(queue, i)
<1>1. Among(other, i) = Among(queue, i)
  BY DEF Among, IsRequest
<1>. QED BY <1>1, RepliesCount

LEMMA RepliesNext ==
  ASSUME NEW queue, NEW i \in Nat
  PROVE  Replies(queue, i + 1) = Replies(queue, i) + (IF IsRequest(queue, i + 1) THEN 1 ELSE 0)
<1>1. i + 1 \notin Among(queue, i) /\ IsFiniteSet(Among(queue, i))
  BY RepliesCount
<1>2. CASE IsRequest(queue, i + 1)
  <2>1. Among(queue, i + 1) = Among(queue, i) \cup {i + 1}
    BY <1>2 DEF Among
  <2>. QED BY <1>1, <1>2, <2>1, FS_AddElement, RepliesCount
<1>3. CASE ~IsRequest(queue, i + 1)
  <2>1. Among(queue, i + 1) = Among(queue, i)
    BY <1>3 DEF Among
  <2>. QED BY <1>3, <2>1, RepliesCount
<1>. QED BY <1>2, <1>3 DEF IsRequest

\* Without the first message there is one less, if it counts.
LEMMA RepliesShift ==
  ASSUME NEW queue, NEW rest, NEW i \in Nat, \A j \in 1..i : rest[j] = queue[j + 1]
  PROVE  Replies(queue, i + 1) = Replies(rest, i) + (IF IsRequest(queue, 1) THEN 1 ELSE 0)
<1> DEFINE later == Among(queue, i + 1) \ {1}
           shift == [j \in Among(rest, i) |-> j + 1]
<1>1. /\ IsFiniteSet(Among(rest, i)) /\ Among(rest, i) \subseteq 1..i
      /\ IsFiniteSet(Among(queue, i + 1)) /\ Among(queue, i + 1) \subseteq 1..(i + 1)
  BY RepliesCount
<1>2. shift \in Bijection(Among(rest, i), later)
  <2>1. \A j \in Among(rest, i) : j + 1 \in later
    BY <1>1 DEF Among, IsRequest
  <2>2. \A k \in later : k - 1 \in Among(rest, i) /\ k = shift[k - 1]
    BY <1>1 DEF Among, IsRequest
  <2>3. \A j, k \in Among(rest, i) : shift[j] = shift[k] => j = k
    BY <1>1
  <2>4. shift \in [Among(rest, i) -> later]
    BY <2>1
  <2> HIDE DEF shift, later
  <2>. QED BY <2>2, <2>3, <2>4 DEF Bijection, Injection, IsInjective, Surjection
<1>3. Cardinality(later) = Cardinality(Among(rest, i))
  <2> HIDE DEF shift, later
  <2>1. ExistsBijection(Among(rest, i), later)
    BY <1>2 DEF ExistsBijection
  <2>. QED BY <1>1, <2>1, FS_Bijection
<1>4. Cardinality(later) = IF 1 \in Among(queue, i + 1) THEN Cardinality(Among(queue, i + 1)) - 1
                           ELSE Cardinality(Among(queue, i + 1))
  BY <1>1, FS_RemoveElement
<1>5. 1 \in Among(queue, i + 1) <=> IsRequest(queue, 1)
  BY DEF Among
<1>6. /\ Replies(queue, i + 1) = Cardinality(Among(queue, i + 1))
      /\ Replies(rest, i) = Cardinality(Among(rest, i))
      /\ Replies(queue, i + 1) \in Nat /\ Replies(rest, i) \in Nat
  BY RepliesCount
<1> HIDE DEF later, shift
<1>7. PICK all \in Nat, fewer \in Nat : all = Replies(queue, i + 1) /\ fewer = Replies(rest, i)
  BY <1>6
<1>8. CASE 1 \in Among(queue, i + 1)
  <2>1. fewer = all - 1
    BY <1>3, <1>4, <1>6, <1>7, <1>8
  <2>. QED BY <1>5, <1>7, <1>8, <2>1
<1>9. CASE 1 \notin Among(queue, i + 1)
  <2>1. fewer = all
    BY <1>3, <1>4, <1>6, <1>7, <1>9
  <2>. QED BY <1>5, <1>7, <1>9, <2>1
<1>. QED BY <1>8, <1>9

LEMMA TotalAppend ==
  ASSUME NEW S, NEW queue \in Seq(S), NEW m \in S
  PROVE  /\ \A i \in 0..Len(queue) : Replies(Append(queue, m), i) = Replies(queue, i)
         /\ Total(queue) \in Nat
         /\ Total(Append(queue, m)) = Total(queue) + (IF m.id \in Requests THEN 1 ELSE 0)
<1> DEFINE longer == Append(queue, m)
<1>1. /\ Len(queue) \in Nat /\ Len(longer) = Len(queue) + 1
      /\ \A i \in 1..Len(queue) : longer[i] = queue[i]
      /\ longer[Len(queue) + 1] = m
  BY AppendProperties
<1> HIDE DEF longer
<1>2. \A i \in 0..Len(queue) : Replies(longer, i) = Replies(queue, i)
  BY <1>1, RepliesSame
<1>3. Replies(longer, Len(queue)) = Replies(queue, Len(queue))
  BY <1>1, <1>2
<1>4. Replies(longer, Len(queue) + 1)
        = Replies(longer, Len(queue)) + (IF IsRequest(longer, Len(queue) + 1) THEN 1 ELSE 0)
  BY <1>1, RepliesNext
<1>5. IsRequest(longer, Len(queue) + 1) <=> m.id \in Requests
  BY <1>1 DEF IsRequest
<1>6. Total(queue) \in Nat
  BY <1>1, RepliesCount DEF Total
<1>7. Total(longer) = Total(queue) + (IF m.id \in Requests THEN 1 ELSE 0)
  <2>1. CASE m.id \in Requests
    BY <1>1, <1>3, <1>4, <1>5, <2>1 DEF Total
  <2>2. CASE m.id \notin Requests
    BY <1>1, <1>3, <1>4, <1>5, <2>2 DEF Total
  <2>. QED BY <2>1, <2>2
<1>. QED BY <1>2, <1>6, <1>7 DEF longer

LEMMA TotalTail ==
  ASSUME NEW S, NEW queue \in Seq(S), queue # <<>>
  PROVE  LET first == IF Head(queue).id \in Requests THEN 1 ELSE 0
         IN  /\ \A i \in 0..Len(Tail(queue)) : Replies(queue, i + 1) = Replies(Tail(queue), i) + first
             /\ Total(queue) = Total(Tail(queue)) + first
             /\ Total(Tail(queue)) \in Nat
<1> DEFINE rest == Tail(queue)
           first == IF Head(queue).id \in Requests THEN 1 ELSE 0
<1>1. /\ rest \in Seq(S) /\ Len(rest) = Len(queue) - 1 /\ Len(rest) \in Nat /\ Len(queue) \in Nat
      /\ \A i \in 1..Len(rest) : rest[i] = queue[i + 1]
  BY HeadTailProperties
<1>2. Head(queue) = queue[1]
  OBVIOUS
<1>3. first = IF IsRequest(queue, 1) THEN 1 ELSE 0
  BY <1>2 DEF IsRequest
<1> HIDE DEF rest, first
<1>4. ASSUME NEW i \in 0..Len(rest) PROVE Replies(queue, i + 1) = Replies(rest, i) + first
  <2>1. i \in Nat /\ \A j \in 1..i : rest[j] = queue[j + 1]
    BY <1>1, <1>4
  <2>. QED BY <1>3, <2>1, RepliesShift
<1>5. Total(queue) = Total(rest) + first
  BY <1>1, <1>4 DEF Total
<1>6. Total(rest) \in Nat
  BY <1>1, RepliesCount DEF Total
<1>. QED BY <1>4, <1>5, <1>6 DEF rest, first

LEMMA TurnFirst ==
  ASSUME NEW S, NEW queue \in Seq(S), queue # <<>>, Head(queue).id \in Requests,
         NEW requests, NEW before \in Nat, InTurn(queue, requests, before)
  PROVE  before + 1 \in DOMAIN requests /\ requests[before + 1] = Head(queue).id
<1>1. 1 \in DOMAIN queue /\ Head(queue) = queue[1]
  OBVIOUS
<1>2. Replies(queue, 1) = 1
  <2>1. Replies(queue, 0) = 0
    <3>1. Among(queue, 0) = {}
      BY DEF Among
    <3>. QED BY <3>1, RepliesCount, FS_EmptySet
  <2>2. Replies(queue, 0 + 1) = Replies(queue, 0) + (IF IsRequest(queue, 0 + 1) THEN 1 ELSE 0)
    BY RepliesNext
  <2>3. IsRequest(queue, 1)
    BY <1>1 DEF IsRequest
  <2>. QED BY <2>1, <2>2, <2>3
<1>. QED BY <1>1, <1>2 DEF InTurn

LEMMA TurnAppend ==
  ASSUME NEW S, NEW queue \in Seq(S), NEW m \in S, NEW requests, NEW before \in Nat,
         InTurn(queue, requests, before),
         m.id \in Requests => /\ before + Total(queue) + 1 \in DOMAIN requests
                              /\ requests[before + Total(queue) + 1] = m.id
  PROVE  InTurn(Append(queue, m), requests, before)
<1> DEFINE longer == Append(queue, m)
<1>1. /\ longer \in Seq(S) /\ Len(queue) \in Nat /\ Len(longer) = Len(queue) + 1
      /\ \A i \in 1..Len(queue) : longer[i] = queue[i]
      /\ longer[Len(queue) + 1] = m
  BY AppendProperties
<1>2. /\ \A i \in 0..Len(queue) : Replies(longer, i) = Replies(queue, i)
      /\ Total(queue) \in Nat
      /\ Total(longer) = Total(queue) + (IF m.id \in Requests THEN 1 ELSE 0)
  BY TotalAppend
<1>3. DOMAIN longer = 1..(Len(queue) + 1) /\ DOMAIN queue = 1..Len(queue)
  BY <1>1
<1> HIDE DEF longer
<1>4. SUFFICES ASSUME NEW i \in DOMAIN longer, longer[i].id \in Requests
               PROVE  /\ before + Replies(longer, i) \in DOMAIN requests
                      /\ requests[before + Replies(longer, i)] = longer[i].id
  BY DEF InTurn, longer
<1>5. CASE i \in 1..Len(queue)
  BY <1>1, <1>2, <1>3, <1>4, <1>5 DEF InTurn
<1>6. CASE i = Len(queue) + 1
  <2>1. m.id \in Requests /\ Replies(longer, i) = Total(queue) + 1
    BY <1>1, <1>2, <1>4, <1>6 DEF Total
  <2>2. before + Replies(longer, i) = before + Total(queue) + 1
    BY <1>2, <2>1
  <2>. QED BY <1>1, <1>6, <2>1, <2>2
<1>. QED BY <1>3, <1>4, <1>5, <1>6

LEMMA TurnGrow ==
  ASSUME NEW queue, NEW R, NEW requests \in Seq(R), NEW r \in R, NEW before,
         InTurn(queue, requests, before)
  PROVE  InTurn(queue, Append(requests, r), before)
<1>1. /\ DOMAIN requests \subseteq DOMAIN Append(requests, r)
      /\ \A k \in DOMAIN requests : Append(requests, r)[k] = requests[k]
  BY AppendProperties
<1>. QED BY <1>1 DEF InTurn

LEMMA TurnTail ==
  ASSUME NEW S, NEW queue \in Seq(S), queue # <<>>, NEW requests, NEW before \in Nat,
         InTurn(queue, requests, before)
  PROVE  InTurn(Tail(queue), requests,
                before + (IF Head(queue).id \in Requests THEN 1 ELSE 0))
<1> DEFINE rest == Tail(queue)
           first == IF Head(queue).id \in Requests THEN 1 ELSE 0
<1>1. /\ rest \in Seq(S) /\ Len(rest) = Len(queue) - 1 /\ Len(rest) \in Nat
      /\ \A i \in 1..Len(rest) : rest[i] = queue[i + 1]
  BY HeadTailProperties
<1>2. \A i \in 0..Len(rest) : Replies(queue, i + 1) = Replies(rest, i) + first
  BY TotalTail
<1>3. first \in Nat
  OBVIOUS
<1>4. DOMAIN rest = 1..Len(rest) /\ DOMAIN queue = 1..(Len(rest) + 1)
  BY <1>1
<1> HIDE DEF rest, first
<1>5. SUFFICES ASSUME NEW i \in DOMAIN rest, rest[i].id \in Requests
               PROVE  /\ before + first + Replies(rest, i) \in DOMAIN requests
                      /\ requests[before + first + Replies(rest, i)] = rest[i].id
  BY DEF InTurn, rest, first
<1>6. i \in Nat /\ i \in 0..Len(rest) /\ i + 1 \in DOMAIN queue /\ rest[i] = queue[i + 1]
  BY <1>1, <1>4
<1>7. Replies(rest, i) \in Nat
  BY <1>6, RepliesCount
<1>8. before + Replies(queue, i + 1) = before + first + Replies(rest, i)
  BY <1>2, <1>3, <1>6, <1>7
<1>. QED BY <1>5, <1>6, <1>8 DEF InTurn

LEMMA TurnRequestsTail ==
  ASSUME NEW S, NEW queue \in Seq(S), NEW R, NEW requests \in Seq(R), requests # <<>>,
         NEW before \in Nat, InTurn(queue, requests, before + 1)
  PROVE  InTurn(queue, Tail(requests), before)
<1>1. /\ Len(Tail(requests)) = Len(requests) - 1 /\ Tail(requests) \in Seq(R)
      /\ \A k \in 1..Len(Tail(requests)) : Tail(requests)[k] = requests[k + 1]
  BY HeadTailProperties
<1>2. SUFFICES ASSUME NEW i \in DOMAIN queue, queue[i].id \in Requests
               PROVE  /\ before + Replies(queue, i) \in DOMAIN Tail(requests)
                      /\ Tail(requests)[before + Replies(queue, i)] = queue[i].id
  BY DEF InTurn
<1>3. i \in Nat /\ i \in 1..i
  OBVIOUS
<1>4. Replies(queue, i) \in Nat /\ Replies(queue, i) >= 1
  BY <1>2, <1>3, RepliesCount DEF IsRequest
<1>5. PICK k \in Nat : k = before + Replies(queue, i) /\ k >= 1
  BY <1>4
<1>6. before + 1 + Replies(queue, i) = k + 1
  BY <1>4, <1>5
<1>7. k + 1 \in DOMAIN requests /\ requests[k + 1] = queue[i].id
  BY <1>2, <1>6 DEF InTurn
<1>8. k \in 1..Len(Tail(requests))
  BY <1>1, <1>5, <1>7
<1>. QED BY <1>1, <1>5, <1>7, <1>8

-----------------------------------------------------------------------------
(* The types of the whole system.                                          *)

\* What a client has got and not handled is waited for, in order.
TurnsOK == \A c \in Clients : InTurn(toClient[c], awaiting[c], 0)

LEMMA HeadAwaited ==
  ASSUME SystemTypeOK, TurnsOK, NEW c \in Clients, HandleMessage(c)
  PROVE  Head(toClient[c]).id \in Requests => awaiting[c] # <<>>
<1>1. SUFFICES ASSUME Head(toClient[c]).id \in Requests PROVE awaiting[c] # <<>>
  OBVIOUS
<1>2. toClient[c] \in Seq(ClientMessages) /\ toClient[c] # <<>>
  BY DEF HandleMessage, SystemTypeOK
<1>3. 0 + 1 \in DOMAIN awaiting[c]
  BY <1>1, <1>2, TurnFirst DEF TurnsOK
<1>. QED BY <1>3 DEF SystemTypeOK

\* What there is to show of a step of a client.
ClientStepTypes ==
  /\ toServer' \in [Clients -> Seq(ServerMessages)]
  /\ toClient' \in [Clients -> Seq(ClientMessages)]
  /\ clientOpen' \in [Clients -> BOOLEAN]
  /\ ui' \in [Clients -> Uis]
  /\ typed' \in [Clients -> [Inputs -> Nat]]
  /\ awaiting' \in [Clients -> Seq(Requests)]
  /\ screen' \in [Clients -> Seq(Texts)]
  /\ AskedOK'

LEMMA KeyboardTypes ==
  ASSUME SystemTypeOK, AskedOK, NEW c \in Clients, Keyboard(c), UNCHANGED serverVars
  PROVE  SystemTypeOK' /\ AskedOK'
<1>1. /\ ServerMessages' = ServerMessages /\ ClientMessages' = ClientMessages /\ Uis' = Uis
      /\ users' \in Seq(Documents) /\ ConnTypes' /\ TokenTypes' /\ terminated' \in BOOLEAN
  BY ClientKept
<1>2. SUFFICES ClientStepTypes
  BY <1>1, TypesInParts DEF TypeParts, LinkTypes, UiTypes, ClientStepTypes
<1>3. /\ toServer \in [Clients -> Seq(ServerMessages)]
      /\ toClient \in [Clients -> Seq(ClientMessages)]
      /\ clientOpen \in [Clients -> BOOLEAN]
      /\ ui \in [Clients -> Uis]
      /\ typed \in [Clients -> [Inputs -> Nat]]
      /\ awaiting \in [Clients -> Seq(Requests)]
      /\ screen \in [Clients -> Seq(Texts)]
  BY TypesInParts DEF TypeParts, LinkTypes, UiTypes
<1>4. CASE PingServer(c)
  <2>1. /\ Type(c, "ping") /\ UNCHANGED ui
        /\ SendToServer(c, [id |-> "ServerPing"])
    BY <1>4 DEF PingServer, Command
  <2>. QED BY <1>3, <2>1, TypeEffect, RequestMessages, SendToServerEffect DEF Inputs, AskedOK, ClientStepTypes
<1>5. ASSUME NEW input \in Prompts, Ask(c, input) PROVE ClientStepTypes
  BY <1>3, <1>5, AskEffect, TypeEffect DEF Inputs, AskedOK, ClientStepTypes
<1>6. CASE Answer(c)
  <2>1. /\ UNCHANGED <<toClient, clientOpen, typed, screen>> /\ ui' \in [Clients -> Uis]
        /\ AskedOK'
    BY <1>6, AnswerEffect DEF AskedOK
  <2>2. \/ UNCHANGED <<toServer, awaiting>>
        \/ \E m \in ServerMessages : SendToServer(c, m)
    BY <1>6, AnswerEffect
  <2>3. toServer' \in [Clients -> Seq(ServerMessages)] /\ awaiting' \in [Clients -> Seq(Requests)]
    BY <1>3, <2>2, SendToServerEffect
  <2>. QED BY <1>3, <2>1, <2>3 DEF ClientStepTypes
<1>7. CASE SendMessageToUser(c)
  <2>1. Type(c, "line") /\ ui' \in [Clients -> Uis] /\ AskedOK'
    BY <1>7, LineEffect DEF AskedOK
  <2>2. \/ UNCHANGED <<toServer, awaiting>>
        \/ \E m \in ServerMessages : SendToServer(c, m)
    BY <1>7, LineEffect
  <2>3. toServer' \in [Clients -> Seq(ServerMessages)] /\ awaiting' \in [Clients -> Seq(Requests)]
    BY <1>3, <2>2, SendToServerEffect
  <2>. QED BY <2>1, <2>3, TypeEffect DEF Inputs, ClientStepTypes
<1>8. CASE PressQ(c)
  BY <1>3, <1>8, PressQEffect, TypeEffect, RequestMessages, SendToServerEffect DEF Inputs, AskedOK, ClientStepTypes
<1>. QED BY <1>4, <1>5, <1>6, <1>7, <1>8 DEF Keyboard

LEMMA ClientLoopTypes ==
  ASSUME SystemTypeOK, AskedOK, TurnsOK, NEW c \in Clients,
         (ClientLoop(c) /\ UNCHANGED serverVars) \/ LoseServer(c)
  PROVE  SystemTypeOK' /\ AskedOK'
<1>0. UNCHANGED serverVars
  BY DEF LoseServer
<1>1. /\ ServerMessages' = ServerMessages /\ ClientMessages' = ClientMessages /\ Uis' = Uis
      /\ users' \in Seq(Documents) /\ ConnTypes' /\ TokenTypes' /\ terminated' \in BOOLEAN
  BY <1>0, ClientKept
<1>2. SUFFICES ClientStepTypes
  BY <1>1, TypesInParts DEF TypeParts, LinkTypes, UiTypes, ClientStepTypes
<1>3. /\ toServer \in [Clients -> Seq(ServerMessages)]
      /\ toClient \in [Clients -> Seq(ClientMessages)]
      /\ clientOpen \in [Clients -> BOOLEAN]
      /\ ui \in [Clients -> Uis]
      /\ typed \in [Clients -> [Inputs -> Nat]]
      /\ awaiting \in [Clients -> Seq(Requests)]
      /\ screen \in [Clients -> Seq(Texts)]
  BY TypesInParts DEF TypeParts, LinkTypes, UiTypes
<1>4. CASE HandleMessage(c)
  <2>1. Head(toClient[c]).id \in Requests => awaiting[c] # <<>>
    BY <1>4, HeadAwaited
  <2>2. ASSUME NEW d \in Clients, ui'[d].prompt = "talkto" PROVE ui'[d].currentToken # NoToken
    <3>1. d # c
      BY <1>4, <2>1, <2>2, HandleMessageEffect
    <3>2. ui'[d] = ui[d]
      BY <1>4, <2>1, <3>1, HandleMessageEffect
    <3>. QED BY <2>2, <3>2 DEF AskedOK
  <2>. QED BY <1>3, <1>4, <2>1, <2>2, HandleMessageEffect DEF AskedOK, ClientStepTypes
<1>5. CASE FindServerDown(c)
  BY <1>3, <1>5, FindServerDownEffect DEF AskedOK, linkVars, ClientStepTypes
<1>6. CASE Exit(c)
  BY <1>3, <1>6, ExitEffect DEF AskedOK, clientVars, ClientStepTypes
<1>7. CASE LoseServer(c)
  BY <1>3, <1>7, LoseServerEffect DEF AskedOK, clientVars, ClientStepTypes
<1>. QED BY <1>4, <1>5, <1>6, <1>7 DEF ClientLoop

LEMMA TypesStep ==
  ASSUME SystemTypeOK, AskedOK, TurnsOK, [Next]_vars
  PROVE  SystemTypeOK' /\ AskedOK'
<1>1. CASE ServerNext /\ UNCHANGED clientVars
  <2>1. SystemTypeOK'
    BY <1>1, AcceptTypes, OnMessageTypes, TickTypes DEF ServerNext
  <2>2. AskedOK'
    BY <1>1 DEF AskedOK, clientVars
  <2>. QED BY <2>1, <2>2
<1>2. ASSUME NEW c \in Clients, Keyboard(c) \/ ClientLoop(c), UNCHANGED serverVars
      PROVE  SystemTypeOK' /\ AskedOK'
  BY <1>2, KeyboardTypes, ClientLoopTypes
<1>3. ASSUME NEW c \in Clients, LoseServer(c)
      PROVE  SystemTypeOK' /\ AskedOK'
  BY <1>3, ClientLoopTypes
<1>4. CASE UNCHANGED vars
  BY <1>4 DEF vars, linkVars, serverVars, acceptVars, tokenVars, issueVars, clientVars,
     SystemTypeOK, AskedOK, ServerMessages, ClientMessages, Tokens
<1>. QED BY <1>1, <1>2, <1>3, <1>4 DEF Next

-----------------------------------------------------------------------------
(* That replies stay in the order of the requests, client by client: what  *)
(* it got, what it sent and what it waits for, and whether it is connected. *)

Good(got, sent, requests, connected) ==
  /\ InTurn(got, requests, 0)
  /\ connected => /\ InTurn(sent, requests, Total(got))
                  /\ Len(requests) = Total(got) + Total(sent)

LEMMA TotalType == ASSUME NEW S, NEW queue \in Seq(S) PROVE Total(queue) \in Nat
BY RepliesCount DEF Total

LEMMA GoodPlain ==
  ASSUME NEW S, NEW got \in Seq(S), NEW m \in S, m.id \notin Requests,
         NEW sent, NEW requests, NEW connected, Good(got, sent, requests, connected)
  PROVE  Good(Append(got, m), sent, requests, connected)
<1>1. InTurn(Append(got, m), requests, 0)
  BY TurnAppend DEF Good
<1>2. Total(Append(got, m)) = Total(got)
  BY TotalAppend
<1>. QED BY <1>1, <1>2 DEF Good

LEMMA GoodReply ==
  ASSUME NEW S, NEW got \in Seq(S), NEW r \in S, NEW T, NEW sent \in Seq(T), sent # <<>>,
         r.id = Head(sent).id, r.id \in Requests, NEW requests, Good(got, sent, requests, TRUE)
  PROVE  Good(Append(got, r), Tail(sent), requests, TRUE)
<1>1. Total(got) \in Nat /\ Total(Append(got, r)) = Total(got) + 1
  BY TotalAppend
<1>2. Total(got) + 1 \in DOMAIN requests /\ requests[Total(got) + 1] = r.id
  BY <1>1, TurnFirst DEF Good
<1>3. InTurn(Append(got, r), requests, 0)
  BY <1>1, <1>2, TurnAppend DEF Good
<1>4. InTurn(Tail(sent), requests, Total(got) + 1)
  BY <1>1, TurnTail DEF Good
<1>5. Total(sent) = Total(Tail(sent)) + 1 /\ Total(Tail(sent)) \in Nat
  BY TotalTail
<1>6. Len(requests) = Total(got) + Total(sent)
  BY DEF Good
<1>. QED BY <1>1, <1>3, <1>4, <1>5, <1>6 DEF Good

\* Who is not connected gets no replies any more.
LEMMA GoodLost ==
  ASSUME NEW got, NEW sent, NEW requests, NEW connected, Good(got, sent, requests, connected),
         NEW left
  PROVE  Good(got, left, requests, FALSE)
BY DEF Good

LEMMA GoodCleared == ASSUME NEW sent, NEW requests PROVE Good(<<>>, sent, requests, FALSE)
BY DEF Good, InTurn

LEMMA GoodSent ==
  ASSUME NEW S, NEW got \in Seq(S), NEW T, NEW sent \in Seq(T), NEW m \in T,
         NEW requests \in Seq(Requests), NEW connected, Good(got, sent, requests, connected)
  PROVE  Good(got, Append(sent, m),
              IF m.id \in Requests THEN Append(requests, m.id) ELSE requests, connected)
<1>1. Total(got) \in Nat /\ Total(sent) \in Nat
  BY TotalType
<1>2. Total(Append(sent, m)) = Total(sent) + (IF m.id \in Requests THEN 1 ELSE 0)
  BY TotalAppend
<1>3. CASE m.id \in Requests
  <2> DEFINE more == Append(requests, m.id)
  <2>1. /\ more \in Seq(Requests) /\ Len(more) = Len(requests) + 1
        /\ more[Len(requests) + 1] = m.id
    BY <1>3, AppendProperties
  <2>2. InTurn(got, more, 0)
    BY <1>3, TurnGrow DEF Good
  <2>3. ASSUME connected PROVE /\ InTurn(Append(sent, m), more, Total(got))
                               /\ Len(more) = Total(got) + Total(Append(sent, m))
    <3>1. Len(requests) = Total(got) + Total(sent) /\ InTurn(sent, requests, Total(got))
      BY <2>3 DEF Good
    <3>2. InTurn(sent, more, Total(got))
      BY <1>3, <3>1, TurnGrow
    <3>3. /\ Total(got) + Total(sent) + 1 \in DOMAIN more
          /\ more[Total(got) + Total(sent) + 1] = m.id
      BY <1>1, <2>1, <3>1
    <3>4. InTurn(Append(sent, m), more, Total(got))
      <4> HIDE DEF more
      <4>. QED BY <1>1, <3>2, <3>3, TurnAppend
    <3>. QED BY <1>1, <1>2, <1>3, <2>1, <3>1, <3>4
  <2>. QED BY <1>3, <2>2, <2>3 DEF Good
<1>4. CASE m.id \notin Requests
  <2>1. ASSUME connected PROVE InTurn(Append(sent, m), requests, Total(got))
    BY <1>1, <1>4, <2>1, TurnAppend DEF Good
  <2>. QED BY <1>1, <1>2, <1>4, <2>1 DEF Good
<1>. QED BY <1>3, <1>4

LEMMA GoodHandled ==
  ASSUME NEW S, NEW got \in Seq(S), got # <<>>, NEW T, NEW sent \in Seq(T),
         NEW requests \in Seq(Requests), NEW connected, Good(got, sent, requests, connected)
  PROVE  Good(Tail(got), sent,
              IF Head(got).id \in Requests THEN Tail(requests) ELSE requests, connected)
<1>1. Total(got) \in Nat /\ Total(sent) \in Nat /\ Total(Tail(got)) \in Nat
      /\ Tail(got) \in Seq(S)
  BY TotalType, HeadTailProperties
<1>2. CASE Head(got).id \in Requests
  <2>1. 0 + 1 \in DOMAIN requests
    BY <1>2, TurnFirst DEF Good
  <2>2. requests # <<>> /\ Len(Tail(requests)) = Len(requests) - 1
    BY <2>1, HeadTailProperties
  <2>3. InTurn(Tail(got), requests, 0 + 1)
    BY <1>2, TurnTail DEF Good
  <2>4. InTurn(Tail(got), Tail(requests), 0)
    BY <1>1, <2>2, <2>3, TurnRequestsTail
  <2>5. Total(got) = Total(Tail(got)) + 1
    BY <1>2, TotalTail
  <2>6. ASSUME connected PROVE /\ InTurn(sent, Tail(requests), Total(Tail(got)))
                               /\ Len(Tail(requests)) = Total(Tail(got)) + Total(sent)
    <3>1. InTurn(sent, requests, Total(Tail(got)) + 1) /\ Len(requests) = Total(got) + Total(sent)
      BY <2>5, <2>6 DEF Good
    <3>2. InTurn(sent, Tail(requests), Total(Tail(got)))
      BY <1>1, <2>2, <3>1, TurnRequestsTail
    <3>. QED BY <1>1, <2>2, <2>5, <3>1, <3>2
  <2>. QED BY <1>2, <2>4, <2>6 DEF Good
<1>3. CASE Head(got).id \notin Requests
  <2>1. InTurn(Tail(got), requests, 0)
    <3>1. InTurn(Tail(got), requests, 0 + 0)
      BY <1>3, TurnTail DEF Good
    <3>. QED BY <3>1
  <2>2. Total(got) = Total(Tail(got))
    BY <1>1, <1>3, TotalTail
  <2>. QED BY <1>3, <2>1, <2>2 DEF Good
<1>. QED BY <1>2, <1>3

GoodFor(c) == Good(toClient[c], toServer[c], awaiting[c], Connected(c))
ListedOK == \A c \in Clients : conn[c].id # 0 =>
              \E i \in DOMAIN m_deqConnections : m_deqConnections[i] = c

AnswersOK == ListedOK /\ \A c \in Clients : GoodFor(c)

LEMMA AnswersTurns == AnswersOK => TurnsOK /\ AnsweredInOrder
BY DEF AnswersOK, GoodFor, Good, TurnsOK, AnsweredInOrder

\* What is the same and connected no more than before is still good.
LEMMA GoodKept ==
  ASSUME NEW c \in Clients, GoodFor(c), Connected(c)' => Connected(c),
         toClient'[c] = toClient[c], toServer'[c] = toServer[c], awaiting'[c] = awaiting[c]
  PROVE  GoodFor(c)'
BY DEF GoodFor, Good

LEMMA PushAnswers ==
  ASSUME SystemTypeOK, AnswersOK, NEW c \in Clients, PushConnection(c), UNCHANGED clientVars
  PROVE  AnswersOK'
<1>1. conn[c].id = 0
  BY DEF AnswersOK, ListedOK, PushConnection
<1>2. /\ conn' = [conn EXCEPT ![c].open = TRUE]
      /\ UNCHANGED <<toServer, clientOpen, terminated, awaiting>>
      /\ toClient' = IF clientOpen[c]
                     THEN [toClient EXCEPT ![c] = Append(@, [id |-> "ServerAccept"])] ELSE toClient
      /\ m_deqConnections' = Append(m_deqConnections, c)
  BY DEF PushConnection, clientVars
<1>3. \A d \in Clients : conn'[d].id = conn[d].id /\ (d # c => conn'[d] = conn[d])
  BY <1>2 DEF SystemTypeOK
<1>4. ListedOK'
  <2>1. \A i \in DOMAIN m_deqConnections :
          i \in DOMAIN m_deqConnections' /\ m_deqConnections'[i] = m_deqConnections[i]
    <3>1. m_deqConnections \in Seq(Clients)
      BY DEF SystemTypeOK
    <3>. QED BY <1>2, <3>1, AppendProperties
  <2>. QED BY <1>3, <2>1 DEF AnswersOK, ListedOK
<1>5. ASSUME NEW d \in Clients PROVE GoodFor(d)'
  <2>1. Connected(d)' => Connected(d)
    <3>1. clientOpen' = clientOpen /\ terminated' = terminated /\ conn'[d].id = conn[d].id
      BY <1>2, <1>3
    <3>2. CASE d = c
      BY <1>1, <3>1, <3>2 DEF Connected
    <3>3. CASE d # c
      BY <1>3, <3>1, <3>3 DEF Connected
    <3>. QED BY <3>2, <3>3
  <2>2. CASE toClient'[d] = toClient[d]
    BY <1>2, <2>1, <2>2, GoodKept DEF AnswersOK
  <2>3. CASE toClient'[d] # toClient[d]
    <3>1. toClient'[d] = Append(toClient[d], [id |-> "ServerAccept"])
      BY <1>2, <2>3 DEF SystemTypeOK
    <3>2. toClient[d] \in Seq(ClientMessages) /\ [id |-> "ServerAccept"] \in ClientMessages
      BY AcceptMessage DEF SystemTypeOK
    <3>3. [id |-> "ServerAccept"].id \notin Requests
      BY DEF Requests
    <3>4. Good(toClient'[d], toServer[d], awaiting[d], Connected(d))
      BY <3>1, <3>2, <3>3, GoodPlain DEF AnswersOK, GoodFor
    <3>. QED BY <1>2, <2>1, <3>4 DEF GoodFor, Good
  <2>. QED BY <2>2, <2>3
<1>. QED BY <1>4, <1>5 DEF AnswersOK

LEMMA IdentifyAnswers ==
  ASSUME SystemTypeOK, AnswersOK, NEW c \in Clients,
         IdentifyConnection(c) \/ NoticeClientGone(c), UNCHANGED clientVars
  PROVE  AnswersOK'
<1>1. UNCHANGED <<toServer, toClient, clientOpen, terminated, awaiting, m_deqConnections>>
  BY DEF IdentifyConnection, NoticeClientGone, linkVars, acceptVars, clientVars
<1>2. \A d \in Clients : d # c => conn'[d] = conn[d]
  BY DEF IdentifyConnection, NoticeClientGone, SystemTypeOK
<1>3. \/ conn[c].id = 0 /\ \E i \in DOMAIN m_deqConnections : m_deqConnections[i] = c
      \/ conn'[c].id = conn[c].id /\ conn'[c].id # 0 /\ ~conn'[c].open
  BY DEF IdentifyConnection, NoticeClientGone, SystemTypeOK
<1>4. ListedOK'
  BY <1>1, <1>2, <1>3 DEF AnswersOK, ListedOK
<1>5. ASSUME NEW d \in Clients PROVE GoodFor(d)'
  <2>1. Connected(d)' => Connected(d)
    BY <1>1, <1>2, <1>3 DEF Connected
  <2>. QED BY <1>1, <2>1, GoodKept DEF AnswersOK
<1>. QED BY <1>4, <1>5 DEF AnswersOK

\* A request is handled and answered by a message of the same kind, after
\* others may have been sent.
LEMMA ReplyAnswers ==
  ASSUME SystemTypeOK, AnswersOK, NEW c \in Clients, NEW kind \in Requests, Handles(c, kind),
         UNCHANGED awaiting, UNCHANGED terminated,
         \A d \in Clients : conn'[d].id = conn[d].id /\ conn'[d].open = conn[d].open,
         NEW M, NEW queue \in [Clients -> Seq(M)],
         \A d \in Clients : Good(queue[d], toServer[d], awaiting[d], Connected(d)),
         NEW r \in M, r.id = kind, toClient' = With(queue, c, r)
  PROVE  AnswersOK'
<1>1. /\ Received(c).id = kind
      /\ \A d \in Clients : d # c => toServer'[d] = toServer[d]
      /\ toServer'[c] = Tail(toServer[c])
      /\ toServer[c] # <<>>
      /\ ~terminated /\ conn[c].id # 0
      /\ UNCHANGED <<clientOpen, acceptVars, now>>
  BY HandlesEffect, TypesInParts DEF TypeParts
<1>2. ListedOK'
  BY <1>1 DEF AnswersOK, ListedOK, acceptVars
<1>3. \A d \in Clients : Connected(d)' <=> Connected(d)
  BY <1>1 DEF Connected
<1>4. ASSUME NEW d \in Clients, d # c PROVE GoodFor(d)'
  <2>1. toClient'[d] = queue[d] /\ toServer'[d] = toServer[d]
    BY <1>1, <1>4, WithType
  <2>2. Good(toClient'[d], toServer'[d], awaiting'[d], Connected(d))
    BY <2>1
  <2>. QED BY <1>3, <2>2 DEF GoodFor, Good
<1>5. GoodFor(c)'
  <2>1. Connected(c) <=> Reaches(c)
    BY <1>1 DEF Connected, Reaches
  <2>2. CASE Reaches(c)
    <3>1. toClient'[c] = Append(queue[c], r)
      BY <2>2 DEF With
    <3>2. Good(queue[c], toServer[c], awaiting[c], TRUE)
      BY <2>1, <2>2 DEF Good
    <3>3. r.id = Head(toServer[c]).id
      BY <1>1 DEF Received
    <3>4. toServer[c] \in Seq(ServerMessages) /\ queue[c] \in Seq(M)
      BY DEF SystemTypeOK
    <3>5. Good(toClient'[c], toServer'[c], awaiting[c], TRUE)
      BY <1>1, <3>1, <3>2, <3>3, <3>4, GoodReply
    <3>. QED BY <3>5 DEF GoodFor, Good
  <2>3. CASE ~Reaches(c)
    <3>1. toClient'[c] = queue[c]
      BY <2>3 DEF With
    <3>2. Good(toClient'[c], toServer'[c], awaiting[c], FALSE)
      BY <3>1, GoodLost
    <3>3. ~Connected(c)'
      BY <1>3, <2>1, <2>3
    <3>. QED BY <3>2, <3>3 DEF GoodFor, Good
  <2>. QED BY <2>2, <2>3 DEF Reaches
<1>. QED BY <1>2, <1>4, <1>5 DEF AnswersOK

LEMMA PingAnswers ==
  ASSUME SystemTypeOK, AnswersOK, NEW c \in Clients, OnServerPing(c), UNCHANGED clientVars
  PROVE  AnswersOK'
<1>1. Handles(c, "ServerPing") /\ UNCHANGED <<conn, terminated, awaiting>>
      /\ toClient' = With(toClient, c, Received(c))
  BY DEF OnServerPing, clientVars
<1>2. Received(c) \in ClientMessages /\ Received(c).id = "ServerPing" /\ "ServerPing" \in Requests
  BY <1>1, HandlesEffect, PingMessage, TypesInParts DEF TypeParts, Requests
<1>3. toClient \in [Clients -> Seq(ClientMessages)]
  BY DEF SystemTypeOK
<1>4. \A d \in Clients : Good(toClient[d], toServer[d], awaiting[d], Connected(d))
  BY DEF AnswersOK, GoodFor
<1>. QED BY <1>1, <1>2, <1>3, <1>4, ReplyAnswers

LEMMA RegisterAnswers ==
  ASSUME SystemTypeOK, AnswersOK, NEW c \in Clients, OnRegister(c), UNCHANGED clientVars
  PROVE  AnswersOK'
<1>1. PICK r : /\ r.id = "Register"
               /\ toClient' = With(toClient, c, r)
  BY DEF OnRegister
<1>2. Handles(c, "Register") /\ UNCHANGED <<conn, terminated, awaiting>>
  BY DEF OnRegister, clientVars
<1>3. PICK M : M = ClientMessages \cup {r}
  OBVIOUS
<1>4. toClient \in [Clients -> Seq(M)] /\ r \in M /\ "Register" \in Requests
  BY <1>3, SeqMonotonic DEF SystemTypeOK, Requests
<1>5. \A d \in Clients : Good(toClient[d], toServer[d], awaiting[d], Connected(d))
  BY DEF AnswersOK, GoodFor
<1>. QED BY <1>1, <1>2, <1>4, <1>5, ReplyAnswers

LEMMA LoginAnswers ==
  ASSUME SystemTypeOK, AnswersOK, NEW c \in Clients, OnLogin(c), UNCHANGED clientVars
  PROVE  AnswersOK'
<1>1. PICK r : /\ r.id = "Login"
               /\ toClient' = With(toClient, c, r)
  BY DEF OnLogin, LoginReply
<1>2. Handles(c, "Login") /\ UNCHANGED <<terminated, awaiting>>
  BY DEF OnLogin, clientVars
<1>3. PICK M : M = ClientMessages \cup {r}
  OBVIOUS
<1>4. toClient \in [Clients -> Seq(M)] /\ r \in M /\ "Login" \in Requests
  BY <1>3, SeqMonotonic DEF SystemTypeOK, Requests
<1>5. \A d \in Clients : Good(toClient[d], toServer[d], awaiting[d], Connected(d))
  BY DEF AnswersOK, GoodFor
<1>6. \A d \in Clients : conn'[d].id = conn[d].id /\ conn'[d].open = conn[d].open
  <2>1. conn \in [Clients -> Connections]
    BY TypesInParts DEF TypeParts, ConnTypes
  <2>2. PICK u \in Usernames :
          \/ conn' = conn
          \/ conn' = [conn EXCEPT ![c].clientUsername = u, ![c].currentToken = issued + 1]
    BY LoginEffect
  <2>3. CASE conn' = conn
    BY <2>3
  <2>4. CASE conn' = [conn EXCEPT ![c].clientUsername = u, ![c].currentToken = issued + 1]
    BY <2>1, <2>4 DEF Connections
  <2>. QED BY <2>2, <2>3, <2>4
<1>. QED BY <1>1, <1>2, <1>4, <1>5, <1>6, ReplyAnswers

LEMMA InitiateAnswers ==
  ASSUME SystemTypeOK, AnswersOK, NEW c \in Clients, OnInitiateConversation(c),
         UNCHANGED clientVars
  PROVE  AnswersOK'
<1>1. PICK r : /\ r.id = "InitiateConversation"
               /\ toClient' = With(toClient, c, r)
  BY DEF OnInitiateConversation
<1>2. Handles(c, "InitiateConversation") /\ UNCHANGED <<conn, terminated, awaiting>>
  BY DEF OnInitiateConversation, clientVars
<1>3. PICK M : M = ClientMessages \cup {r}
  OBVIOUS
<1>4. toClient \in [Clients -> Seq(M)] /\ r \in M /\ "InitiateConversation" \in Requests
  BY <1>3, SeqMonotonic DEF SystemTypeOK, Requests
<1>5. \A d \in Clients : Good(toClient[d], toServer[d], awaiting[d], Connected(d))
  BY DEF AnswersOK, GoodFor
<1>. QED BY <1>1, <1>2, <1>4, <1>5, ReplyAnswers

\* What ends a connection, or the server, takes its messages with it.
LEMMA LostAnswers ==
  ASSUME SystemTypeOK, AnswersOK, NEW c \in Clients, NEW kind, Handles(c, kind),
         UNCHANGED <<toClient, awaiting>>,
         \A d \in Clients : conn'[d].id = conn[d].id /\ (d # c => conn'[d] = conn[d]),
         ~conn'[c].open \/ terminated', terminated => terminated'
  PROVE  AnswersOK'
<1>1. /\ \A d \in Clients : d # c => toServer'[d] = toServer[d]
      /\ conn[c].id # 0
      /\ UNCHANGED <<clientOpen, acceptVars>>
  BY HandlesEffect, TypesInParts DEF TypeParts
<1>2. ListedOK'
  BY <1>1 DEF AnswersOK, ListedOK, acceptVars
<1>3. ASSUME NEW d \in Clients, d # c PROVE GoodFor(d)'
  <2>1. Connected(d)' => Connected(d)
    BY <1>1, <1>3 DEF Connected
  <2>. QED BY <1>1, <1>3, <2>1, GoodKept DEF AnswersOK
<1>4. GoodFor(c)'
  <2>1. ~Connected(c)'
    BY <1>1 DEF Connected
  <2>2. Good(toClient[c], toServer[c], awaiting[c], Connected(c))
    BY DEF AnswersOK, GoodFor
  <2>. QED BY <2>1, <2>2 DEF GoodFor, Good
<1>. QED BY <1>2, <1>3, <1>4 DEF AnswersOK

LEMMA SendAnswers ==
  ASSUME SystemTypeOK, AnswersOK, NEW c \in Clients, OnSendMessageToUser(c),
         UNCHANGED clientVars
  PROVE  AnswersOK'
<1>1. Handles(c, "SendMessageToUser") /\ UNCHANGED <<conn, awaiting>>
  BY DEF OnSendMessageToUser, clientVars
<1>2. Received(c) \in ServerMessages /\ Received(c).id = "SendMessageToUser"
  BY <1>1, HandlesEffect, TypesInParts DEF TypeParts
<1>3. CASE terminated' = TRUE /\ UNCHANGED toClient
  BY <1>1, <1>3, LostAnswers
<1>4. CASE toClient' = Relay(c, Received(c)) /\ UNCHANGED terminated
  <2>1. /\ [id |-> "ReceiveMessageFromUser", text |-> Received(c).text] \in ClientMessages
        /\ [id |-> "SendMessageToUser", text |-> Received(c).text] \in ClientMessages
    BY <1>2, ServerMessageFields DEF ClientMessages
  <2>2. PICK forward \in ClientMessages, echo \in ClientMessages :
          /\ forward = [id |-> "ReceiveMessageFromUser", text |-> Received(c).text]
          /\ echo = [id |-> "SendMessageToUser", text |-> Received(c).text]
    BY <2>1
  <2>3. forward.id \notin Requests /\ echo.id = "SendMessageToUser"
        /\ "SendMessageToUser" \in Requests
    BY <2>2 DEF Requests
  <2>4. PICK forwarded \in [Clients -> Seq(ClientMessages)] :
          /\ \/ forwarded = toClient
             \/ \E d \in Clients : forwarded = With(toClient, d, forward)
          /\ Relay(c, Received(c)) = With(forwarded, c, echo)
    BY <1>2, <2>2, RelayEffect
  <2>5. ASSUME NEW d \in Clients PROVE Good(forwarded[d], toServer[d], awaiting[d], Connected(d))
    <3>1. Good(toClient[d], toServer[d], awaiting[d], Connected(d))
      BY DEF AnswersOK, GoodFor
    <3>2. toClient[d] \in Seq(ClientMessages) /\ toClient \in [Clients -> Seq(ClientMessages)]
      BY DEF SystemTypeOK
    <3>3. forwarded[d] = toClient[d] \/ forwarded[d] = Append(toClient[d], forward)
      <4>1. \A e \in Clients : \/ With(toClient, e, forward)[d] = toClient[d]
                               \/ With(toClient, e, forward)[d] = Append(toClient[d], forward)
        <5>1. toClient \in [Clients -> Seq(ClientMessages)]
          BY <3>2
        <5>. QED BY <5>1 DEF With
      <4>. QED BY <2>4, <4>1
    <3>. QED BY <2>3, <3>1, <3>2, <3>3, GoodPlain
  <2>6. toClient' = With(forwarded, c, echo)
    BY <1>4, <2>4
  <2>. QED BY <1>1, <1>4, <2>3, <2>5, <2>6, ReplyAnswers
<1>. QED BY <1>3, <1>4 DEF OnSendMessageToUser

LEMMA DisconnectAnswers ==
  ASSUME SystemTypeOK, AnswersOK, NEW c \in Clients, OnDisconnectClient(c), UNCHANGED clientVars
  PROVE  AnswersOK'
<1>1. /\ Handles(c, "DisconnectClient") /\ UNCHANGED <<toClient, awaiting, terminated>>
      /\ conn' = [conn EXCEPT ![c].open = FALSE]
  BY DEF OnDisconnectClient, clientVars
<1>2. /\ \A d \in Clients : conn'[d].id = conn[d].id /\ (d # c => conn'[d] = conn[d])
      /\ ~conn'[c].open
  BY <1>1 DEF SystemTypeOK
<1>. QED BY <1>1, <1>2, LostAnswers

\* A step of a client's main thread.
LEMMA SendToServerAnswers ==
  ASSUME SystemTypeOK, AnswersOK, NEW c \in Clients, NEW m \in ServerMessages,
         SendToServer(c, m), UNCHANGED <<toClient, clientOpen, serverVars>>
  PROVE  AnswersOK'
<1>1. UNCHANGED <<conn, terminated, m_deqConnections>>
  BY DEF serverVars, acceptVars
<1>2. ListedOK' /\ \A d \in Clients : Connected(d)' <=> Connected(d)
  BY <1>1 DEF AnswersOK, ListedOK, Connected
<1>3. CASE ~clientOpen[c]
  <2>1. UNCHANGED <<toServer, awaiting>>
    BY <1>3 DEF SendToServer
  <2>. QED BY <1>2, <2>1, GoodKept DEF AnswersOK
<1>4. CASE clientOpen[c]
  <2>1. /\ toServer' = [toServer EXCEPT ![c] = Append(@, m)]
        /\ awaiting' = IF m.id \in Requests THEN [awaiting EXCEPT ![c] = Append(@, m.id)]
                       ELSE awaiting
    BY <1>4 DEF SendToServer
  <2>2. ASSUME NEW d \in Clients, d # c PROVE GoodFor(d)'
    <3>1. toServer'[d] = toServer[d] /\ awaiting'[d] = awaiting[d]
      BY <2>1, <2>2 DEF SystemTypeOK
    <3>. QED BY <1>2, <2>2, <3>1, GoodKept DEF AnswersOK
  <2>3. GoodFor(c)'
    <3>1. /\ toServer'[c] = Append(toServer[c], m)
          /\ awaiting'[c] = IF m.id \in Requests THEN Append(awaiting[c], m.id) ELSE awaiting[c]
      BY <2>1 DEF SystemTypeOK
    <3>2. /\ toServer[c] \in Seq(ServerMessages) /\ awaiting[c] \in Seq(Requests)
          /\ toClient[c] \in Seq(ClientMessages)
      BY DEF SystemTypeOK
    <3>3. Good(toClient[c], toServer[c], awaiting[c], Connected(c))
      BY DEF AnswersOK, GoodFor
    <3>4. Good(toClient[c], toServer'[c], awaiting'[c], Connected(c))
      BY <3>1, <3>2, <3>3, GoodSent
    <3>. QED BY <1>2, <3>4 DEF GoodFor, Good
  <2>. QED BY <1>2, <2>2, <2>3 DEF AnswersOK
<1>. QED BY <1>3, <1>4

LEMMA NothingSentAnswers ==
  ASSUME AnswersOK, UNCHANGED <<toServer, toClient, clientOpen, awaiting, serverVars>>
  PROVE  AnswersOK'
<1>1. ListedOK' /\ \A d \in Clients : Connected(d)' <=> Connected(d)
  BY DEF AnswersOK, ListedOK, Connected, serverVars, acceptVars
<1>. QED BY <1>1, GoodKept DEF AnswersOK

LEMMA KeyboardAnswers ==
  ASSUME SystemTypeOK, AskedOK, AnswersOK, NEW c \in Clients, Keyboard(c), UNCHANGED serverVars
  PROVE  AnswersOK'
<1>1. CASE PingServer(c)
  <2>1. SendToServer(c, [id |-> "ServerPing"]) /\ UNCHANGED <<toClient, clientOpen>>
    BY <1>1 DEF PingServer, Command, Type
  <2>. QED BY <2>1, SendToServerAnswers, RequestMessages
<1>2. ASSUME NEW input \in Prompts, Ask(c, input) PROVE AnswersOK'
  BY <1>2, NothingSentAnswers DEF Ask, Command, Type
<1>3. CASE Answer(c)
  BY <1>3, AnswerEffect, SendToServerAnswers, NothingSentAnswers
<1>4. CASE SendMessageToUser(c)
  <2>1. UNCHANGED <<toClient, clientOpen>>
    BY <1>4 DEF SendMessageToUser, Type
  <2>. QED BY <1>4, <2>1, LineEffect, SendToServerAnswers, NothingSentAnswers
<1>5. CASE PressQ(c)
  <2>1. UNCHANGED <<toClient, clientOpen>>
    BY <1>5 DEF PressQ, Type
  <2>. QED BY <1>5, <2>1, PressQEffect, RequestMessages, SendToServerAnswers, NothingSentAnswers
<1>. QED BY <1>1, <1>2, <1>3, <1>4, <1>5 DEF Keyboard

LEMMA HandleAnswers ==
  ASSUME SystemTypeOK, AnswersOK, NEW c \in Clients, HandleMessage(c), UNCHANGED serverVars
  PROVE  AnswersOK'
<1>1. Head(toClient[c]).id \in Requests => awaiting[c] # <<>>
  BY HeadAwaited, AnswersTurns
<1>2. UNCHANGED <<conn, terminated, m_deqConnections, clientOpen, toServer>>
  BY <1>1, HandleMessageEffect DEF serverVars, acceptVars
<1>3. ListedOK' /\ \A d \in Clients : Connected(d)' <=> Connected(d)
  BY <1>2 DEF AnswersOK, ListedOK, Connected
<1>4. ASSUME NEW d \in Clients, d # c PROVE GoodFor(d)'
  <2>1. toClient'[d] = toClient[d] /\ awaiting'[d] = awaiting[d]
    BY <1>1, <1>4, HandleMessageEffect
  <2>. QED BY <1>2, <1>3, <1>4, <2>1, GoodKept DEF AnswersOK
<1>5. GoodFor(c)'
  <2>1. /\ toClient[c] # <<>> /\ toClient'[c] = Tail(toClient[c])
        /\ awaiting'[c] = IF Head(toClient[c]).id \in Requests THEN Tail(awaiting[c])
                          ELSE awaiting[c]
    BY <1>1, HandleMessageEffect
  <2>2. /\ toServer[c] \in Seq(ServerMessages) /\ awaiting[c] \in Seq(Requests)
        /\ toClient[c] \in Seq(ClientMessages)
    BY DEF SystemTypeOK
  <2>3. Good(toClient[c], toServer[c], awaiting[c], Connected(c))
    BY DEF AnswersOK, GoodFor
  <2>4. Good(toClient'[c], toServer[c], awaiting'[c], Connected(c))
    BY <2>1, <2>2, <2>3, GoodHandled
  <2>. QED BY <1>2, <1>3, <2>4 DEF GoodFor, Good
<1>. QED BY <1>3, <1>4, <1>5 DEF AnswersOK

\* An end of the connection is closed: by the program or by a failed read.
LEMMA CloseAnswers ==
  ASSUME SystemTypeOK, AnswersOK, NEW c \in Clients,
         (Exit(c) /\ UNCHANGED serverVars) \/ LoseServer(c)
  PROVE  AnswersOK'
<1>1. /\ clientOpen' = [clientOpen EXCEPT ![c] = FALSE]
      /\ toClient' = [toClient EXCEPT ![c] = <<>>]
      /\ UNCHANGED <<conn, terminated, m_deqConnections, awaiting>>
  BY DEF Exit, LoseServer, serverVars, acceptVars, clientVars
<1>2. \A d \in Clients : d # c => toServer'[d] = toServer[d]
  BY DEF Exit, LoseServer, SystemTypeOK
<1>3. ListedOK'
  BY <1>1 DEF AnswersOK, ListedOK
<1>4. ASSUME NEW d \in Clients, d # c PROVE GoodFor(d)'
  <2>1. toClient'[d] = toClient[d] /\ clientOpen'[d] = clientOpen[d]
    BY <1>1, <1>4 DEF SystemTypeOK
  <2>2. Connected(d)' => Connected(d)
    BY <1>1, <2>1 DEF Connected
  <2>. QED BY <1>1, <1>2, <1>4, <2>1, <2>2, GoodKept DEF AnswersOK
<1>5. GoodFor(c)'
  <2>1. toClient'[c] = <<>> /\ ~Connected(c)'
    BY <1>1 DEF SystemTypeOK, Connected
  <2>2. Good(<<>>, toServer'[c], awaiting'[c], FALSE)
    BY GoodCleared
  <2>. QED BY <2>1, <2>2 DEF GoodFor, Good
<1>. QED BY <1>3, <1>4, <1>5 DEF AnswersOK

LEMMA AnswersStep ==
  ASSUME SystemTypeOK, AskedOK, AnswersOK, [Next]_vars
  PROVE  AnswersOK'
<1>1. ASSUME NEW c \in Clients, Accept(c) \/ NoticeClientGone(c), UNCHANGED clientVars
      PROVE  AnswersOK'
  BY <1>1, PushAnswers, IdentifyAnswers DEF Accept
<1>2. ASSUME NEW c \in Clients, OnMessage(c), UNCHANGED clientVars PROVE AnswersOK'
  BY <1>2, PingAnswers, DisconnectAnswers, RegisterAnswers, LoginAnswers, InitiateAnswers,
     SendAnswers DEF OnMessage
<1>3. CASE (Tick /\ UNCHANGED clientVars) \/ UNCHANGED vars
  <2>1. UNCHANGED <<linkVars, awaiting, conn, acceptVars, terminated>>
    BY <1>3 DEF Tick, vars, serverVars, clientVars
  <2>2. ListedOK' /\ \A d \in Clients : Connected(d)' <=> Connected(d)
    BY <2>1 DEF AnswersOK, ListedOK, Connected, linkVars, acceptVars
  <2>. QED BY <2>1, <2>2, GoodKept DEF AnswersOK, linkVars
<1>4. ASSUME NEW c \in Clients, Keyboard(c), UNCHANGED serverVars PROVE AnswersOK'
  BY <1>4, KeyboardAnswers
<1>5. ASSUME NEW c \in Clients, ClientLoop(c), UNCHANGED serverVars PROVE AnswersOK'
  <2>1. CASE FindServerDown(c)
    BY <1>5, <2>1, NothingSentAnswers DEF FindServerDown, linkVars
  <2>. QED BY <1>5, <2>1, HandleAnswers, CloseAnswers DEF ClientLoop
<1>6. ASSUME NEW c \in Clients, LoseServer(c) PROVE AnswersOK'
  BY <1>6, CloseAnswers
<1>. QED BY <1>1, <1>2, <1>3, <1>4, <1>5, <1>6 DEF Next, ServerNext

-----------------------------------------------------------------------------
(* The invariant the others rest on.                                       *)

SystemInv == SystemTypeOK /\ AskedOK /\ AnswersOK

LEMMA SystemInvInit == Init => SystemInv
<1> SUFFICES ASSUME Init PROVE SystemInv
  OBVIOUS
<1>1. /\ users = InitialUsers /\ m_deqConnections = <<>> /\ nIDCounter = 10000
      /\ conn = [c \in Clients |-> NewConnection] /\ tokens = <<>> /\ issued = 0
      /\ unrecorded = {} /\ now = 0 /\ terminated = FALSE
  BY DEF Init, ServerInit
<1>2. /\ toServer = [c \in Clients |-> <<>>] /\ toClient = [c \in Clients |-> <<>>]
      /\ clientOpen = [c \in Clients |-> TRUE]
  BY DEF Init, LinkInit
<1>3. /\ ui = [c \in Clients |->
                 [commandMode |-> TRUE, conversationMode |-> FALSE, prompt |-> "none",
                  currentToken |-> NoToken, currentConversatorID |-> 0, bQuit |-> FALSE]]
      /\ typed = [c \in Clients |-> [i \in Inputs |-> 0]]
      /\ awaiting = [c \in Clients |-> <<>>] /\ screen = [c \in Clients |-> <<>>]
  BY DEF Init, ClientInit
<1>4. LinkTypes /\ users \in Seq(Documents) /\ terminated \in BOOLEAN
  <2>1. \A S : [c \in Clients |-> <<>>] \in [Clients -> Seq(S)]
    OBVIOUS
  <2>2. LinkTypes
    BY <1>2, <2>1 DEF LinkTypes
  <2>3. users \in Seq(Documents)
    BY <1>1, AccountsAssumption
  <2>4. terminated \in BOOLEAN
    <3>1. terminated = FALSE
      BY DEF Init, ServerInit
    <3>. QED BY <3>1, Zenon
  <2>. QED BY <2>2, <2>3, <2>4
<1>5. ConnTypes
  BY <1>1, ProtocolAssumption DEF ConnTypes, Connections, NewConnection
<1>6. TokenTypes
  BY <1>1, ServerAssumption DEF TokenTypes
<1>7. UiTypes
  BY <1>3 DEF UiTypes, Uis
<1>8. AskedOK
  BY <1>3 DEF AskedOK
<1>9. ListedOK
  BY <1>1 DEF ListedOK, NewConnection
<1>10. ASSUME NEW c \in Clients PROVE GoodFor(c)
  <2>1. toClient[c] = <<>> /\ toServer[c] = <<>> /\ awaiting[c] = <<>>
    BY <1>2, <1>3
  <2>2. Total(<<>>) = 0
    <3>1. Among(<<>>, 0) = {}
      BY DEF Among
    <3>. QED BY <3>1, RepliesCount, FS_EmptySet DEF Total
  <2>3. InTurn(<<>>, <<>>, 0)
    BY DEF InTurn
  <2>. QED BY <2>1, <2>2, <2>3 DEF GoodFor, Good
<1>. QED BY <1>4, <1>5, <1>6, <1>7, <1>8, <1>9, <1>10, TypesInParts
     DEF TypeParts, SystemInv, AnswersOK

LEMMA SystemInvStep == SystemInv /\ [Next]_vars => SystemInv'
BY TypesStep, AnswersStep, AnswersTurns DEF SystemInv

LEMMA SystemInvariant == Spec => []SystemInv
BY SystemInvInit, SystemInvStep, PTL DEF Spec

\* The state of the server and of every client program, and what is on its
\* way between them, has its type.
THEOREM SystemTypeCorrect == Spec => []SystemTypeOK
<1>1. SystemInv => SystemTypeOK
  BY DEF SystemInv
<1>. QED BY <1>1, SystemInvariant, PTL

\* Replies come in the order of the requests, one of its kind to each, whoever
\* logs in, talks, leaves a conversation or breaks off in between.
THEOREM AnsweredInOrderAlways == Spec => []AnsweredInOrder
<1>1. SystemInv => AnsweredInOrder
  BY AnswersTurns DEF SystemInv
<1>. QED BY <1>1, SystemInvariant, PTL

=============================================================================
