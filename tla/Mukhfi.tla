------------------------------- MODULE Mukhfi -------------------------------
(***************************************************************************)
(* The whole system: the server and the client programs connected to it.   *)
(***************************************************************************)
EXTENDS CustomServer, CustomClient, FiniteSets

vars == <<linkVars, serverVars, clientVars>>

Init == LinkInit /\ ServerInit /\ ClientInit

\* A read of the client fails since the server has ended or has closed the
\* connection; what the client has not handled by then it never will.
LoseServer(c) ==
  /\ clientOpen[c]
  /\ terminated \/ (conn[c].id # 0 /\ ~conn[c].open)
  /\ clientOpen' = [clientOpen EXCEPT ![c] = FALSE]
  /\ toClient' = [toClient EXCEPT ![c] = <<>>]
  /\ UNCHANGED <<toServer, serverVars, clientVars>>

Next ==
  \/ ServerNext /\ UNCHANGED clientVars
  \/ \E c \in Clients : (Keyboard(c) \/ ClientLoop(c)) /\ UNCHANGED serverVars
  \/ \E c \in Clients : LoseServer(c)

Spec == Init /\ [][Next]_vars

(* The threads of the server and the client programs keep running, and the *)
(* main thread of the server handles what is in m_qMessagesIn in order, so *)
(* that no client waits for ever behind another. The users owe nothing.    *)
Fairness ==
  \A c \in Clients :
    /\ WF_vars((Accept(c) \/ NoticeClientGone(c)) /\ UNCHANGED clientVars)
    /\ WF_vars(OnMessage(c) /\ UNCHANGED clientVars)
    /\ WF_vars(ClientLoop(c) /\ UNCHANGED serverVars)
    /\ WF_vars(LoseServer(c))

FairSpec == Spec /\ Fairness

-----------------------------------------------------------------------------
Texts == [from : Clients, n : Nat]
Codes == 0..1023
Tokens == 1..issued

ServerMessages ==
  [id : {"ServerPing", "DisconnectClient"}]
  \cup [id : {"Login", "Register"}, username : Usernames, password : Passwords]
  \cup [id : {"InitiateConversation"}, token : Tokens, username : Usernames]
  \cup [id : {"SendMessageToUser"}, token : Tokens, to : Nat, text : Texts]

ClientMessages ==
  [id : {"ServerAccept", "ServerPing"}]
  \cup [id : {"Login"}, token : Tokens \cup {NoToken}, code : Codes]
  \cup [id : {"Register"}, code : Codes]
  \cup [id : {"InitiateConversation"}, to : Nat \cup {Failed}]
  \cup [id : {"SendMessageToUser", "ReceiveMessageFromUser"}, text : Texts]

SystemTypeOK ==
  /\ users \in Seq(Documents)
  /\ toServer \in [Clients -> Seq(ServerMessages)]
  /\ toClient \in [Clients -> Seq(ClientMessages)]
  /\ clientOpen \in [Clients -> BOOLEAN]
  /\ conn \in [Clients -> [id : Nat, clientUsername : Usernames,
                           currentToken : Tokens \cup {NoToken}, open : BOOLEAN]]
  /\ m_deqConnections \in Seq(Clients)
  /\ nIDCounter \in Nat
  /\ tokens \in [DOMAIN tokens -> 0..now] /\ DOMAIN tokens \subseteq Tokens
  /\ issued \in Nat
  /\ unrecorded \subseteq Tokens
  /\ now \in 0..MaxTime
  /\ terminated \in BOOLEAN
  /\ ui \in [Clients -> [commandMode : BOOLEAN, conversationMode : BOOLEAN,
                         prompt : Prompts \cup {"none"}, currentToken : Tokens \cup {NoToken},
                         currentConversatorID : Nat, bQuit : BOOLEAN]]
  /\ typed \in [Clients -> [Inputs -> Nat]]
  /\ awaiting \in [Clients -> Seq(Requests)]
  /\ screen \in [Clients -> Seq(Texts)]

\* How many of the first i messages of a queue are requests or replies.
Replies(queue, i) == Cardinality({j \in 1..i : queue[j].id \in Requests})
Total(queue) == Replies(queue, Len(queue))

\* After so many before them, those of the queue are the next in requests.
InTurn(queue, requests, before) ==
  \A i \in DOMAIN queue :
    queue[i].id \in Requests =>
      /\ before + Replies(queue, i) \in DOMAIN requests
      /\ requests[before + Replies(queue, i)] = queue[i].id

Connected(c) == clientOpen[c] /\ ~terminated /\ (conn[c].id = 0 \/ conn[c].open)

\* Every request has one reply, of its kind, and the replies come in the
\* order of the requests: what a client waits for is what is on its way to
\* it and then what the server has yet to answer.
AnsweredInOrder ==
  \A c \in Clients :
    Connected(c) =>
      /\ InTurn(toClient[c], awaiting[c], 0)
      /\ InTurn(toServer[c], awaiting[c], Total(toClient[c]))
      /\ Len(awaiting[c]) = Total(toClient[c]) + Total(toServer[c])

\* No one sees a line of another user twice, or lines of one user in another
\* order than they were typed in, whatever conversations were left, entered
\* or lost in between.
RelayedInOrder ==
  \A c \in Clients : \A i, j \in DOMAIN screen[c] :
    (i < j /\ screen[c][i].from = screen[c][j].from /\ screen[c][i].from # c)
      => screen[c][i].n < screen[c][j].n

\* A line is seen only if its author logged in on the connection that it
\* came by and the server recorded the token.
SpeakersLoggedIn ==
  \A c \in Clients : \A i \in DOMAIN screen[c] :
    conn[screen[c][i].from].currentToken # NoToken

\* No request a client program can send ends the server, unless a token of
\* exactly 64 characters was given out without being recorded.
SurvivesClients == terminated => unrecorded # {}

\* A connection that others can find by its username has its id: though it is
\* in m_deqConnections before, nothing is read from it until then.
NamedHaveIds ==
  \A c \in Clients : conn[c].clientUsername # Blank => conn[c].id # 0

\* Who is in a conversation has a token and can go back to commands: a login
\* that fails and a /talkto without a token, typed at whatever time, take
\* neither away.
ConversesLoggedIn ==
  \A c \in Clients :
    ui[c].conversationMode => ui[c].currentToken # NoToken /\ ui[c].commandMode

\* There is one account to a username.
OneAccount ==
  \A i, j \in DOMAIN users : users[i].username = users[j].username => i = j

\* A connection has no other username, by which others find it, than one with
\* an account.
SpeakForAccount ==
  \A c \in Clients :
    conn[c].clientUsername # Blank => Registered(conn[c].clientUsername)

\* The chat as its users know it: accounts, names, conversations and screens.
Chat == INSTANCE Messenger WITH
  Users <- Clients, Nobody <- Blank,
  InitialAccounts <- {InitialUsers[i] : i \in DOMAIN InitialUsers},
  accounts <- {users[i] : i \in DOMAIN users},
  name <- [c \in Clients |-> conn[c].clientUsername],
  conversing <- [c \in Clients |-> ui[c].conversationMode],
  spoken <- [c \in Clients |-> typed[c]["line"]],
  shown <- screen

\* Server, clients and what is between them do nothing that Messenger forbids,
\* in whatever order messages are handled, relayed, printed and lost.
KeepsPromises == Chat!MessengerSpec

\* A token that was recorded is good for ever: none is dropped, whatever the
\* clock and the requests that it comes with.
TokensLast ==
  [][\A t \in DOMAIN tokens : ValidToken(t) /\ t \in DOMAIN tokens']_vars

\* The user leaves the program waiting in a prompt for ever.
LeftInPrompt(c) == [](ui[c].prompt # "none")

\* A request is answered, and the answer handled, unless the connection or the
\* program ends or the user leaves it in a prompt.
EveryRequestAnswered ==
  \A c \in Clients :
    awaiting[c] # <<>>
      ~> (awaiting[c] = <<>> \/ ui[c].bQuit \/ ~clientOpen[c] \/ LeftInPrompt(c))

\* The server notices that a client program has ended, also when the message
\* DisconnectClient was lost.
QuitNoticed ==
  \A c \in Clients : ui[c].bQuit ~> terminated \/ (conn[c].id # 0 /\ ~conn[c].open)

\* Every client program ends when the server has, unless its user leaves it in
\* a prompt.
EndNoticed == \A c \in Clients : terminated ~> (ui[c].bQuit \/ LeftInPrompt(c))

\* "Failed to connect to user, are they offline?": a conversation is opened
\* only with a connection that is open.
OfflineRefused ==
  [][\A c \in Clients :
       (Len(toClient'[c]) > Len(toClient[c])
          /\ toClient'[c][Len(toClient'[c])].id = "InitiateConversation"
          /\ toClient'[c][Len(toClient'[c])].to # Failed)
         => \E d \in Clients : conn[d].open /\ conn[d].id = toClient'[c][Len(toClient'[c])].to
    ]_vars

\* "Each token will have a timestamp associated with it so we can set expiry":
\* a token that was not used for longer than Expiry is not renewed.
TokensExpire ==
  [][\A t \in DOMAIN tokens \cap DOMAIN tokens' :
       tokens'[t] # tokens[t] => now <= tokens[t] + Expiry]_vars
=============================================================================
