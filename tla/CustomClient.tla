---------------------------- MODULE CustomClient ----------------------------
(***************************************************************************)
(* The client program of client/src/client.cpp: a loop that looks at the   *)
(* keyboard and then handles at most one message of the server. A command  *)
(* that asks for something, a username or a password or a colour, waits in *)
(* BlockUntilDoneReceivingInput for the user, who may never answer: no     *)
(* message is handled and the socket not looked at until then.             *)
(*                                                                         *)
(* Colours, the layout of the screen and the names shown next to the lines *)
(* are left out; screen is what lines of conversations were printed.       *)
(***************************************************************************)
EXTENDS Protocol

Prompts == {"login", "register", "talkto", "choosecolour"}
Inputs  == Prompts \cup {"ping", "line", "q"}

CONSTANT MaxTyped \* bound: how often each user makes each input

ASSUME ClientAssumption == MaxTyped \in [Clients -> [Inputs -> Nat]]

VARIABLES
  ui,       \* the variables of main and the globals of client.cpp
  typed,    \* how often each user has made each input
  awaiting, \* history: the requests each client sent and has no reply to
  screen    \* history: the lines each client has printed

clientVars == <<ui, typed, awaiting, screen>>

ClientInit ==
  /\ ui = [c \in Clients |-> [commandMode |-> TRUE, conversationMode |-> FALSE,
                              prompt |-> "none", currentToken |-> NoToken, currentConversatorID |-> 0,
                              bQuit |-> FALSE]]
  /\ typed = [c \in Clients |-> [i \in Inputs |-> 0]]
  /\ awaiting = [c \in Clients |-> <<>>]
  /\ screen = [c \in Clients |-> <<>>]

-----------------------------------------------------------------------------
(* The keyboard.                                                           *)

\* The loop of main runs, and does not wait in a prompt.
Looping(c) == ~ui[c].bQuit /\ ui[c].prompt = "none"

Type(c, input) ==
  /\ Looping(c)
  /\ typed[c][input] < MaxTyped[c][input]
  /\ typed' = [typed EXCEPT ![c][input] = @ + 1]
  /\ UNCHANGED <<toClient, clientOpen, screen>>

\* client_interface::Send does nothing once the socket is closed.
SendToServer(c, m) ==
  IF clientOpen[c]
  THEN /\ toServer' = [toServer EXCEPT ![c] = Append(@, m)]
       /\ awaiting' = IF m.id \in Requests
                      THEN [awaiting EXCEPT ![c] = Append(@, m.id)] ELSE awaiting
  ELSE UNCHANGED <<toServer, awaiting>>

Command(c, input) ==
  Type(c, input) /\ ui[c].commandMode /\ ~ui[c].conversationMode

PingServer(c) == /\ Command(c, "ping")
                 /\ SendToServer(c, [id |-> "ServerPing"])
                 /\ UNCHANGED ui

\* /login, /register, /talkto and /choosecolour leave the command mode and
\* ask. Without a token /talkto returns at once, the command mode left.
Ask(c, input) ==
  /\ Command(c, input)
  /\ ui' = [ui EXCEPT ![c].commandMode = FALSE,
                      ![c].prompt = IF input = "talkto" /\ ui[c].currentToken = NoToken
                                    THEN "none" ELSE input]
  /\ UNCHANGED <<toServer, awaiting>>

SendDetails(c, id) ==
  \E u \in Usernames, p \in Passwords :
    SendToServer(c, [id |-> id, username |-> u, password |-> p])

Login(c)    == ui[c].prompt = "login" /\ SendDetails(c, "Login")
Register(c) == ui[c].prompt = "register" /\ SendDetails(c, "Register")

InitiateConversation(c) ==
  /\ ui[c].prompt = "talkto"
  /\ \E u \in Usernames :
       SendToServer(c, [id |-> "InitiateConversation",
                        token |-> ui[c].currentToken, username |-> u])

CaptureColour(c) == ui[c].prompt = "choosecolour" /\ UNCHANGED <<toServer, awaiting>>

\* The user has answered.
Answer(c) ==
  /\ Login(c) \/ Register(c) \/ InitiateConversation(c) \/ CaptureColour(c)
  /\ ui' = [ui EXCEPT ![c].prompt = "none", ![c].commandMode = TRUE]
  /\ UNCHANGED <<toClient, clientOpen, typed, screen>>

\* Enter in a conversation.
SendMessageToUser(c) ==
  /\ Type(c, "line")
  /\ ui[c].conversationMode
  /\ \/ /\ ui[c].currentToken = NoToken
        /\ ui' = [ui EXCEPT ![c].conversationMode = FALSE]
        /\ UNCHANGED <<toServer, awaiting>>
     \/ /\ ui[c].currentToken # NoToken
        /\ SendToServer(c, [id |-> "SendMessageToUser", token |-> ui[c].currentToken,
                            to |-> ui[c].currentConversatorID, text |-> Text(c, typed'[c].line)])
        /\ UNCHANGED ui

\* q leaves the conversation, or else the program.
PressQ(c) ==
  /\ Type(c, "q")
  /\ \/ /\ ui[c].conversationMode
        /\ ui' = [ui EXCEPT ![c].conversationMode = FALSE, ![c].commandMode = TRUE]
        /\ UNCHANGED <<toServer, awaiting>>
     \/ /\ ~ui[c].conversationMode
        /\ ui' = [ui EXCEPT ![c].bQuit = TRUE]
        /\ SendToServer(c, [id |-> "DisconnectClient"])

-----------------------------------------------------------------------------
(* The messages of the server.                                             *)

Printed(c, m) ==
  \/ m.id = "SendMessageToUser"
  \/ m.id = "ReceiveMessageFromUser" /\ ui[c].conversationMode

\* Mutant: whatever the reply to InitiateConversation says, it is taken for an id.
ConversesUnchecked(m) == m.id = "InitiateConversation"

\* std::stoi finds an id in the reply and does not throw.
Converses(m) == m.id = "InitiateConversation" /\ m.to # Failed

\* Mutant: the token of a failed login, an empty one, is taken as well.
TokenTakenUnchecked(m) == m.id = "Login"

TokenTaken(m) == m.id = "Login" /\ m.token # NoToken

HandleMessage(c) ==
  /\ Looping(c)
  /\ clientOpen[c]
  /\ toClient[c] # <<>>
  /\ LET m == Head(toClient[c])
     IN  /\ ui' = CASE TokenTaken(m) ->
                         [ui EXCEPT ![c].currentToken = m.token]
                    [] Converses(m) ->
                         [ui EXCEPT ![c].currentConversatorID = m.to,
                                    ![c].conversationMode = TRUE]
                    [] OTHER -> ui
         /\ screen' = IF Printed(c, m) THEN [screen EXCEPT ![c] = Append(@, m.text)]
                      ELSE screen
         /\ awaiting' = IF m.id \in Requests THEN [awaiting EXCEPT ![c] = Tail(@)]
                        ELSE awaiting
  /\ toClient' = [toClient EXCEPT ![c] = Tail(@)]
  /\ UNCHANGED <<toServer, clientOpen, typed>>

\* Mutant: in a conversation the loop does not look at the socket.
FindServerDownInCommandMode(c) ==
  /\ Looping(c)
  /\ ~ui[c].conversationMode
  /\ ~clientOpen[c]
  /\ ui' = [ui EXCEPT ![c].bQuit = TRUE]
  /\ UNCHANGED <<linkVars, typed, awaiting, screen>>

\* "Server is down": the loop ends when it finds the socket closed.
FindServerDown(c) ==
  /\ Looping(c)
  /\ ~clientOpen[c]
  /\ ui' = [ui EXCEPT ![c].bQuit = TRUE]
  /\ UNCHANGED <<linkVars, typed, awaiting, screen>>

\* The program ends: client_interface::Disconnect stops the io_context right
\* after posting the close, so that any number of the last messages, the one
\* that says DisconnectClient first of all, are not sent.
Exit(c) ==
  /\ ui[c].bQuit
  /\ clientOpen[c]
  /\ clientOpen' = [clientOpen EXCEPT ![c] = FALSE]
  /\ \E k \in 0 .. Len(toServer[c]) :
       toServer' = [toServer EXCEPT ![c] = SubSeq(@, 1, k)]
  /\ toClient' = [toClient EXCEPT ![c] = <<>>]
  /\ UNCHANGED clientVars

Keyboard(c) ==
  \/ PingServer(c) \/ \E input \in Prompts : Ask(c, input)
  \/ Answer(c) \/ SendMessageToUser(c) \/ PressQ(c)

ClientLoop(c) == HandleMessage(c) \/ FindServerDown(c) \/ Exit(c)
=============================================================================
