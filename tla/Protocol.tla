------------------------------ MODULE Protocol ------------------------------
(***************************************************************************)
(* What the server and its clients share: the names of things in messages  *)
(* and, for each client program, its connection. The kinds of messages are *)
(* those of CustomMsgTypes that are in use; a message is a record with its *)
(* kind in the field id and what the other side reads out of its body.     *)
(*                                                                         *)
(* Each client program makes one connection, so connections are named by   *)
(* Clients. Connection and MessagePump establish what is used of one here: *)
(* messages arrive once, in order, until one end closes or breaks off.     *)
(***************************************************************************)
EXTENDS Naturals, Sequences

CONSTANTS Clients,   \* the client programs, each with its connection
          Usernames, \* what a user may type for a username
          Passwords, \* what a user may type for a password (its hash is sent)
          Blank,     \* the empty string, a username too
          NoToken,   \* the empty string where a token is expected
          Failed     \* a reply to InitiateConversation that is not an id

ASSUME ProtocolAssumption == /\ Blank \in Usernames
                             /\ NoToken \notin Nat
                             /\ Failed \notin Nat

VARIABLES
  toServer,  \* what each client has sent and OnMessage has not handled
  toClient,  \* what was sent to each client and it has not handled
  clientOpen \* whether the client's end of its connection is open

linkVars == <<toServer, toClient, clientOpen>>

LinkInit ==
  /\ toServer = [c \in Clients |-> <<>>]
  /\ toClient = [c \in Clients |-> <<>>]
  /\ clientOpen = [c \in Clients |-> TRUE]

\* The n-th line client c has typed in a conversation.
Text(c, n) == [from |-> c, n |-> n]

\* The requests, each of which has a reply of its own kind.
Requests == {"ServerPing", "Login", "InitiateConversation", "Register",
             "SendMessageToUser"}
=============================================================================
