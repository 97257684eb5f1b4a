----------------------------- MODULE Messenger -----------------------------
(***************************************************************************)
(* What the chat promises its users, whatever its programs, connections    *)
(* and queues are doing: one account to a username, kept for ever; a name  *)
(* on the server only with an account; conversations and lines only of     *)
(* those who have a name there; every line of another user at most once,   *)
(* in the order in which it was typed, and on one other screen only.       *)
(*                                                                         *)
(* No delivery is promised: a line may be shown or not.                    *)
(***************************************************************************)
EXTENDS Naturals, Sequences

CONSTANTS Users,          \* those who use the chat
          Usernames,
          Passwords,
          Nobody,         \* the name of a user who has none
          InitialAccounts \* the accounts there are at first

VARIABLES accounts,   \* username and password of each
          name,       \* the name each user is found by
          conversing, \* whether each user is in a conversation
          spoken,     \* how many lines each user has typed
          shown       \* the lines on each user's screen, in order

messengerVars == <<accounts, name, conversing, spoken, shown>>

MessengerInit ==
  /\ accounts = InitialAccounts
  /\ name = [u \in Users |-> Nobody]
  /\ conversing = [u \in Users |-> FALSE]
  /\ spoken = [u \in Users |-> 0]
  /\ shown = [u \in Users |-> <<>>]

\* A new account, for a username without one.
Enroll ==
  /\ \E n \in Usernames, p \in Passwords :
       /\ \A a \in accounts : a.username # n
       /\ accounts' = accounts \cup {[username |-> n, password |-> p]}
  /\ UNCHANGED <<name, conversing, spoken, shown>>

\* A user is given the name of an account.
TakeName(u) ==
  /\ \E a \in accounts : a.username # Nobody /\ name' = [name EXCEPT ![u] = a.username]
  /\ UNCHANGED <<accounts, conversing, spoken, shown>>

Enter(u) ==
  /\ name[u] # Nobody
  /\ conversing' = [conversing EXCEPT ![u] = TRUE]
  /\ UNCHANGED <<accounts, name, spoken, shown>>

Quit(u) ==
  /\ conversing' = [conversing EXCEPT ![u] = FALSE]
  /\ UNCHANGED <<accounts, name, spoken, shown>>

Speak(u) ==
  /\ conversing[u]
  /\ spoken' = [spoken EXCEPT ![u] = @ + 1]
  /\ UNCHANGED <<accounts, name, conversing, shown>>

Line(u, n) == [from |-> u, n |-> n]

ShownTo(u) == {shown[u][i] : i \in DOMAIN shown[u]}

\* A line that its author v has typed, on the screen of u: later than all of v
\* that u has seen, and seen by nobody else but v.
Fresh(u, v, n) ==
  /\ \A line \in ShownTo(u) : line.from = v => line.n < n
  /\ \A w \in Users \ {u, v} : Line(v, n) \notin ShownTo(w)

\* The author sees a line too, and twice in a conversation with himself.
Show(u) ==
  /\ \E v \in Users : \E n \in 1 .. spoken[v] :
       /\ name[v] # Nobody
       /\ v = u \/ (conversing[u] /\ Fresh(u, v, n))
       /\ shown' = [shown EXCEPT ![u] = Append(@, Line(v, n))]
  /\ UNCHANGED <<accounts, name, conversing, spoken>>

MessengerNext ==
  Enroll \/ \E u \in Users : TakeName(u) \/ Enter(u) \/ Quit(u) \/ Speak(u) \/ Show(u)

MessengerSpec == MessengerInit /\ [][MessengerNext]_messengerVars
=============================================================================
