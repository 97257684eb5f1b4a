------------------------------ MODULE MCMukhfi ------------------------------
(* Two client programs. What each user may type is bounded input by input: *)
(*   Talking      both log in and talk to each other; one pings, chooses   *)
(*                colours, leaves the conversation or quits                *)
(*   Answering    one logs in twice and talks to anybody, the other quits; *)
(*                a username may have a second word                        *)
(*   Registering  both register and log in, with two passwords             *)
(*   Leaving      one talks to another that logs in and quits              *)
EXTENDS Mukhfi, TLC

CONSTANTS c1, c2, alice, bobby, pass, other

Lengths == [u \in Usernames |-> IF u = Blank THEN 0 ELSE 5]
NoSpaces == [u \in Usernames |-> u]
NoUsers == <<>>
OneUser == <<[username |-> alice, password |-> pass]>>

Inputting(login, register, ping, talkto, line, q) ==
  [i \in Inputs |-> CASE i = "login" -> login [] i = "register" -> register
                      [] i = "ping" -> ping [] i = "talkto" -> talkto
                      [] i = "line" -> line [] i = "q" -> q
                      [] i = "choosecolour" -> 0]
AndColours(n, inputting) == [inputting EXCEPT !["choosecolour"] = n]

Talking == [c \in Clients |-> IF c = c1 THEN Inputting(1, 0, 0, 1, 2, 0)
                              ELSE AndColours(1, Inputting(1, 0, 1, 1, 1, 1))]

Answering == [c \in Clients |-> IF c = c1 THEN Inputting(2, 0, 0, 1, 1, 0)
                                ELSE Inputting(0, 0, 0, 0, 0, 1)]

Registering == [c \in Clients |-> Inputting(1, 1, 0, 0, 0, 0)]

Leaving == [c \in Clients |-> IF c = c1 THEN Inputting(1, 0, 0, 1, 1, 0)
                              ELSE Inputting(1, 0, 0, 0, 0, 1)]

\* Two users who may type the same, two usernames and two passwords alike.
Alike == Permutations({c1, c2}) \cup Permutations({alice, bobby}) \cup Permutations({pass, other})

TwoWords == [u \in Usernames |-> IF u = bobby THEN alice ELSE u]
=============================================================================
