---------------------------- MODULE MCConnection ----------------------------
(* Messages with and without a body. The server greets; the client sends   *)
(* two messages, before, while or after it connects.                       *)
EXTENDS ClientInterface

EmptyOrNot == {<<>>, <<1>>}
ClientSendsTwo == [e \in Ends |-> IF e = Client THEN 2 ELSE 1]
=============================================================================
