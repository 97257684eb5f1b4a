------------------------------ MODULE MCPump -------------------------------
(* The pump with two threads that push, one more than the server has, and  *)
(* rounds of at most two messages.                                         *)
EXTENDS MessagePump
=============================================================================
