-------------------------- MODULE MCServerInterface --------------------------
(* Clients that connect and leave at any time while the main thread makes   *)
(* two calls.                                                               *)
EXTENDS ServerInterface
=============================================================================
