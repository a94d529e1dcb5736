---------------------------- MODULE MCConnections ----------------------------
(***************************************************************************)
(* Model-checking instances of Connections: three sockets, one that closes *)
(* slowly, one that was given up and one that is opened meanwhile; and a   *)
(* server that is replaced, with processes for a call of connect, a second *)
(* one meanwhile and a reconnect.                                          *)
(***************************************************************************)
EXTENDS Connections
=============================================================================
