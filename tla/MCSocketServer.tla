--------------------------- MODULE MCSocketServer ---------------------------
(* The instance of SocketServer for TLC in which a slot may be taken at any moment. *)
EXTENDS SocketServer

CONSTANTS s1, s2
=============================================================================
