---------------------------- MODULE MCConnections ----------------------------
(***************************************************************************)
(* One instance, one connection and two requests.                          *)
(***************************************************************************)
EXTENDS Connections
=============================================================================
