---------------------------- MODULE MCSupervisor ----------------------------
(***************************************************************************)
(* One instance, one editor, and a supervisor with short queues.   *)
(***************************************************************************)
EXTENDS Supervisor
=============================================================================
