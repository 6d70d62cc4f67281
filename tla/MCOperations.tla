---------------------------- MODULE MCOperations ----------------------------
(* Small instances of Operations for TLC. *)
EXTENDS Operations

CONSTANTS storage, custom

\* First an operation whose completion is a guest event, then one whose is not.
StorageThenCustom == [n \in 1..MaxOps |-> {IF n = 1 THEN storage ELSE custom}]
=============================================================================
