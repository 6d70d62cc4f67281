--------------------------- MODULE MCTrustedInstall ---------------------------
(***************************************************************************)
(* Versions 1 and 2, and a second package that claims version 1.           *)
(***************************************************************************)
EXTENDS TrustedInstall

CONSTANTS v1, v1b, v2

MCVersionOf == [k \in Packages |-> IF k = v2 THEN 2 ELSE 1]
=============================================================================
