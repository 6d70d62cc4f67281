---------------------------- MODULE MCControlPanel ----------------------------
(***************************************************************************)
(* The panel and a command line on an instance of a plugin whose second    *)
(* version has a field, with a default, for the key its first does not     *)
(* list.                                                                   *)
(***************************************************************************)
EXTENDS ControlPanel

CONSTANTS j, k, none

whole  == [type |-> "integer", n |-> 1]
double == [type |-> "float", n |-> 1]
Only(x) == [y \in {k} |-> x]

MCValues == {whole, double}
MCConfigs == {[x \in {} |-> x], Only(whole), Only(double)}
MCFits == [x \in MCValues |-> {"integer", "number"}]
MCNearest == [n \in -1..1 |-> n]
MCEmptyString == [type |-> "string", n |-> none]
Schema(kind, defaults) ==
    [kind |-> kind, required |-> {}, composed |-> FALSE, defaults |-> defaults]
MCSchemaOf ==
    [v \in Versions |->
        IF v = 1 THEN Schema([x \in {j} |-> "integer"], [x \in {} |-> x])
        ELSE Schema([x \in {k} |-> "number"], Only(whole))]

\* What the user and the disk do, in all; no fair step adds to it.
Interference == inputs + mishaps <= 3
=============================================================================
