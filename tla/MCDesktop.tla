------------------------------- MODULE MCDesktop -------------------------------
(***************************************************************************)
(* A laptop screen, alone or with a second monitor at its left.            *)
(***************************************************************************)
EXTENDS Desktop

Screen(k, left, width, primary) == [key |-> k, left |-> left, width |-> width, primary |-> primary]

MCTopologies ==
    { <<Screen("laptop", 0, 3, TRUE)>>,
      <<Screen("desk", -4, 4, FALSE), Screen("laptop", 0, 3, TRUE)>> }

MCPositions == {-2, 1}
=============================================================================
