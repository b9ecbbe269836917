------------------------------- MODULE MCList -------------------------------
(* An instance of MaraList for TLC: a list with no room, none by a negative  *)
(* capacity (list/new passes on what it is given), and with room for one and *)
(* for three elements.                                                       *)
EXTENDS MaraList

MCCapacities == {-1, 0, 1, 3}
MCPositions == -1 .. 4
=============================================================================
