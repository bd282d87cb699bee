------------------------------ MODULE MCTower ------------------------------
(***************************************************************************)
(* A small instance of Tower: two forks that leave slot 1, one of them     *)
(* long enough to root a slot.                                             *)
(***************************************************************************)
EXTENDS Tower

MCParent == <<0, 1, 1, 2, 3, 5>>
=============================================================================
