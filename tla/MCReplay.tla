------------------------------ MODULE MCReplay ------------------------------
(* The replay benchmark on a chain of a few blocks. *)
EXTENDS Replay
=============================================================================
