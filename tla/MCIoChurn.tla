------------------------------ MODULE MCIoChurn ------------------------------
(* Instances of IoChurn for TLC.  The u64 range, the generator's modulus and the *)
(* byte are scaled down together: see LcgAssumption.                             *)
EXTENDS IoChurn
=============================================================================
