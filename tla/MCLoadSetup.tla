----------------------------- MODULE MCLoadSetup -----------------------------
(* Instances of LoadSetup for TLC: see the cfg files.  All bounds are constants. *)
EXTENDS LoadSetup
=============================================================================
