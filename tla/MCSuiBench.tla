----------------------------- MODULE MCSuiBench -----------------------------
(* The Sui scripts with few rounds, throughputs and durations. *)
EXTENDS SuiBench
=============================================================================
