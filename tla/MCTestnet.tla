----------------------------- MODULE MCTestnet -----------------------------
(* The testnet benchmark with a short chain. *)
EXTENDS Testnet
=============================================================================
