----------------------------- MODULE MCChannel -----------------------------
(* Model-checking instance of Channel with the member directory. *)
EXTENDS Channel, TLC
=============================================================================
