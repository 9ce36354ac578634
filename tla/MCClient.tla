------------------------------ MODULE MCClient -----------------------------
(* One client with small bounds, set in the cfg.                           *)
EXTENDS SimClient
=============================================================================
