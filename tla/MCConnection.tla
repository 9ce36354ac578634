---------------------------- MODULE MCConnection ---------------------------
(* One connection with small bounds, set in the cfg.                       *)
EXTENDS Connection
=============================================================================
