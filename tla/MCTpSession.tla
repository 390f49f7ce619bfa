---------------------------- MODULE MCTpSession -----------------------------
(* TpSession for TLC; the bounds are in the cfgs.                          *)
EXTENDS TpSession
=============================================================================
