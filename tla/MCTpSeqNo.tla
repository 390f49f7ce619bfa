----------------------------- MODULE MCTpSeqNo ------------------------------
(* TpSeqNo for TLC.  The bounds are in the cfgs.                           *)
EXTENDS TpSeqNo
=============================================================================
