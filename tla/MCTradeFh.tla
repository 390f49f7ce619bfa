----------------------------- MODULE MCTradeFh ------------------------------
(* TradeFh for TLC: the faults that the runs allow.                        *)
EXTENDS TradeFh

ThreeFaults == [[f \in FaultKinds |-> 1] EXCEPT !["any"] = 3]
OneKill == [[f \in FaultKinds |-> 0] EXCEPT !["message"] = 1, !["kill"] = 1, !["any"] = 2]
=============================================================================
