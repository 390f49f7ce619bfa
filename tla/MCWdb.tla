------------------------------- MODULE MCWdb --------------------------------
(* Wdb for TLC: the tables and the faults that the runs allow.             *)
EXTENDS Wdb

MCOneTable == <<"trade">>
MCTwoTables == <<"trade", "quote">>

EachOnce == [f \in FaultKinds |-> 1]
OneSave == [[f \in FaultKinds |-> 0] EXCEPT !["save"] = 1]
=============================================================================
