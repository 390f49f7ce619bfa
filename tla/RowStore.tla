------------------------------ MODULE RowStore ------------------------------
(***************************************************************************)
(* What WDB promises about the disk, and nothing of how: rows are logged   *)
(* one after the other, each for a table; stored rows are logged ones and  *)
(* stay stored; and of each table the first rows are stored, never one     *)
(* without all those before it.                                            *)
(***************************************************************************)
EXTENDS Integers, Sequences

VARIABLES
    logged,     \* the tables of the logged rows, in the order of the log
    stored      \* the rows that are stored, by their place in the log

\* Of each table, every row before a stored one is stored.
NoHole(L, S) ==
    \A m, n \in DOMAIN L : L[m] = L[n] /\ m < n /\ n \in S => m \in S

Init == stored = DOMAIN logged

\* One more row is logged.
Log ==
    /\ Len(logged') = Len(logged) + 1
    /\ \A n \in 1 .. Len(logged) : logged'[n] = logged[n]
    /\ UNCHANGED stored

\* More rows are stored.
Store ==
    /\ UNCHANGED logged
    /\ stored \subseteq stored'
    /\ stored' \subseteq DOMAIN logged
    /\ NoHole(logged, stored')

Spec == Init /\ [][Log \/ Store]_<<logged, stored>>

=============================================================================
