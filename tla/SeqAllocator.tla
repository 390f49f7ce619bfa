---------------------------- MODULE SeqAllocator ----------------------------
(***************************************************************************)
(* What the tickerplant promises about tpSeqNo, and nothing of how: the    *)
(* numbers stamped on logged rows form a history that is only ever         *)
(* extended, each new number above every earlier one.  Numbers may be      *)
(* skipped; none is handed out twice.                                      *)
(***************************************************************************)
EXTENDS Integers, Sequences

VARIABLE issued     \* the numbers stamped so far, in the order they were logged

Init == issued = <<>>

\* One more number, above all the numbers issued before it.
Issue ==
    /\ Len(issued') = Len(issued) + 1
    /\ \A i \in 1 .. Len(issued) : issued'[i] = issued[i]
    /\ \A i \in 1 .. Len(issued) : issued[i] < issued'[Len(issued')]

Spec == Init /\ [][Issue]_issued

=============================================================================
