----------------------------- MODULE MCQuoteFh ------------------------------
EXTENDS QuoteFh

\* Full enough to be truncated by a snapshot, run down to the low-water mark,
\* run out, and moved up past the level cap.
MCBooks == {{1, 2, 3, 4, 5}, {1, 2}, {1}, {1, 3, 4, 5, 6}}
MCThreeBooks == {{1, 2, 3, 4, 5}, {1}, {1, 3, 4, 5, 6}}
MCFirstBook == {1, 2, 3, 4, 5}

None == [f \in FaultKinds |-> 0]

\* As many timeouts as requests: a request can always time out.
SpotFaults == [None EXCEPT !["message"] = 1, !["connection"] = 1, !["timeout"] = 2,
                           !["fetch"] = 1, !["overflow"] = 1]
FuturesFaults == [None EXCEPT !["message"] = 1, !["level"] = 1]

=============================================================================
