------------------------------ MODULE TradeFh -------------------------------
(***************************************************************************)
(* A trade handler, one symbol: the id tracker, the queue of trade_gap     *)
(* events, the backfill with its worker thread, and the trade state that   *)
(* TP keeps and hands to a restarted handler.                              *)
(*                                                                         *)
(* Trade i is the exchange's i-th trade.  Rows reach TP's log in the order *)
(* in which they were published and once while their handler lives, which  *)
(* is what TpSession checks of TpPublisher with a ring that is large       *)
(* enough; here a broken connection only keeps a gap event from being      *)
(* acknowledged.  When a handler ends, TP logs what had reached its        *)
(* connection before the next handler registers.  Whether the scheduler    *)
(* grants a request is a free choice (module SnapshotScheduler).           *)
(***************************************************************************)
EXTENDS Naturals, Sequences, SequencesExt, FiniteSetsExt

CONSTANTS
    BackfillEnabled,  \* the handler's config has a backfill block
    MaxGapIds,        \* a larger gap is not fetched
    PageLimit,        \* trades per request
    MaxFailures,      \* failed requests in a row before a gap is given up
    KillAnywhere,     \* FALSE: no kill while a gap's record and the row after it disagree
    MaxTrades,        \* bound on the exchange's trades
    MaxFaults         \* how often each kind of fault may happen, and any of them

FaultKinds == {"message", "old", "break", "reject", "blind", "kill", "any"}

ASSUME TradeConstants ==
    /\ BackfillEnabled \in BOOLEAN
    /\ KillAnywhere \in BOOLEAN
    /\ {MaxGapIds, PageLimit, MaxFailures, MaxTrades} \subseteq Nat \ {0}
    /\ MaxFaults \in [FaultKinds -> Nat]

VARIABLES
    sent,     \* trades the exchange has made
    up,       \* the handler runs
    conn,     \* its connection: "up", "broken" (not noticed yet) or "closed"
    last,     \* the tracker's highest id, 0 when it knows none
    jobs,     \* gaps to backfill, the head in work
    fetch,    \* the request in flight and its answer
    events,   \* gap events that wait for TP's acknowledgement
    todo,     \* what is left of the current message's handling
    chan,     \* rows published and not logged
    logged,   \* how often TP has logged each trade
    gaps,     \* the latest event of every gap TP knows, by first id
    blind,    \* ids a handler without a trade state could not know of
    dropped,  \* ids of detected events TP rejected
    again,    \* ids the exchange delivered again or late
    left      \* faults still to come

handler == <<last, jobs, fetch, events, todo>>
tp == <<logged, gaps>>
ghosts == <<blind, dropped, again>>
vars == <<sent, up, conn, handler, chan, tp, ghosts, left>>

Ids == 1..MaxTrades
OpenStatuses == {"detected", "partial"}
Statuses == OpenStatuses \cup {"recovered", "unrecoverable"}

Fault(kind) ==
    /\ left[kind] > 0 /\ left["any"] > 0
    /\ left' = [left EXCEPT ![kind] = @ - 1, !["any"] = @ - 1]

(* ------------------------------- gaps ---------------------------------- *)

Missing(g) == g.last - g.first + 1

NextNeeded(g) == IF g.through > 0 THEN g.through + 1 ELSE g.first

GapEvent(g, status) ==
    [first |-> g.first, last |-> g.last, through |-> g.through, status |-> status]

Job(g) == [first |-> g.first, last |-> g.last, through |-> g.through, failures |-> 0]

NoFetch == [st |-> "none"]

Row(i, back) == [do |-> "row", id |-> i, back |-> back]
Record(ev) == [do |-> "event", event |-> ev]
Flush == [do |-> "flush"]
Pump == [do |-> "pump"]

Init ==
    /\ sent = 0
    /\ up = FALSE
    /\ conn = "closed"
    /\ last = 0
    /\ jobs = <<>>
    /\ fetch = NoFetch
    /\ events = <<>>
    /\ todo = <<>>
    /\ chan = <<>>
    /\ logged = [i \in Ids |-> 0]
    /\ gaps = {}
    /\ blind = {}
    /\ dropped = {}
    /\ again = {}
    /\ left = MaxFaults

(* ----------------------- TP: rows, events, state ----------------------- *)

LoggedIds(lg) == {i \in Ids : lg[i] > 0}
LastId == Max(LoggedIds(logged) \cup {0})

NoteBackfillIgnored(gs, i) == gs

\* A backfilled row moves its gap on; a live row does not.
NoteBackfill(gs, i) ==
    {IF g.first <= i /\ i <= g.last THEN [g EXCEPT !.through = Max({i, @})] ELSE g : g \in gs}

LogRow(t, row) ==
    [logged |-> [t.logged EXCEPT ![row.id] = @ + 1],
     gaps |-> IF row.back THEN NoteBackfill(t.gaps, row.id) ELSE t.gaps]

LogRows(rows) == FoldLeft(LogRow, [logged |-> logged, gaps |-> gaps], rows)

NoteGapInsert(gs, ev) == gs \cup {ev}

NoteGap(gs, ev) == {g \in gs : g.first # ev.first} \cup {ev}

OpenGaps == {g \in gaps : g.status \in OpenStatuses}

TpLogs ==
    /\ chan # <<>>
    /\ LET t == LogRows(<<Head(chan)>>)
       IN  logged' = t.logged /\ gaps' = t.gaps
    /\ chan' = Tail(chan)
    /\ UNCHANGED <<sent, up, conn, handler, ghosts, left>>

(* -------------------------- start and end ------------------------------ *)

StartNoResume ==
    /\ ~up
    /\ up' = TRUE
    /\ conn' = "up"
    /\ last' = LastId
    /\ UNCHANGED <<sent, jobs, fetch, events, todo, chan, tp, ghosts, left>>

\* Gaps as the queue of jobs they are resumed as, the first ids in order.
ByFirstId(S) ==
    {q \in [1..Cardinality(S) -> S] : \A j, k \in DOMAIN q : j < k => q[j].first < q[k].first}

\* The handler's connection delivered what it had before the next one opens.
Start ==
    /\ ~up
    /\ up' = TRUE
    /\ conn' = "up"
    /\ last' = LastId
    /\ jobs' \in ByFirstId({Job(g) : g \in OpenGaps})
    /\ UNCHANGED <<sent, fetch, events, todo, chan, tp, ghosts, left>>

\* TP's answer is lost, or an error: nothing is seeded or resumed.
StartBlind ==
    /\ ~up
    /\ Fault("blind")
    /\ up' = TRUE
    /\ conn' \in {"closed", "up"}
    /\ UNCHANGED <<sent, handler, chan, tp, ghosts>>

\* A row after the gap is logged and the gap's record is not, or the reverse.
Disagree(t) ==
    LET end == Max(LoggedIds(t.logged) \cup {0})
    IN  \/ \E e \in Range(events) : e.status = "detected" /\ e.last < end
        \/ \E g \in t.gaps : g.status \in OpenStatuses /\ end < g.last

\* A crash or a stop; all that is in memory goes, the last rows may too.
Killed ==
    /\ up
    /\ Fault("kill")
    /\ \E n \in 0..Len(chan) :
        LET t == LogRows(SubSeq(chan, 1, n))
        IN  /\ KillAnywhere \/ ~Disagree(t)
            /\ logged' = t.logged
            /\ gaps' = t.gaps
    /\ chan' = <<>>
    /\ up' = FALSE
    /\ conn' = "closed"
    /\ last' = 0
    /\ jobs' = <<>>
    /\ fetch' = NoFetch
    /\ events' = <<>>
    /\ todo' = <<>>
    /\ UNCHANGED <<sent, ghosts>>

(* ---------------------------- messages --------------------------------- *)

\* TradeIdTracker: a jump is a gap; a duplicate or a late id is none.
IsGap(i) == last > 0 /\ i > last + 1

ValidateTradeId(i) ==
    LET gap == [first |-> last + 1, last |-> i - 1, through |-> 0]
    IN  /\ last' = Max({last, i})
        /\ jobs' = IF IsGap(i) THEN Append(jobs, Job(gap)) ELSE jobs
        /\ todo' = IF IsGap(i)
                     THEN <<Record(GapEvent(gap, "detected")), Row(i, FALSE), Flush, Pump>>
                     ELSE <<Row(i, FALSE), Flush, Pump>>

ProcessMessage(i) ==
    /\ ValidateTradeId(i)
    /\ blind' = IF last = 0 THEN blind \cup ((LastId + 1)..(i - 1)) ELSE blind

Idle == up /\ todo = <<>>

Trade == sent < MaxTrades /\ sent' = sent + 1

Read ==
    /\ Idle
    /\ Trade
    /\ ProcessMessage(sent + 1)
    /\ UNCHANGED <<up, conn, fetch, events, chan, tp, dropped, again, left>>

\* The exchange delivers a trade a second time, or late.
ReadOld ==
    /\ Idle
    /\ Fault("old")
    /\ \E i \in 1..last :
        /\ ProcessMessage(i)
        /\ again' = again \cup {i}
    /\ UNCHANGED <<sent, up, conn, fetch, events, chan, tp, dropped>>

\* A message that cannot be read: no row, but the pump runs.
ReadUnreadable ==
    /\ Idle
    /\ Trade
    /\ Fault("message")
    /\ todo' = <<Pump>>
    /\ UNCHANGED <<up, conn, last, jobs, fetch, events, chan, tp, ghosts>>

\* A trade of another symbol.
ReadOther ==
    /\ Idle
    /\ todo' = <<Row(0, FALSE), Flush, Pump>>
    /\ UNCHANGED <<sent, up, conn, last, jobs, fetch, events, chan, tp, ghosts, left>>

\* The stream breaks around a trade, or no handler runs.
Missed ==
    /\ todo = <<>>
    /\ Trade
    /\ IF up THEN Fault("message") ELSE UNCHANGED left
    /\ UNCHANGED <<up, conn, handler, chan, tp, ghosts>>

(* ------------------------ publishing to TP ----------------------------- *)

\* What follows the current command; a flush with nothing queued does nothing.
Rest(evs) ==
    IF evs = <<>> /\ Tail(todo) # <<>> /\ todo[2].do = "flush"
      THEN Tail(Tail(todo))
      ELSE Tail(todo)

\* Row 0 is of another symbol: only what it does to the connection counts.
PublishRow ==
    /\ todo # <<>> /\ Head(todo).do = "row"
    /\ conn' \in IF conn = "broken" THEN {"broken", "up"} ELSE {"up"}
    /\ chan' = IF Head(todo).id = 0 THEN chan ELSE Append(chan, Head(todo))
    /\ todo' = Rest(events)
    /\ UNCHANGED <<sent, up, last, jobs, fetch, events, tp, ghosts, left>>

RecordGap ==
    /\ todo # <<>> /\ Head(todo).do = "event"
    /\ events' = Append(events, Head(todo).event)
    /\ todo' = <<Flush>> \o Tail(todo)
    /\ UNCHANGED <<sent, up, conn, last, jobs, fetch, chan, tp, ghosts, left>>

Flushing == todo # <<>> /\ Head(todo).do = "flush" /\ events # <<>>

\* TP reads the rows before the event on the same connection, then logs it.
TpEvent ==
    LET t == LogRows(chan)
    IN  /\ logged' = t.logged
        /\ gaps' = NoteGap(t.gaps, Head(events))
        /\ chan' = <<>>

\* The flush goes on with the next event, or is done.
Sent ==
    /\ events' = Tail(events)
    /\ todo' = IF Len(events) = 1 THEN Rest(<<>>) ELSE todo

EventAcked ==
    /\ Flushing
    /\ conn = "up"
    /\ TpEvent
    /\ Sent
    /\ UNCHANGED <<sent, up, conn, last, jobs, fetch, ghosts, left>>

EventUnackedPops ==
    /\ Flushing
    /\ \/ conn # "up" /\ UNCHANGED <<chan, tp, left>>
       \/ conn = "up" /\ Fault("break") /\ TpEvent
    /\ conn' = "closed"
    /\ Sent
    /\ UNCHANGED <<sent, up, last, jobs, fetch, ghosts>>

\* The connection is dead, or dies before or after TP has logged the event.
EventUnacked ==
    /\ Flushing
    /\ \/ conn # "up" /\ UNCHANGED <<chan, tp, left>>
       \/ conn = "up" /\ Fault("break") /\ TpEvent
    /\ conn' = "closed"
    /\ todo' = Tail(todo)
    /\ UNCHANGED <<sent, up, last, jobs, fetch, events, ghosts>>

\* .tp.event throws: the event is dropped and only counted.
EventRejected ==
    /\ Flushing
    /\ conn = "up"
    /\ Fault("reject")
    /\ LET t == LogRows(chan)
       IN  logged' = t.logged /\ gaps' = t.gaps
    /\ chan' = <<>>
    /\ dropped' = IF Head(events).status = "detected"
                    THEN dropped \cup (Head(events).first..Head(events).last)
                    ELSE dropped
    /\ Sent
    /\ UNCHANGED <<sent, up, conn, last, jobs, fetch, blind, again>>

Break ==
    /\ conn = "up"
    /\ Fault("break")
    /\ conn' = "broken"
    /\ UNCHANGED <<sent, up, handler, chan, tp, ghosts>>

(* ----------------------------- backfill -------------------------------- *)

\* What is left of the queue, and what the pump does to TP on the way.
Finish(q, status) == [jobs |-> Tail(q), out |-> <<Record(GapEvent(Head(q), status))>>]

Fail(q) ==
    IF Head(q).failures + 1 >= MaxFailures
      THEN Finish(q, "unrecoverable")
      ELSE [jobs |-> [q EXCEPT ![1].failures = @ + 1], out |-> <<>>]

\* The ids of a page from the first one needed, as far as they follow each other.
Usable(g, ids) ==
    {i \in NextNeeded(g)..g.last : (NextNeeded(g)..i) \subseteq ids}

AdvanceRecordsFirst(q, ids) ==
    LET n == Cardinality(ids)
        from == NextNeeded(Head(q))
        g == [Head(q) EXCEPT !.through = from + n - 1, !.failures = 0]
        rows == [k \in 1..n |-> Row(from + k - 1, TRUE)]
    IN  IF g.through >= g.last
          THEN [jobs |-> Tail(q), out |-> <<Record(GapEvent(g, "recovered"))>> \o rows]
          ELSE [jobs |-> <<g>> \o Tail(q), out |-> <<Record(GapEvent(g, "partial"))>> \o rows]

Advance(q, ids) ==
    LET n == Cardinality(ids)
        from == NextNeeded(Head(q))
        g == [Head(q) EXCEPT !.through = from + n - 1, !.failures = 0]
        rows == [k \in 1..n |-> Row(from + k - 1, TRUE)]
    IN  IF g.through >= g.last
          THEN [jobs |-> Tail(q), out |-> rows \o <<Record(GapEvent(g, "recovered"))>>]
          ELSE [jobs |-> <<g>> \o Tail(q), out |-> rows \o <<Record(GapEvent(g, "partial"))>>]

OnPage(q, page) ==
    LET usable == Usable(Head(q), page.ids)
    IN  CASE page.tooOld -> Finish(q, "unrecoverable")
          [] ~page.ok \/ page.ids = {} -> Fail(q)
          [] Min(page.ids) > NextNeeded(Head(q)) -> Finish(q, "unrecoverable")
          [] usable = {} -> Fail(q)
          [] OTHER -> Advance(q, usable)

OutOfReach(g) == ~BackfillEnabled \/ Missing(g) > MaxGapIds
NeedsNoRequestNoCap(g) == ~BackfillEnabled \/ NextNeeded(g) > g.last

NeedsNoRequest(g) == OutOfReach(g) \/ NextNeeded(g) > g.last

\* Gaps at the head that need no request are closed before one is made.
Settle(q) ==
    LET n == Max({k \in 0..Len(q) : \A i \in 1..k : NeedsNoRequest(q[i])})
    IN  [jobs |-> SubSeq(q, n + 1, Len(q)),
         out |-> [i \in 1..n |-> Record(GapEvent(q[i],
                     IF OutOfReach(q[i]) THEN "unrecoverable" ELSE "recovered"))]]

Ask(g) ==
    [st |-> "asked", from |-> NextNeeded(g),
     limit |-> Min({PageLimit, g.last - NextNeeded(g) + 1})]

\* One turn of pump's loop is all of it.  A request that is made ends the loop:
\* line 241 sets progressed to inlineFetch, which only the tests turn on.  If
\* none is made, nothing is in flight, so that the next turn, which a page or a
\* settled gap leads to, takes no page, finds no gap to settle and is refused
\* by the scheduler a second time at the same nowMs.  A page is therefore never
\* taken in the pump that asked for it.  The flush of publishHealth, which may
\* follow, never finds an open connection (IdleIsClosed).
PumpBackfill(granted) ==
    /\ todo # <<>> /\ Head(todo).do = "pump"
    /\ LET taken == IF fetch.st = "page" THEN OnPage(jobs, fetch.page)
                                         ELSE [jobs |-> jobs, out |-> <<>>]
           settled == IF fetch.st = "asked" THEN [jobs |-> jobs, out |-> <<>>]
                                            ELSE Settle(taken.jobs)
           asks == granted /\ fetch.st # "asked" /\ settled.jobs # <<>>
       IN  /\ jobs' = settled.jobs
           /\ fetch' = CASE fetch.st = "asked" -> fetch
                         [] asks -> Ask(Head(settled.jobs))
                         [] OTHER -> NoFetch
           /\ todo' = taken.out \o settled.out
    /\ UNCHANGED <<sent, up, conn, last, events, chan, tp, ghosts, left>>

\* The replies to one request: full or short, too early, too late, none, errors.
Pages(req) ==
    LET served == {req.from..i : i \in req.from..(req.from + req.limit - 1)}
        late == IF req.from < sent THEN {{req.from + 1}} ELSE {}
    IN  [ok : {TRUE}, tooOld : {FALSE}, ids : served \cup late \cup {{}, {req.from - 1}}]
            \cup [ok : {FALSE}, tooOld : BOOLEAN, ids : {{}}]

WorkerFetches ==
    /\ up
    /\ fetch.st = "asked"
    /\ \E page \in Pages(fetch) : fetch' = [st |-> "page", from |-> fetch.from, page |-> page]
    /\ UNCHANGED <<sent, up, conn, last, jobs, events, todo, chan, tp, ghosts, left>>

Next ==
    \/ TpLogs
    \/ Start
    \/ StartBlind
    \/ Killed
    \/ Read
    \/ ReadOld
    \/ ReadUnreadable
    \/ ReadOther
    \/ Missed
    \/ PublishRow
    \/ RecordGap
    \/ EventAcked
    \/ EventUnacked
    \/ EventRejected
    \/ Break
    \/ \E granted \in BOOLEAN : PumpBackfill(granted)
    \/ WorkerFetches

Spec == Init /\ [][Next]_vars

\* A handler that ended is started again, and its loop turns: messages of some
\* symbol keep coming, and no step of a message's handling blocks for ever.
\* The messages are an assumption on the exchange: the idle timeout of 30 s
\* belongs to Beast's asynchronous operations and ws.read() is a synchronous one.
Runs ==
    \/ Start
    \/ ReadOther
    \/ PublishRow
    \/ RecordGap
    \/ EventAcked
    \/ EventUnacked
    \/ \E granted \in BOOLEAN : PumpBackfill(granted)

\* The worker's request ends in an answer or an error (10 s without input or
\* output), and the scheduler grants a request again and again.
LiveSpec ==
    /\ Spec
    /\ WF_vars(Runs)
    /\ WF_vars(WorkerFetches)
    /\ SF_vars(PumpBackfill(TRUE))

(* ---------------------------- properties ------------------------------- *)

Gaps == [first : Ids, last : Ids, through : 0..MaxTrades, status : Statuses]

\* Events that wait when the loop is idle wait for a row to reopen the connection.
IdleIsClosed == todo = <<>> /\ events # <<>> => conn = "closed"

\* The types of the variables; a gap TP knows is not empty, the tracker knows no
\* id that was not traded, and nothing is left to do when no handler runs.
TypeOK ==
    /\ sent \in 0..MaxTrades
    /\ up \in BOOLEAN
    /\ conn \in {"up", "broken", "closed"}
    /\ last \in 0..sent
    /\ fetch.st \in {"none", "asked", "page"}
    /\ Range(events) \subseteq Gaps
    /\ \A c \in Range(chan) : c.id \in Ids /\ c.back \in BOOLEAN
    /\ logged \in [Ids -> Nat]
    /\ gaps \subseteq Gaps
    /\ \A g \in gaps : g.first <= g.last /\ g.through <= g.last
    /\ \A g, h \in gaps : g.first = h.first => g = h
    /\ left \in [FaultKinds -> Nat]
    /\ IdleIsClosed
    /\ ~up => todo = <<>> /\ events = <<>> /\ jobs = <<>> /\ chan = <<>>

Covers(g, i) == g.first <= i /\ i <= g.last

\* The events the handler still holds.
Held == Range(events) \cup {c.event : c \in {d \in Range(todo) : d.do = "event"}}

\* "A gap must never go unrecorded" (trade_feed_handler.cpp:231): below the last
\* id TP has logged, every trade from the first one on is in the log, in a gap
\* TP knows or in an event the handler still holds, unless no trade state was
\* given when the gap began or TP rejected its event.  Through lost messages,
\* broken connections, lost acknowledgements and restarts.
NoForgottenGap ==
    \A i \in Ids :
        (i < LastId /\ \E f \in LoggedIds(logged) : f < i) =>
            \/ logged[i] > 0
            \/ \E g \in gaps \cup Held : Covers(g, i)
            \/ i \in blind \cup dropped

\* What TP says of a gap's progress is in its log (tp.q:393-395): ids up to
\* recoveredThroughId are logged, and all of a recovered gap are, whatever
\* became of the handler that fetched them.
RecoveredIsLogged ==
    \A g \in gaps :
        /\ g.through > 0 => g.first..g.through \subseteq LoggedIds(logged)
        /\ g.status = "recovered" => g.first..g.last \subseteq LoggedIds(logged)

\* "No id fetched or published twice" (README.md:319): through kills in the
\* middle of a backfill and resumed gaps, a trade is logged once unless the
\* exchange itself delivered it again.
LoggedOnce == \A i \in Ids \ again : logged[i] <= 1

\* The answer in flight belongs to the gap at the head of the queue, which is
\* within the cap and still needs it: an answer names no gap, and the comment in
\* TradeBackfill::pump tells of pages fetched for a gap above the cap.
AnswerFitsGap ==
    fetch.st # "none" =>
        /\ jobs # <<>>
        /\ fetch.from = NextNeeded(Head(jobs))
        /\ fetch.from <= Head(jobs).last
        /\ Missing(Head(jobs)) <= MaxGapIds
        /\ BackfillEnabled

\* Every gap that TP shows as open is closed in the end, across kills and lost
\* acknowledgements, as long as no event was rejected and no handler started
\* without a trade state.
GapsClose ==
    OpenGaps # {} ~>
        \/ OpenGaps = {}
        \/ \E kind \in {"reject", "blind"} : left[kind] < MaxFaults[kind]

=============================================================================
