------------------------------ MODULE QuoteFh -------------------------------
(***************************************************************************)
(* A quote handler for one symbol: cpp/src/quote_feed_handler.cpp with the *)
(* snapshot worker thread (snapshot_worker.hpp) and the order book         *)
(* (OrderBook.tla), against the exchange's depth stream and its REST       *)
(* snapshots.                                                              *)
(*                                                                         *)
(* The exchange changes the book of the symbol by numbered updates; truth  *)
(* is its history.  An event of the stream covers one or more updates.  A  *)
(* REST snapshot shows the book as of any update so far: older than what   *)
(* the stream has delivered, or ahead of it.  Spot numbers the updates of  *)
(* a symbol consecutively, futures leaves numbers out.                     *)
(*                                                                         *)
(* The handler's loop drains the worker's results, then reads one message, *)
(* in turns.  The scheduler's answer, which paces the requests, and the    *)
(* passing of time (the heartbeat and the snapshot timeout) are free       *)
(* choices.  Rows are taken to reach the tickerplant (TpSession.tla).      *)
(***************************************************************************)
EXTENDS OrderBook

CONSTANTS
    Books,          \* the levels the exchange's side can have
    FirstBook,      \* its levels at the start
    QueueCap,       \* SnapshotWorker::QUEUE_CAPACITY
    MaxUpdates,     \* bound: updates of the symbol
    MaxSpan,        \* bound: updates in one event
    MaxRequests,    \* bound: snapshots requested
    MaxFaults       \* bound, for each fault of FaultKinds

\* message: a message is lost or unreadable; connection: the stream breaks;
\* fetch: a REST request fails; timeout: a snapshot is given up;
\* overflow: requests or results of other symbols push one of this symbol
\* out of a full queue; level: a level cannot be parsed.
FaultKinds == {"message", "connection", "fetch", "timeout", "overflow", "level"}

ASSUME FhAssumption ==
    /\ Books \subseteq SUBSET Prices /\ FirstBook \in Books
    /\ QueueCap \in Nat \ {0}
    /\ MaxUpdates \in Nat /\ MaxSpan \in Nat \ {0} /\ MaxRequests \in Nat
    /\ MaxFaults \in [FaultKinds -> Nat]

VARIABLES
    \* the exchange
    truth,      \* the book after each update, the first after none
    sent,       \* the last update covered by an event of this connection
    stream,     \* events on their way
    \* the handler thread
    phase,      \* "drain" the results or "read" a message
    book,       \* the members of OrderBookManager
    waiting,    \* snapshotRequestedAtMs_ is not 0
    latestId,   \* latestRequestId_
    published,  \* hasPublished_
    last,       \* lastPublished_
    \* the snapshot worker
    nextId,     \* nextRequestId_
    requests,   \* ids in the request queue
    fetching,   \* the id being fetched, 0 for none
    results,    \* answers in the result queue
    faults      \* how often each fault has happened

exchVars == <<truth, sent, stream>>
rowVars == <<published, last>>
reqVars == <<waiting, latestId, nextId, requests>>
workVars == <<fetching, results>>
vars == <<exchVars, phase, book, rowVars, reqVars, workVars, faults>>

\* Update k of the symbol has this id.
IdOf(k) == IF Sync = "spot" THEN k ELSE 2 * k
TruthAt(id) == truth[1 + (IF Sync = "spot" THEN id ELSE id \div 2)]
Updates == Len(truth) - 1

Ids == 0 .. IdOf(MaxUpdates)
SideType == [levels : SUBSET Prices, horizon : Prices \cup {NoHorizon}]
SeqType == [needBridge : BOOLEAN, snapshotId : Ids, lastId : Ids]
DeltaType == [U : Ids, u : Ids, pu : Ids, gone : SUBSET Prices, there : SUBSET Prices]

BookOK ==
    /\ book.state \in {"INIT", "SYNCING", "VALID", "INVALID"}
    /\ book.side \in SideType /\ book.seq \in SeqType
    /\ book.buf \in Seq(DeltaType) /\ Len(book.buf) <= BufferCap
    /\ book.requested \in BOOLEAN /\ book.refreshing \in BOOLEAN
    /\ book.shadow \in [pending : BOOLEAN, side : SideType, seq : SeqType]
    /\ book.firstU \in Ids /\ book.prevU \in Ids /\ book.rangeClosed \in BOOLEAN

TypeOK ==
    /\ truth \in Seq(Books) /\ Len(truth) \in 1 .. MaxUpdates + 1
    /\ sent \in 0 .. Updates
    /\ stream \in Seq(DeltaType)
    /\ phase \in {"drain", "read"}
    /\ BookOK
    /\ waiting \in BOOLEAN /\ published \in BOOLEAN
    /\ last \in [valid : BOOLEAN, top : SUBSET Prices, U : Ids, u : Ids, pu : Ids]
    /\ latestId \in 0 .. MaxRequests + 1 /\ nextId \in 0 .. MaxRequests
    /\ requests \in Seq(1 .. MaxRequests) /\ Len(requests) <= QueueCap
    /\ fetching \in 0 .. MaxRequests
    /\ Len(results) <= QueueCap
    /\ \A f \in FaultKinds : faults[f] \in 0 .. MaxFaults[f]

Init ==
    /\ truth = <<FirstBook>> /\ sent = 0 /\ stream = <<>>
    /\ phase = "drain" /\ book = NewBook
    /\ published = FALSE /\ last = InvalidRow
    /\ waiting = FALSE /\ latestId = 0 /\ nextId = 0 /\ requests = <<>>
    /\ fetching = 0 /\ results = <<>>
    /\ faults = [f \in FaultKinds |-> 0]

Fault(f) ==
    /\ faults[f] < MaxFaults[f]
    /\ faults' = [faults EXCEPT ![f] = @ + 1]

-----------------------------------------------------------------------------
(* The exchange *)

Change ==
    /\ Updates < MaxUpdates
    /\ \E b \in Books : truth' = Append(truth, b)
    /\ UNCHANGED <<sent, stream, phase, book, rowVars, reqVars, workVars, faults>>

\* The prices that updates i to j touch, as the event reports them: with
\* their quantity after j.
Delta(i, j) ==
    LET touched == {p \in Prices : \E k \in i .. j : (p \in truth[k]) # (p \in truth[k + 1])} IN
    [U |-> IdOf(i), u |-> IdOf(j), pu |-> IdOf(i - 1),
     gone |-> touched \ truth[j + 1], there |-> touched \cap truth[j + 1]]

Emit ==
    /\ \E j \in sent + 1 .. Updates :
           /\ j <= sent + MaxSpan
           /\ stream' = Append(stream, Delta(sent + 1, j))
           /\ sent' = j
    /\ UNCHANGED <<truth, phase, book, rowVars, reqVars, workVars, faults>>

-----------------------------------------------------------------------------
(* The snapshot worker thread *)

\* BoundedQueue::push: a full queue drops its oldest entry.
Push(q, x) == Append(IF Len(q) >= QueueCap THEN Tail(q) ELSE q, x)

WorkerTakes ==
    /\ fetching = 0
    /\ requests # <<>>
    /\ fetching' = Head(requests)
    /\ requests' = Tail(requests)
    /\ UNCHANGED <<exchVars, phase, book, rowVars, waiting, latestId, nextId, results, faults>>

\* The exchange's answer: the best levels as of some update.
WorkerAnswers ==
    /\ fetching # 0
    /\ \E k \in 0 .. Updates :
           results' = Push(results, [reqId |-> fetching, ok |-> TRUE, id |-> IdOf(k),
                                     levels |-> Best(truth[k + 1], SnapshotLimit)])
    /\ fetching' = 0
    /\ UNCHANGED <<exchVars, phase, book, rowVars, reqVars, faults>>

\* parseSnapshotResponse skips a level it cannot parse: a truncated snapshot
\* is then too short to look truncated.
WorkerAnswersBadLevel ==
    /\ fetching # 0
    /\ Fault("level")
    /\ \E k \in 0 .. Updates : \E p \in Best(truth[k + 1], SnapshotLimit) :
           results' = Push(results, [reqId |-> fetching, ok |-> TRUE, id |-> IdOf(k),
                                     levels |-> Best(truth[k + 1], SnapshotLimit) \ {p}])
    /\ fetching' = 0
    /\ UNCHANGED <<exchVars, phase, book, rowVars, reqVars>>

WorkerFails ==
    /\ fetching # 0
    /\ Fault("fetch")
    /\ results' = Push(results, [reqId |-> fetching, ok |-> FALSE])
    /\ fetching' = 0
    /\ UNCHANGED <<exchVars, phase, book, rowVars, reqVars>>

\* The queues are shared by all symbols.
PushedOut ==
    /\ Fault("overflow")
    /\ \/ requests # <<>> /\ requests' = Tail(requests) /\ UNCHANGED results
       \/ results # <<>> /\ results' = Tail(results) /\ UNCHANGED requests
    /\ UNCHANGED <<exchVars, phase, book, rowVars, waiting, latestId, nextId, fetching>>

-----------------------------------------------------------------------------
(* The handler thread: snapshot results *)

\* Mutant of TimedOut: only a refresh is freed.
TimedOutRefreshOnly(h) ==
    [book |-> CancelRefresh(h.book), waiting |-> FALSE, latestId |-> h.latestId + 1]

\* applySnapshotResults works on the part h of the handler's state.  A request
\* whose time is up:
TimedOut(h) ==
    [book |-> [CancelRefresh(h.book) EXCEPT !.requested = FALSE],
     waiting |-> FALSE, latestId |-> h.latestId + 1]

\* Mutant of ApplyResult: a stale result ends the wait for a newer one.
ApplyResultStaleEnds(h, r) ==
    CASE r.reqId < h.latestId -> [h EXCEPT !.waiting = FALSE]
      [] r.reqId >= h.latestId /\ ~r.ok ->
             [h EXCEPT !.waiting = FALSE,
                       !.book = [CancelRefresh(@) EXCEPT !.requested = FALSE]]
      [] OTHER ->
             [h EXCEPT !.waiting = FALSE,
                       !.book = OnSnapshot(@, [id |-> r.id, levels |-> r.levels])]

\* One result: stale, failed, or a snapshot.
ApplyResult(h, r) ==
    CASE r.reqId < h.latestId -> h
      [] r.reqId >= h.latestId /\ ~r.ok ->
             [h EXCEPT !.waiting = FALSE,
                       !.book = [CancelRefresh(@) EXCEPT !.requested = FALSE]]
      [] OTHER ->
             [h EXCEPT !.waiting = FALSE,
                       !.book = OnSnapshot(@, [id |-> r.id, levels |-> r.levels])]

Handler == [book |-> book, waiting |-> waiting, latestId |-> latestId]

DrainResults(h) ==
    /\ phase = "drain"
    /\ LET after == FoldLeft(ApplyResult, h, results) IN
       /\ book' = after.book
       /\ waiting' = after.waiting
       /\ latestId' = after.latestId
    /\ results' = <<>>
    /\ phase' = "read"
    /\ UNCHANGED <<exchVars, rowVars, nextId, requests, fetching>>

Drain == DrainResults(Handler) /\ UNCHANGED faults

DrainTimeout ==
    /\ waiting
    /\ Fault("timeout")
    /\ DrainResults(TimedOut(Handler))

-----------------------------------------------------------------------------
(* The handler thread: messages *)

\* publishQuote and recordPublish.
Publish(b, quote) ==
    /\ published' = TRUE
    /\ last' = quote
    /\ book' = [b EXCEPT !.rangeClosed = TRUE]

\* checkPublishTimeouts: a heartbeat of a valid quote.
Heartbeat ==
    \/ UNCHANGED <<book, rowVars>>
    \/ /\ book.state = "VALID" /\ published
       /\ GetQuote(book).valid
       /\ Publish(book, GetQuote(book))

\* maybePublish, and the heartbeat that may follow it: a row with the same
\* ids when one was published, the one shouldPublish held back otherwise.
MaybePublish(b) ==
    LET quote == GetQuote(b) IN
    \E elapsed \in BOOLEAN :
        IF ShouldPublish(published, last, quote, elapsed)
        THEN Publish(b, quote)
        ELSE book' = b /\ UNCHANGED rowVars

\* requestSnapshot, once tryAcquire has said yes.
RequestSnapshot ==
    /\ nextId < MaxRequests
    /\ nextId' = nextId + 1
    /\ latestId' = nextId + 1
    /\ requests' = Push(requests, nextId + 1)
    /\ waiting' = TRUE

\* The loop has read a message.
Read ==
    /\ phase = "read"
    /\ phase' = "drain"

Receive ==
    /\ Read
    /\ stream # <<>>
    /\ stream' = Tail(stream)
    /\ UNCHANGED <<truth, sent, workVars>>

\* handleDelta in state INIT: buffer, and ask for a snapshot.
BufferMessage(d) ==
    /\ book.state = "INIT"
    /\ LET b == BufferDelta(book, d) IN
       \/ book' = b /\ UNCHANGED reqVars
       \/ /\ NeedsSnapshot(b)
          /\ RequestSnapshot
          /\ book' = [b EXCEPT !.requested = TRUE]
    /\ UNCHANGED rowVars

\* handleDelta on a sequence gap: publishInvalid, then start over.
LoseSequence(d) ==
    /\ book.state \in {"SYNCING", "VALID"}
    /\ ApplyDelta(book, d).state = "INVALID"
    /\ Publish(NewBook, InvalidRow)
    /\ UNCHANGED reqVars

\* handleDelta of an event that fits: publish, and refresh a book that runs
\* low.
ApplyMessage(d) ==
    LET b == ApplyDelta(book, d) IN
    /\ book.state \in {"SYNCING", "VALID"}
    /\ b.state # "INVALID"
    /\ IF b.state = "SYNCING"
       THEN book' = b /\ UNCHANGED <<rowVars, reqVars>>
       ELSE \/ MaybePublish(b) /\ UNCHANGED reqVars
            \/ /\ WantsRefresh(b)
               /\ RequestSnapshot
               /\ MaybePublish(BeginRefresh(b))

\* handleDelta in state INVALID: reset; the message is not used.
DiscardMessage ==
    /\ book.state = "INVALID"
    /\ book' = NewBook
    /\ UNCHANGED <<rowVars, reqVars>>

HandleDelta(d) ==
    \/ BufferMessage(d)
    \/ LoseSequence(d)
    \/ ApplyMessage(d)
    \/ DiscardMessage

ReadDelta == Receive /\ HandleDelta(Head(stream)) /\ UNCHANGED faults

\* A level of the message cannot be parsed: it is skipped.
ReadDeltaBadLevel ==
    /\ Receive
    /\ Fault("level")
    /\ LET d == Head(stream) IN
       \E p \in d.gone \cup d.there :
           HandleDelta([d EXCEPT !.gone = @ \ {p}, !.there = @ \ {p}])

\* The message never arrives or is not readable.
LoseMessage ==
    /\ Receive
    /\ Fault("message")
    /\ Heartbeat
    /\ UNCHANGED reqVars

\* A message of another symbol.
ReadOther ==
    /\ Read
    /\ Heartbeat
    /\ UNCHANGED <<exchVars, reqVars, workVars, faults>>

\* The connection breaks and runWebSocketLoop starts again: what was on its
\* way is gone, and the new stream starts with a later event.  The guard
\* tp_->connected() is left out: it holds here, since connect() and publish()
\* return with a connection to TP or end the handler.
Reconnect ==
    /\ phase = "read"
    /\ Fault("connection")
    /\ IF published /\ last.valid
       THEN Publish(NewBook, InvalidRow)
       ELSE book' = NewBook /\ UNCHANGED rowVars
    /\ latestId' = IF waiting THEN latestId + 1 ELSE latestId
    /\ waiting' = FALSE
    /\ stream' = <<>>
    /\ sent' \in sent .. Updates
    /\ phase' = "drain"
    /\ UNCHANGED <<truth, nextId, requests, workVars>>

Next ==
    \/ Change
    \/ Emit
    \/ WorkerTakes
    \/ WorkerAnswers
    \/ WorkerAnswersBadLevel
    \/ WorkerFails
    \/ PushedOut
    \/ Drain
    \/ DrainTimeout
    \/ ReadDelta
    \/ ReadDeltaBadLevel
    \/ LoseMessage
    \/ ReadOther
    \/ Reconnect

Spec == Init /\ [][Next]_vars

-----------------------------------------------------------------------------
(* Properties *)

\* A book that claims to be in sequence is the exchange's: inside its
\* horizon it has exactly the levels the exchange had at the update the
\* book is at, and so has a refresh snapshot that waits for its event
\* (order_book_manager.hpp:9-17).  A level that could not be parsed is skipped
\* without a mark and ends the promise.
LevelsRead == faults["level"] = 0

ExactAt(s, id) ==
    s.levels = {p \in TruthAt(id) : s.horizon = NoHorizon \/ p >= s.horizon}

BookExact ==
    LevelsRead =>
    /\ book.state = "VALID" => ExactAt(book.side, book.seq.lastId)
    /\ book.shadow.pending => ExactAt(book.shadow.side, book.shadow.seq.lastId)

\* "A valid L5 always equals the exchange's top five"
\* (tests/test_order_book.cpp:794): the last row, when valid, shows the best
\* Depth levels the exchange had at the row's update id.
PublishedExact ==
    LevelsRead /\ last.valid => last.top = Best(TruthAt(last.u), Depth)

\* Stored quotes have no unmarked break (kdb/utils/check_quote_seq.q:13-29):
\* a valid row after a valid row continues its update ids or repeats them.
Continues(old, new) ==
    IF Sync = "spot"
    THEN new.U <= old.u + 1 /\ new.u >= old.u
    ELSE new.pu = old.u \/ (new.U = old.U /\ new.u = old.u)

NoUnmarkedBreak ==
    [][last.valid /\ last'.valid /\ last' # last => Continues(last, last')]_vars

\* A background refresh stays on the stream's chain: results of the worker
\* never move the update id of a valid book nor end its validity
\* (order_book_manager.hpp:463-465, 374-377).
RefreshKeepsChain ==
    [][phase = "drain" /\ phase' = "read" /\ book.state = "VALID" =>
           book'.state = "VALID" /\ book'.seq.lastId = book.seq.lastId]_vars

\* A request in flight is always watched by the timeout: a symbol that waits
\* for a snapshot, or refreshes, has its request time noted, so a lost
\* answer cannot block it (quote_feed_handler.cpp:529-531).
RequestWatched == (book.requested \/ book.refreshing) => waiting

-----------------------------------------------------------------------------
(* Liveness *)

\* The loop turns: draining never blocks, and messages of some symbol keep
\* coming or the connection ends, so that ws.read() returns or throws.  That is
\* an assumption on the exchange: the idle timeout of 30 s belongs to Beast's
\* asynchronous operations and ws.read() is a synchronous one.  While a request
\* stays in flight its timeout comes.  Nothing is assumed of the worker, which
\* may be stuck in a REST call for good.  The fair actions name only the
\* variables they are about; Drain, DrainTimeout and ReadOther take these steps
\* whenever they are enabled.
LoopDrains == phase = "drain" /\ phase' = "read"
LoopReads == phase = "read" /\ phase' = "drain"
TimeoutComes ==
    /\ phase = "drain" /\ waiting
    /\ faults' = [faults EXCEPT !["timeout"] = @ + 1]

LiveSpec ==
    /\ Spec
    /\ WF_phase(LoopDrains)
    /\ WF_phase(LoopReads)
    /\ SF_faults(TimeoutComes)

\* "A request whose result never came back must not block the symbol"
\* (quote_feed_handler.cpp:529-530): whatever becomes of a request, the
\* symbol is free to ask again.
RequestEnds == book.requested ~> ~book.requested

=============================================================================
