----------------------------- MODULE OrderBook ------------------------------
(***************************************************************************)
(* The local order book of one symbol: cpp/include/order_book_manager.hpp. *)
(*                                                                         *)
(* The book keeps the price levels it knows.  A REST snapshot returns at   *)
(* most SnapshotLimit levels; when it is truncated its worst price is the  *)
(* horizon: levels at or inside it are exact, levels beyond it are not     *)
(* stored.  The diff stream reports levels that change, with exchange      *)
(* update ids by which a snapshot and the stream are joined.  When few     *)
(* levels are left a snapshot is fetched in the background and swapped in  *)
(* under the live book.                                                    *)
(*                                                                         *)
(* One side is modelled, the bids: a price is a number and the higher is   *)
(* the better; the asks are its mirror image and share everything else.    *)
(* The quantity of a level is present or not.  Event and transaction times *)
(* and the counters are left out.                                          *)
(***************************************************************************)
EXTENDS Integers, Sequences, FiniteSets, FiniteSetsExt, SequencesExt

CONSTANTS
    Sync,           \* BookConfig::sync: "spot" or "futures"
    Prices,         \* the prices of the side
    Depth,          \* BookConfig::depth
    SnapshotLimit,  \* BookConfig::snapshotLimit
    LowWater,       \* BookConfig::refreshLowWater as configured
    MaxLevels,      \* BookConfig::maxLevels
    BufferCap       \* MAX_DELTA_BUFFER_SIZE

ASSUME BookAssumption ==
    /\ Sync \in {"spot", "futures"}
    /\ Prices \subseteq Nat \ {0} /\ IsFiniteSet(Prices)
    /\ Depth \in Nat \ {0} /\ SnapshotLimit \in Nat \ {0}
    /\ LowWater \in Nat /\ MaxLevels \in Nat \ {0} /\ BufferCap \in Nat \ {0}

\* A delta: update ids U to u, pu the u of the event before it, the prices
\* whose level is gone and those whose level is there.  A snapshot: the
\* update id it is at and its levels.

-----------------------------------------------------------------------------
(* One side *)

\* The n best prices of S.
Best(S, n) == {p \in S : Cardinality({q \in S : q > p}) < n}

\* horizon is the worst known price, NoHorizon when the whole side is known.
NoHorizon == 0
EmptySide == [levels |-> {}, horizon |-> NoHorizon]

\* Side::below: fewer than n known levels while more may exist.
Below(s, n) == s.horizon # NoHorizon /\ Cardinality(s.levels) < n

InHorizon(s, p) == p >= s.horizon

\* Mutant of Trim: the worst levels go and the horizon stays.
TrimKeepsHorizon(s) == [s EXCEPT !.levels = Best(@, MaxLevels)]

\* Side::trim: the worst levels go and the horizon moves in.
Trim(s) ==
    IF Cardinality(s.levels) <= MaxLevels
    THEN s
    ELSE LET kept == Best(s.levels, MaxLevels) IN
         [levels |-> kept, horizon |-> Min(kept)]

\* Side::load
Load(snap) ==
    Trim([levels |-> snap.levels,
          horizon |-> IF Cardinality(snap.levels) >= SnapshotLimit
                      THEN Min(snap.levels)
                      ELSE NoHorizon])

\* Side::update for one price of delta d.
Update(s, d, p) ==
    IF p \in d.gone
    THEN [s EXCEPT !.levels = @ \ {p}]
    ELSE IF p \in s.levels \/ ~InHorizon(s, p)
         THEN s
         ELSE Trim([s EXCEPT !.levels = @ \cup {p}])

\* applyLevels, in the order the exchange lists the levels: best first, so the
\* least price of any set of them is the last one taken.
ApplyLevels(s, d) ==
    MapThenFoldSet(LAMBDA p, side : Update(side, d, p), s,
                   LAMBDA p : p, Min, d.gone \cup d.there)

-----------------------------------------------------------------------------
(* Sequencing *)

\* Seq: the state after a snapshot at id.
AtSnapshot(id) == [needBridge |-> TRUE, snapshotId |-> id, lastId |-> id]

NoSeq == [needBridge |-> FALSE, snapshotId |-> 0, lastId |-> 0]

\* Mutant of CheckSequence: any event continues the chain.
CheckSequenceNoChain(q, d) ==
    IF ~q.needBridge THEN "apply"
    ELSE IF d.u <= q.snapshotId THEN "skip"
    ELSE IF d.U > q.snapshotId + 1 /\ d.pu # q.snapshotId THEN "fail"
    ELSE "apply"

\* checkSequence: is d the next event for a book in sequencing state q?
CheckSequence(q, d) ==
    LET at == IF q.needBridge THEN q.snapshotId ELSE q.lastId IN
    IF Sync = "futures"
    THEN IF d.pu = at THEN "apply"
         ELSE IF ~q.needBridge \/ (d.u >= at /\ d.U > at) THEN "fail"
         ELSE IF d.u < at THEN "skip"
         ELSE "apply"
    ELSE IF d.u < at \/ (q.needBridge /\ d.u = at) THEN "skip"
         ELSE IF d.U > at + 1 THEN "fail"
         ELSE "apply"

Applied(q, d) == [q EXCEPT !.needBridge = FALSE, !.lastId = d.u]

-----------------------------------------------------------------------------
(* The book *)

NoShadow == [pending |-> FALSE, side |-> EmptySide, seq |-> NoSeq]

\* The members of OrderBookManager for one symbol; reset() and construction.
NewBook ==
    [state |-> "INIT", side |-> EmptySide, seq |-> NoSeq, buf |-> <<>>,
     requested |-> FALSE, refreshing |-> FALSE, shadow |-> NoShadow,
     firstU |-> 0, prevU |-> 0, rangeClosed |-> TRUE]

NeedsSnapshot(b) == b.state = "INIT" /\ ~b.requested

DepthExhausted(b) == Below(b.side, Depth)

\* The mark in effect is capped at half a snapshot.
RefreshLowWater == Min({LowWater, SnapshotLimit \div 2})

WantsRefresh(b) ==
    /\ b.state = "VALID"
    /\ ~b.refreshing
    /\ ~b.shadow.pending
    /\ Below(b.side, RefreshLowWater)

BeginRefresh(b) == [b EXCEPT !.refreshing = TRUE, !.requested = TRUE, !.buf = <<>>]

CancelRefresh(b) ==
    IF b.refreshing
    THEN [b EXCEPT !.refreshing = FALSE, !.requested = FALSE, !.buf = <<>>]
    ELSE b

\* Mutant of BufferDelta: the buffer is not capped.
BufferDeltaUncapped(b, d) == [b EXCEPT !.buf = Append(@, d)]

\* bufferDelta: on overflow the oldest delta is dropped.
BufferDelta(b, d) ==
    LET buf == Append(b.buf, d) IN
    [b EXCEPT !.buf = IF Len(buf) > BufferCap THEN Tail(buf) ELSE buf]

\* The live book takes an event the sequence rule accepts.
TakeEvent(b, d) ==
    [b EXCEPT !.side = ApplyLevels(@, d),
              !.seq = Applied(@, d),
              !.firstU = IF b.rangeClosed THEN d.U ELSE @,
              !.prevU = IF b.rangeClosed THEN d.pu ELSE @,
              !.rangeClosed = FALSE,
              !.state = "VALID"]

\* Mutant of BridgeShadow: the held snapshot is swapped in by the next event,
\* bridging or not.
BridgeShadowAnyEvent(b, d) ==
    IF b.shadow.pending
    THEN [b EXCEPT !.side = ApplyLevels(b.shadow.side, d), !.shadow = NoShadow]
    ELSE b

\* A refresh snapshot ahead of the stream, held until its bridging event.
BridgeShadow(b, d) ==
    LET verdict == CheckSequence(b.shadow.seq, d) IN
    CASE ~b.shadow.pending \/ verdict = "skip" -> b
      [] b.shadow.pending /\ verdict = "fail" -> [b EXCEPT !.shadow = NoShadow]
      [] OTHER -> [b EXCEPT !.side = ApplyLevels(b.shadow.side, d),
                            !.seq = Applied(b.shadow.seq, d),
                            !.shadow = NoShadow]

\* applyDelta; a book that comes out INVALID stands for its return of false.
ApplyDelta(b, d) ==
    IF b.state \notin {"SYNCING", "VALID"}
    THEN b
    ELSE LET verdict == CheckSequence(b.seq, d)
             live == IF verdict = "apply" THEN TakeEvent(b, d) ELSE b
             kept == IF live.refreshing THEN BufferDelta(live, d) ELSE live
         IN  IF verdict = "fail"
             THEN [b EXCEPT !.state = "INVALID"]
             ELSE BridgeShadow(kept, d)

\* onSnapshot in state INIT: load, then replay the buffered deltas until one
\* does not fit.
InitialSync(b, snap) ==
    LET loaded == [b EXCEPT !.side = Load(snap),
                            !.seq = AtSnapshot(snap.id),
                            !.state = "SYNCING"]
    IN  [FoldLeft(ApplyDelta, loaded, b.buf) EXCEPT !.buf = <<>>]

\* A shadow book takes one buffered delta; it remembers a hole.
ShadowStep(sh, d) ==
    LET verdict == CheckSequence(sh.seq, d) IN
    CASE sh.failed \/ verdict = "skip" -> sh
      [] ~sh.failed /\ verdict = "fail" -> [sh EXCEPT !.failed = TRUE]
      [] OTHER -> [sh EXCEPT !.side = ApplyLevels(@, d), !.seq = Applied(@, d)]

\* Mutants of FinishRefresh: a snapshot that no buffered delta bridges is
\* swapped in as it is; a hole is not noticed.
FinishRefreshAtOnce(b, snap) ==
    LET sh == FoldLeft(ShadowStep,
                       [side |-> Load(snap), seq |-> AtSnapshot(snap.id), failed |-> FALSE],
                       b.buf)
        done == [b EXCEPT !.refreshing = FALSE, !.buf = <<>>]
    IN  IF sh.failed THEN done ELSE [done EXCEPT !.side = sh.side, !.seq = sh.seq]

FinishRefreshOverHole(b, snap) ==
    LET sh == FoldLeft(ShadowStep,
                       [side |-> Load(snap), seq |-> AtSnapshot(snap.id), failed |-> FALSE],
                       b.buf)
    IN  [b EXCEPT !.refreshing = FALSE, !.buf = <<>>, !.side = sh.side]

\* finishRefresh: build a shadow book, then drop it (a hole), swap it in, or
\* hold it until the stream reaches it.
FinishRefresh(b, snap) ==
    LET sh == FoldLeft(ShadowStep,
                       [side |-> Load(snap), seq |-> AtSnapshot(snap.id), failed |-> FALSE],
                       b.buf)
        done == [b EXCEPT !.refreshing = FALSE, !.buf = <<>>]
    IN  CASE sh.failed -> done
          [] ~sh.failed /\ ~sh.seq.needBridge ->
                 [done EXCEPT !.side = sh.side, !.seq = sh.seq]
          [] ~sh.failed /\ sh.seq.needBridge /\ snap.id = b.seq.lastId ->
                 [done EXCEPT !.side = sh.side]
          [] OTHER ->
                 [done EXCEPT !.shadow = [pending |-> TRUE, side |-> sh.side, seq |-> sh.seq]]

\* onSnapshot
OnSnapshot(b, snap) ==
    LET r == [b EXCEPT !.requested = FALSE] IN
    CASE r.state = "VALID" /\ r.refreshing -> FinishRefresh(r, snap)
      [] r.state = "INIT" -> InitialSync([r EXCEPT !.refreshing = FALSE], snap)
      [] OTHER -> [r EXCEPT !.refreshing = FALSE]

-----------------------------------------------------------------------------
(* Quotes *)

InvalidRow == [valid |-> FALSE, top |-> {}, U |-> 0, u |-> 0, pu |-> 0]

\* Mutant of GetQuote: a side that ran out of known levels is still quoted.
GetQuoteExhausted(b) ==
    IF b.state # "VALID"
    THEN InvalidRow
    ELSE [valid |-> TRUE, top |-> Best(b.side.levels, Depth),
          U |-> b.firstU, u |-> b.seq.lastId,
          pu |-> IF Sync = "futures" THEN b.prevU ELSE 0]

\* getQuote of a book that is VALID or about to be published as invalid.
GetQuote(b) ==
    IF b.state # "VALID" \/ DepthExhausted(b)
    THEN InvalidRow
    ELSE [valid |-> TRUE, top |-> Best(b.side.levels, Depth),
          U |-> b.firstU, u |-> b.seq.lastId,
          pu |-> IF Sync = "futures" THEN b.prevU ELSE 0]

\* shouldPublish against the last published row, if any; elapsed: the
\* heartbeat timeout has passed since.
ShouldPublish(published, last, quote, elapsed) ==
    \/ ~published
    \/ quote.valid # last.valid
    \/ quote.valid /\ (quote.top # last.top \/ elapsed)

=============================================================================
