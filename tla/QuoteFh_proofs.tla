--------------------------- MODULE QuoteFh_proofs ---------------------------
(***************************************************************************)
(* Proofs about QuoteFh: the book and the rows of a quote handler stay on  *)
(* the stream's chain, and show the exchange's levels, for every number of *)
(* updates, prices, limits and faults.                                     *)
(***************************************************************************)
EXTENDS QuoteFh, OrderBook_proofs

-----------------------------------------------------------------------------
(* The invariants *)

ShadowType == [pending : BOOLEAN, side : SideType, seq : SeqType]

BookType ==
    [state : {"INIT", "SYNCING", "VALID", "INVALID"}, side : SideType, seq : SeqType,
     buf : Seq(DeltaType), requested : BOOLEAN, refreshing : BOOLEAN, shadow : ShadowType,
     firstU : Ids, prevU : Ids, rangeClosed : BOOLEAN]

ResultType ==
    [reqId : 1 .. MaxRequests, ok : {TRUE}, id : Ids, levels : SUBSET Prices]
        \cup [reqId : 1 .. MaxRequests, ok : {FALSE}]

RowType == [valid : BOOLEAN, top : SUBSET Prices, U : Ids, u : Ids, pu : Ids]

\* The types of the variables, and the ids of the requests.
ExchTyped ==
    /\ truth \in Seq(Books) /\ Len(truth) \in 1 .. MaxUpdates + 1
    /\ sent \in 0 .. Updates
    /\ stream \in Seq(DeltaType)

BookTyped == phase \in {"drain", "read"} /\ book \in BookType /\ Len(book.buf) <= BufferCap

RowTyped == published \in BOOLEAN /\ last \in RowType /\ (last.valid => published)

ReqTyped ==
    /\ waiting \in BOOLEAN
    /\ nextId \in 0 .. MaxRequests /\ latestId \in 0 .. nextId + 1
    /\ waiting => latestId = nextId
    /\ requests \in Seq(1 .. MaxRequests) /\ Len(requests) <= QueueCap

WorkTyped ==
    /\ fetching \in 0 .. MaxRequests
    /\ results \in Seq(ResultType) /\ Len(results) <= QueueCap

FaultsTyped ==
    /\ faults \in [FaultKinds -> Nat]
    /\ \A f \in FaultKinds : faults[f] <= MaxFaults[f]

Typed == ExchTyped /\ BookTyped /\ RowTyped /\ ReqTyped /\ WorkTyped /\ FaultsTyped

\* The events of q are in the order of the exchange's updates, none later than id.
InOrder(q, id) ==
    /\ \A m \in DOMAIN q : q[m].U <= q[m].u /\ q[m].u <= id
    /\ \A m, n \in DOMAIN q : m < n => q[m].u < q[n].U

\* What holds of the book whatever the stream: a request is known by its
\* flags, a refresh and a held snapshot belong to a valid book, which has
\* taken an event, and the events buffered for a refresh end with the last
\* one taken.
BookChain(b) ==
    /\ b.state = "VALID" => ~ b.seq.needBridge /\ b.firstU <= b.seq.lastId
    /\ b.state = "SYNCING" => b.seq.needBridge
    /\ b.state \in {"INIT", "SYNCING"} => b.rangeClosed
    /\ b.refreshing => b.state = "VALID" /\ b.requested
    /\ b.shadow.pending => /\ b.state = "VALID" /\ ~ b.refreshing
                           /\ b.shadow.seq.needBridge
    /\ b.refreshing /\ b.buf # <<>> => b.buf[Len(b.buf)].u = b.seq.lastId
    /\ \A m \in DOMAIN b.buf : b.buf[m].U <= b.buf[m].u
    /\ \A m, n \in DOMAIN b.buf : m < n => b.buf[m].u < b.buf[n].U

\* The book b is behind the events q on their way, which end at id.
Behind(b, q, id) ==
    /\ InOrder(q, id)
    /\ \A m \in DOMAIN b.buf : /\ b.buf[m].u <= id
                               /\ \A n \in DOMAIN q : b.buf[m].u < q[n].U
    /\ b.state = "VALID" => /\ b.seq.lastId <= id
                            /\ \A n \in DOMAIN q : b.seq.lastId < q[n].U

\* The next row of book b continues the last row r: the range of ids that b
\* has collected starts where r ended, or is the one r showed.
RowChain(b, r) ==
    r.valid =>
        /\ b.state = "VALID"
        /\ IF b.rangeClosed
           THEN /\ r.U = b.firstU /\ r.u = b.seq.lastId
                /\ Sync = "futures" => r.pu = b.prevU
           ELSE IF Sync = "spot"
                THEN b.firstU <= r.u + 1 /\ r.u <= b.seq.lastId
                ELSE b.prevU = r.u

ChainInv ==
    /\ Typed
    /\ BookChain(book)
    /\ Behind(book, stream, IdOf(sent))
    /\ RowChain(book, last)
    /\ RequestWatched

\* Delta d covers the updates i to j of the history tr, and takes the book
\* after any update it covers, or the one before, to the book after j.
Covers(d, tr, i, j) ==
    /\ d.U = IdOf(i) /\ d.u = IdOf(j) /\ d.pu = IdOf(i - 1)
    /\ \A k \in i - 1 .. j : After(tr[k + 1], d) = tr[j + 1]

Genuine(d, tr) == \E i, j \in 1 .. Len(tr) - 1 : i <= j /\ Covers(d, tr, i, j)

\* The side s is the exchange's after the update with this id.
SideAt(s, id, tr) == \E k \in 0 .. Len(tr) - 1 : id = IdOf(k) /\ Exact(s, tr[k + 1])

ExactBook(b, tr) ==
    /\ \A m \in DOMAIN b.buf : Genuine(b.buf[m], tr)
    /\ b.state \in {"SYNCING", "VALID"} =>
           /\ SideAt(b.side, b.seq.lastId, tr)
           /\ b.seq.needBridge => b.seq.snapshotId = b.seq.lastId
    /\ b.shadow.pending =>
           /\ SideAt(b.shadow.side, b.shadow.seq.lastId, tr)
           /\ b.shadow.seq.needBridge => b.shadow.seq.snapshotId = b.shadow.seq.lastId

ExactResult(r, tr) ==
    r.ok => \E k \in 0 .. Len(tr) - 1 :
                r.id = IdOf(k) /\ r.levels = Best(tr[k + 1], SnapshotLimit)

ExactRow(r, tr) ==
    r.valid => \E k \in 0 .. Len(tr) - 1 : r.u = IdOf(k) /\ r.top = Best(tr[k + 1], Depth)

Exactly ==
    /\ \A m \in DOMAIN stream : Genuine(stream[m], truth)
    /\ ExactBook(book, truth)
    /\ \A m \in DOMAIN results : ExactResult(results[m], truth)
    /\ ExactRow(last, truth)

ExactInv == LevelsRead => Exactly

-----------------------------------------------------------------------------
(* The book's operators, by type *)

\* Update ids are naturals in the order of the updates.
LEMMA IdFacts ==
    /\ \A k \in Nat : IdOf(k) \in Nat /\ k <= IdOf(k)
    /\ \A j, k \in Nat : (j <= k <=> IdOf(j) <= IdOf(k)) /\ (j < k <=> IdOf(j) < IdOf(k))
    /\ \A j, k \in Nat : IdOf(j) = IdOf(k) <=> j = k
    /\ \A k \in 0 .. MaxUpdates : IdOf(k) \in Ids
    /\ Ids \subseteq Nat /\ 0 \in Ids
BY FhAssumption DEF IdOf, Ids, FhAssumption

\* A delta keeps a side of a book a side.
LEMMA LevelsTyped ==
    ASSUME NEW s \in SideType, NEW d \in DeltaType
    PROVE  ApplyLevels(s, d) \in SideType
<1>1. d.gone \in SUBSET Prices /\ d.there \in SUBSET Prices
  BY DEF DeltaType
<1>2. SideType = Sides
  BY DEF SideType, Sides
<1>3. QED
  BY <1>1, <1>2, ApplyLevelsTyped

\* The sequencing state after an event.
LEMMA AppliedTyped ==
    ASSUME NEW q \in SeqType, NEW d \in DeltaType
    PROVE  Applied(q, d) \in SeqType /\ Applied(q, d).lastId = d.u /\ ~ Applied(q, d).needBridge
<1>1. d.u \in Ids
  BY DEF DeltaType
<1>2. QED
  BY <1>1 DEF SeqType, Applied

\* A book without anything.
LEMMA NewBookTyped == NewBook \in BookType /\ Len(NewBook.buf) <= BufferCap
<1>1. EmptySide \in SideType
  BY DEF EmptySide, SideType
<1>2. NoSeq \in SeqType
  BY IdFacts DEF NoSeq, SeqType
<1>3. NoShadow \in ShadowType
  BY <1>1, <1>2 DEF NoShadow, ShadowType
<1>4. <<>> \in Seq(DeltaType) /\ 0 \in Ids
  BY IdFacts
<1>5. Len(<<>>) <= BufferCap
  BY BookAssumption DEF BookAssumption
<1>6. QED
  BY <1>1, <1>2, <1>3, <1>4, <1>5 DEF NewBook, BookType

\* bufferDelta appends the delta, and drops the first one when the buffer
\* is full.
LEMMA BufferDeltaTyped ==
    ASSUME NEW b \in BookType, NEW d \in DeltaType
    PROVE  /\ BufferDelta(b, d) \in BookType
           /\ BufferDelta(b, d) = [b EXCEPT !.buf = BufferDelta(b, d).buf]
           /\ Len(b.buf) <= BufferCap => Len(BufferDelta(b, d).buf) <= BufferCap
           /\ BufferDelta(b, d).buf # <<>>
           /\ BufferDelta(b, d).buf[Len(BufferDelta(b, d).buf)] = d
           /\ \/ BufferDelta(b, d).buf = Append(b.buf, d)
              \/ BufferDelta(b, d).buf = Tail(Append(b.buf, d)) /\ Len(b.buf) >= 1
<1> DEFINE q == Append(b.buf, d)
           t == IF Len(q) > BufferCap THEN Tail(q) ELSE q
           n == Len(b.buf)
<1>1. b.buf \in Seq(DeltaType)
  BY DEF BookType
<1>2. q \in Seq(DeltaType) /\ Len(q) = n + 1 /\ q[n + 1] = d /\ n \in Nat
  BY <1>1, AppendSeq
<1>3. BufferDelta(b, d) = [b EXCEPT !.buf = t]
  BY DEF BufferDelta
<1>4. BufferCap \in Nat \ {0}
  BY BookAssumption DEF BookAssumption
<1> HIDE DEF q
<1>5. q # <<>>
  BY <1>2
<1>6. Tail(q) \in Seq(DeltaType) /\ Len(Tail(q)) = n /\ \A i \in 1 .. n : Tail(q)[i] = q[i + 1]
  BY <1>2, <1>5, TailSeq
<1>7. CASE Len(q) > BufferCap
  <2>1. t = Tail(q) /\ n >= 1
    BY <1>2, <1>4, <1>7
  <2>2. Tail(q)[n] = d
    BY <1>2, <1>6, <2>1
  <2> HIDE DEF t
  <2>3. BufferDelta(b, d).buf = Tail(q) /\ BufferDelta(b, d) = [b EXCEPT !.buf = Tail(q)]
    BY <1>3, <2>1 DEF BookType
  <2>4. BufferDelta(b, d) \in BookType
    BY <1>6, <2>3 DEF BookType
  <2>5. Tail(q) # <<>>
    BY <1>6, <2>1
  <2>6. QED
    BY <1>6, <2>1, <2>2, <2>3, <2>4, <2>5 DEF q
<1>8. CASE ~ (Len(q) > BufferCap)
  <2>1. t = q
    BY <1>8
  <2> HIDE DEF t
  <2>2. BufferDelta(b, d).buf = q /\ BufferDelta(b, d) = [b EXCEPT !.buf = q]
    BY <1>3, <2>1 DEF BookType
  <2>3. BufferDelta(b, d) \in BookType
    BY <1>2, <2>2 DEF BookType
  <2>4. Len(q) <= BufferCap
    BY <1>2, <1>4, <1>8
  <2>5. QED
    BY <1>2, <1>5, <2>2, <2>3, <2>4 DEF q
<1>9. QED
  BY <1>7, <1>8

\* The live book after an event it accepts.
LEMMA TakeEventTyped ==
    ASSUME NEW b \in BookType, NEW d \in DeltaType
    PROVE  /\ TakeEvent(b, d) \in BookType
           /\ TakeEvent(b, d).state = "VALID"
           /\ TakeEvent(b, d).side = ApplyLevels(b.side, d)
           /\ TakeEvent(b, d).seq = Applied(b.seq, d)
           /\ TakeEvent(b, d).buf = b.buf
           /\ TakeEvent(b, d).requested = b.requested
           /\ TakeEvent(b, d).refreshing = b.refreshing
           /\ TakeEvent(b, d).shadow = b.shadow
           /\ TakeEvent(b, d).firstU = (IF b.rangeClosed THEN d.U ELSE b.firstU)
           /\ TakeEvent(b, d).prevU = (IF b.rangeClosed THEN d.pu ELSE b.prevU)
           /\ TakeEvent(b, d).rangeClosed = FALSE
<1>1. ApplyLevels(b.side, d) \in SideType
  BY LevelsTyped DEF BookType
<1>2. Applied(b.seq, d) \in SeqType
  BY AppliedTyped DEF BookType
<1>3. (IF b.rangeClosed THEN d.U ELSE b.firstU) \in Ids
  BY DEF BookType, DeltaType
<1>4. (IF b.rangeClosed THEN d.pu ELSE b.prevU) \in Ids
  BY DEF BookType, DeltaType
<1>5. QED
  BY <1>1, <1>2, <1>3, <1>4 DEF TakeEvent, BookType

\* The book after its held snapshot has seen an event.
LEMMA BridgeShadowTyped ==
    ASSUME NEW b \in BookType, NEW d \in DeltaType
    PROVE  BridgeShadow(b, d) \in BookType
<1>1. b.shadow.side \in SideType /\ b.shadow.seq \in SeqType
  BY DEF BookType, ShadowType
<1>2. ApplyLevels(b.shadow.side, d) \in SideType
  BY <1>1, LevelsTyped
<1>3. Applied(b.shadow.seq, d) \in SeqType
  BY <1>1, AppliedTyped
<1>4. NoShadow \in ShadowType
  BY NewBookTyped DEF NewBook, BookType
<1>5. [b EXCEPT !.shadow = NoShadow] \in BookType
  BY <1>4 DEF BookType
<1>6. [b EXCEPT !.side = ApplyLevels(b.shadow.side, d),
                !.seq = Applied(b.shadow.seq, d),
                !.shadow = NoShadow] \in BookType
  BY <1>2, <1>3, <1>4 DEF BookType
<1>7. QED
  BY <1>5, <1>6 DEF BridgeShadow

\* applyDelta, by what the sequence rule says of the event.
LEMMA ApplyDeltaCases ==
    ASSUME NEW b \in BookType, NEW d \in DeltaType, b.state \in {"SYNCING", "VALID"}
    PROVE  /\ CheckSequence(b.seq, d) \in {"apply", "skip", "fail"}
           /\ CheckSequence(b.seq, d) = "fail" =>
                  ApplyDelta(b, d) = [b EXCEPT !.state = "INVALID"]
           /\ CheckSequence(b.seq, d) = "apply" =>
                  ApplyDelta(b, d) =
                      BridgeShadow(IF b.refreshing THEN BufferDelta(TakeEvent(b, d), d)
                                                   ELSE TakeEvent(b, d), d)
           /\ CheckSequence(b.seq, d) = "skip" =>
                  ApplyDelta(b, d) =
                      BridgeShadow(IF b.refreshing THEN BufferDelta(b, d) ELSE b, d)
<1>1. CheckSequence(b.seq, d) \in {"apply", "skip", "fail"}
  BY DEF CheckSequence
<1>2. TakeEvent(b, d).refreshing = b.refreshing
  BY TakeEventTyped
<1>3. QED
  BY <1>1, <1>2 DEF ApplyDelta

\* applyDelta keeps a book a book.
LEMMA ApplyDeltaTyped ==
    ASSUME NEW b \in BookType, NEW d \in DeltaType
    PROVE  ApplyDelta(b, d) \in BookType
<1>1. CASE b.state \notin {"SYNCING", "VALID"}
  BY <1>1 DEF ApplyDelta
<1>2. CASE b.state \in {"SYNCING", "VALID"}
  <2>1. TakeEvent(b, d) \in BookType
    BY TakeEventTyped
  <2>2. BufferDelta(b, d) \in BookType /\ BufferDelta(TakeEvent(b, d), d) \in BookType
    BY <2>1, BufferDeltaTyped
  <2>3. [b EXCEPT !.state = "INVALID"] \in BookType
    BY DEF BookType
  <2>4. (IF b.refreshing THEN BufferDelta(TakeEvent(b, d), d) ELSE TakeEvent(b, d)) \in BookType
    BY <2>1, <2>2
  <2>5. (IF b.refreshing THEN BufferDelta(b, d) ELSE b) \in BookType
    BY <2>2
  <2>6. QED
    BY <1>2, <2>3, <2>4, <2>5, ApplyDeltaCases, BridgeShadowTyped
<1>3. QED
  BY <1>1, <1>2

\* r is the books that the deltas of q make of b, one after the other.
ApplyRun(r, b, q) ==
    /\ r \in [0 .. Len(q) -> BookType]
    /\ r[0] = b
    /\ \A k \in 1 .. Len(q) : r[k] = ApplyDelta(r[k - 1], q[k])
    /\ FoldLeft(ApplyDelta, b, q) = r[Len(q)]

\* applyDelta can be folded over a buffer.
LEMMA ApplyDeltaRun ==
    ASSUME NEW b \in BookType, NEW q \in Seq(DeltaType)
    PROVE  \E r : ApplyRun(r, b, q)
<1> DEFINE n == Len(q)
           h == [k \in 1 .. n |-> [y \in BookType |-> ApplyDelta(y, q[k])]]
           Is(g) == g = [s \in SUBSET (DOMAIN q) |->
                           IF s = {} THEN b ELSE ApplyDelta(g[s \ {Max(s)}], q[Max(s)])]
           f == CHOOSE g : Is(g)
<1>1. n \in Nat /\ DOMAIN q = 1 .. n /\ \A k \in 1 .. n : q[k] \in DeltaType
  OBVIOUS
<1>2. h \in [1 .. n -> [BookType -> BookType]]
  <2>1. \A k \in 1 .. n : \A y \in BookType : ApplyDelta(y, q[k]) \in BookType
    BY <1>1, ApplyDeltaTyped
  <2> HIDE DEF n
  <2>2. QED
    BY <2>1
<1>3. Picks(LastOf(n), 1 .. n) /\ IsFiniteSet(1 .. n)
  BY <1>1, LastOfPicks
<1>4. PICK g \in [SUBSET (1 .. n) -> BookType] : Folds(g, 1 .. n, LastOf(n), b, h)
  <2> HIDE DEF n, h
  <2>1. QED
    BY <1>1, <1>2, <1>3, FoldExists
<1>5. ASSUME NEW s \in SUBSET (1 .. n), s # {}
      PROVE  Max(s) \in 1 .. n /\ s \ {Max(s)} \in SUBSET (1 .. n) /\ LastOf(n)[s] = Max(s)
  <2> HIDE DEF n
  <2>1. LastOf(n)[s] = Max(s)
    BY DEF LastOf
  <2>2. Max(s) \in s
    BY <1>3, <1>5, <2>1 DEF Picks
  <2>3. QED
    BY <2>1, <2>2
<1>6. ASSUME NEW s \in SUBSET (1 .. n), s # {}
      PROVE  g[s] = ApplyDelta(g[s \ {Max(s)}], q[Max(s)])
  <2>1. g[s] = h[Max(s)][g[s \ {Max(s)}]]
    <3> HIDE DEF n, h
    <3>1. QED
      BY <1>4, <1>5, <1>6 DEF Folds
  <2>2. Max(s) \in 1 .. n /\ g[s \ {Max(s)}] \in BookType
    <3> HIDE DEF n, h
    <3>1. QED
      BY <1>4, <1>5, <1>6
  <2> HIDE DEF n
  <2>3. QED
    BY <2>1, <2>2
<1>7. g[{}] = b
  <2> HIDE DEF n, h
  <2>1. QED
    BY <1>4 DEF Folds
<1>8. Is(g)
  <2> HIDE DEF n, h
  <2>1. QED
    BY <1>1, <1>4, <1>6, <1>7
<1>9. Is(f)
  <2> HIDE DEF Is
  <2>1. QED
    BY <1>8
<1>10. FoldLeft(ApplyDelta, b, q) = f[DOMAIN q]
  BY DEF FoldLeft, MapThenFoldSet
<1> HIDE DEF f
<1>11. FoldsIn(f, n, b, h, BookType)
  <2>1. f[{}] = b
    BY <1>9
  <2>2. ASSUME NEW s \in SUBSET (1 .. n), s # {}, f[s \ {Max(s)}] \in BookType
        PROVE  f[s] = h[Max(s)][f[s \ {Max(s)}]]
    <3>1. f[s] = ApplyDelta(f[s \ {Max(s)}], q[Max(s)])
      BY <1>1, <1>9, <2>2
    <3>2. Max(s) \in 1 .. n
      BY <1>5, <2>2
    <3> HIDE DEF n
    <3>3. QED
      BY <2>2, <3>1, <3>2
  <2> HIDE DEF n, h
  <2>3. QED
    BY <2>1, <2>2 DEF FoldsIn
<1>12. PICK r : StepsThrough(r, n, b, h, BookType) /\ f[1 .. n] = r[n]
  <2> HIDE DEF n, h, Is
  <2>1. QED
    BY <1>1, <1>2, <1>11, RunOfFold
<1>13. ASSUME NEW k \in 1 .. n
       PROVE  r[k] = ApplyDelta(r[k - 1], q[k])
  <2>1. r \in [0 .. n -> BookType] /\ r[k] = h[k][r[k - 1]]
    <3> HIDE DEF n, h
    <3>1. QED
      BY <1>12 DEF StepsThrough
  <2>2. k - 1 \in 0 .. n
    <3> HIDE DEF n
    <3>1. QED
      BY <1>1
  <2>3. r[k - 1] \in BookType
    <3> HIDE DEF n, h
    <3>1. QED
      BY <2>1, <2>2
  <2> HIDE DEF n
  <2>4. QED
    BY <2>1, <2>3
<1>14. r \in [0 .. n -> BookType] /\ r[0] = b
  <2> HIDE DEF n, h
  <2>1. QED
    BY <1>12 DEF StepsThrough
<1>15. FoldLeft(ApplyDelta, b, q) = r[n]
  BY <1>1, <1>10, <1>12
<1>16. ApplyRun(r, b, q)
  <2> HIDE DEF h, Is
  <2>1. QED
    BY <1>13, <1>14, <1>15 DEF ApplyRun
<1>17. QED
  BY <1>16

\* A shadow book with one more delta.
ShadowBookType == [side : SideType, seq : SeqType, failed : BOOLEAN]

\* A shadow book stays one.
LEMMA ShadowStepTyped ==
    ASSUME NEW x \in ShadowBookType, NEW d \in DeltaType
    PROVE  ShadowStep(x, d) \in ShadowBookType
<1>1. ApplyLevels(x.side, d) \in SideType
  BY LevelsTyped DEF ShadowBookType
<1>2. Applied(x.seq, d) \in SeqType
  BY AppliedTyped DEF ShadowBookType
<1>3. [x EXCEPT !.failed = TRUE] \in ShadowBookType
  BY DEF ShadowBookType
<1>4. [x EXCEPT !.side = ApplyLevels(@, d), !.seq = Applied(@, d)] \in ShadowBookType
  BY <1>1, <1>2 DEF ShadowBookType
<1>5. QED
  BY <1>3, <1>4 DEF ShadowStep

\* r is the shadow books that the deltas of q make of x, one after the other.
ShadowRun(r, x, q) ==
    /\ r \in [0 .. Len(q) -> ShadowBookType]
    /\ r[0] = x
    /\ \A k \in 1 .. Len(q) : r[k] = ShadowStep(r[k - 1], q[k])
    /\ FoldLeft(ShadowStep, x, q) = r[Len(q)]

\* A shadow book can be taken through a buffer.
LEMMA ShadowStepRun ==
    ASSUME NEW x \in ShadowBookType, NEW q \in Seq(DeltaType)
    PROVE  \E r : ShadowRun(r, x, q)
<1> DEFINE n == Len(q)
           h == [k \in 1 .. n |-> [y \in ShadowBookType |-> ShadowStep(y, q[k])]]
           Is(g) == g = [s \in SUBSET (DOMAIN q) |->
                           IF s = {} THEN x ELSE ShadowStep(g[s \ {Max(s)}], q[Max(s)])]
           f == CHOOSE g : Is(g)
<1>1. n \in Nat /\ DOMAIN q = 1 .. n /\ \A k \in 1 .. n : q[k] \in DeltaType
  OBVIOUS
<1>2. h \in [1 .. n -> [ShadowBookType -> ShadowBookType]]
  <2>1. \A k \in 1 .. n : \A y \in ShadowBookType : ShadowStep(y, q[k]) \in ShadowBookType
    BY <1>1, ShadowStepTyped
  <2> HIDE DEF n
  <2>2. QED
    BY <2>1
<1>3. Picks(LastOf(n), 1 .. n) /\ IsFiniteSet(1 .. n)
  BY <1>1, LastOfPicks
<1>4. PICK g \in [SUBSET (1 .. n) -> ShadowBookType] : Folds(g, 1 .. n, LastOf(n), x, h)
  <2> HIDE DEF n, h
  <2>1. QED
    BY <1>1, <1>2, <1>3, FoldExists
<1>5. ASSUME NEW s \in SUBSET (1 .. n), s # {}
      PROVE  Max(s) \in 1 .. n /\ s \ {Max(s)} \in SUBSET (1 .. n) /\ LastOf(n)[s] = Max(s)
  <2> HIDE DEF n
  <2>1. LastOf(n)[s] = Max(s)
    BY DEF LastOf
  <2>2. Max(s) \in s
    BY <1>3, <1>5, <2>1 DEF Picks
  <2>3. QED
    BY <2>1, <2>2
<1>6. ASSUME NEW s \in SUBSET (1 .. n), s # {}
      PROVE  g[s] = ShadowStep(g[s \ {Max(s)}], q[Max(s)])
  <2>1. g[s] = h[Max(s)][g[s \ {Max(s)}]]
    <3> HIDE DEF n, h
    <3>1. QED
      BY <1>4, <1>5, <1>6 DEF Folds
  <2>2. Max(s) \in 1 .. n /\ g[s \ {Max(s)}] \in ShadowBookType
    <3> HIDE DEF n, h
    <3>1. QED
      BY <1>4, <1>5, <1>6
  <2> HIDE DEF n
  <2>3. QED
    BY <2>1, <2>2
<1>7. g[{}] = x
  <2> HIDE DEF n, h
  <2>1. QED
    BY <1>4 DEF Folds
<1>8. Is(g)
  <2> HIDE DEF n, h
  <2>1. QED
    BY <1>1, <1>4, <1>6, <1>7
<1>9. Is(f)
  <2> HIDE DEF Is
  <2>1. QED
    BY <1>8
<1>10. FoldLeft(ShadowStep, x, q) = f[DOMAIN q]
  BY DEF FoldLeft, MapThenFoldSet
<1> HIDE DEF f
<1>11. FoldsIn(f, n, x, h, ShadowBookType)
  <2>1. f[{}] = x
    BY <1>9
  <2>2. ASSUME NEW s \in SUBSET (1 .. n), s # {}, f[s \ {Max(s)}] \in ShadowBookType
        PROVE  f[s] = h[Max(s)][f[s \ {Max(s)}]]
    <3>1. f[s] = ShadowStep(f[s \ {Max(s)}], q[Max(s)])
      BY <1>1, <1>9, <2>2
    <3>2. Max(s) \in 1 .. n
      BY <1>5, <2>2
    <3> HIDE DEF n
    <3>3. QED
      BY <2>2, <3>1, <3>2
  <2> HIDE DEF n, h
  <2>3. QED
    BY <2>1, <2>2 DEF FoldsIn
<1>12. PICK r : StepsThrough(r, n, x, h, ShadowBookType) /\ f[1 .. n] = r[n]
  <2> HIDE DEF n, h, Is
  <2>1. QED
    BY <1>1, <1>2, <1>11, RunOfFold
<1>13. ASSUME NEW k \in 1 .. n
       PROVE  r[k] = ShadowStep(r[k - 1], q[k])
  <2>1. r \in [0 .. n -> ShadowBookType] /\ r[k] = h[k][r[k - 1]]
    <3> HIDE DEF n, h
    <3>1. QED
      BY <1>12 DEF StepsThrough
  <2>2. k - 1 \in 0 .. n
    <3> HIDE DEF n
    <3>1. QED
      BY <1>1
  <2>3. r[k - 1] \in ShadowBookType
    <3> HIDE DEF n, h
    <3>1. QED
      BY <2>1, <2>2
  <2> HIDE DEF n
  <2>4. QED
    BY <2>1, <2>3
<1>14. r \in [0 .. n -> ShadowBookType] /\ r[0] = x
  <2> HIDE DEF n, h
  <2>1. QED
    BY <1>12 DEF StepsThrough
<1>15. FoldLeft(ShadowStep, x, q) = r[n]
  BY <1>1, <1>10, <1>12
<1>16. ShadowRun(r, x, q)
  <2> HIDE DEF h, Is
  <2>1. QED
    BY <1>13, <1>14, <1>15 DEF ShadowRun
<1>17. QED
  BY <1>16

-----------------------------------------------------------------------------
(* One event *)

\* The book x after event d was applied to the live book b: it is at the end
\* of d, and its side is the live one or the held snapshot's with d.
TookEvent(b, d, x) ==
    /\ CheckSequence(b.seq, d) = "apply"
    /\ x.state = "VALID" /\ x.seq.lastId = d.u /\ ~ x.seq.needBridge
    /\ x.firstU = (IF b.rangeClosed THEN d.U ELSE b.firstU)
    /\ x.prevU = (IF b.rangeClosed THEN d.pu ELSE b.prevU)
    /\ x.rangeClosed = FALSE
    /\ x.requested = b.requested /\ x.refreshing = b.refreshing
    /\ x.shadow.pending => b.shadow.pending /\ x.shadow = b.shadow
    /\ x.buf = IF b.refreshing THEN BufferDelta(TakeEvent(b, d), d).buf ELSE b.buf
    /\ \/ x.side = ApplyLevels(b.side, d)
       \/ /\ b.shadow.pending
          /\ CheckSequence(b.shadow.seq, d) = "apply"
          /\ x.side = ApplyLevels(b.shadow.side, d)

\* An event of the stream breaks the chain, is older than the snapshot, or is
\* taken.  A valid book never skips one, so a held snapshot is bridged only
\* together with the live book.
LEMMA ApplyDeltaStep ==
    ASSUME NEW b \in BookType, NEW d \in DeltaType,
           b.state = "VALID" => ~ b.seq.needBridge /\ b.seq.lastId < d.U,
           b.state = "SYNCING" => b.seq.needBridge /\ ~ b.refreshing /\ ~ b.shadow.pending,
           b.state \in {"SYNCING", "VALID"}, d.U <= d.u
    PROVE  \/ ApplyDelta(b, d) = [b EXCEPT !.state = "INVALID"]
           \/ b.state = "SYNCING" /\ ApplyDelta(b, d) = b
           \/ TookEvent(b, d, ApplyDelta(b, d))
<1>1. CheckSequence(b.seq, d) \in {"apply", "skip", "fail"}
  BY ApplyDeltaCases
<1>2. CASE CheckSequence(b.seq, d) = "fail"
  BY <1>2, ApplyDeltaCases
<1>3. CASE CheckSequence(b.seq, d) = "skip"
  <2>1. b.state = "SYNCING"
    <3>1. SUFFICES ASSUME b.state = "VALID"
                   PROVE  FALSE
      OBVIOUS
    <3>2. b.seq.lastId \in Nat /\ d.U \in Nat /\ d.u \in Nat
      BY IdFacts DEF BookType, SeqType, DeltaType
    <3>3. ~ (d.u < b.seq.lastId)
      BY <3>1, <3>2
    <3>4. QED
      BY <1>3, <3>1, <3>3 DEF CheckSequence
  <2>2. ApplyDelta(b, d) = BridgeShadow(b, d)
    BY <1>3, <2>1, ApplyDeltaCases
  <2>3. QED
    BY <2>1, <2>2 DEF BridgeShadow
<1>4. CASE CheckSequence(b.seq, d) = "apply"
  <2> DEFINE t == TakeEvent(b, d)
             k == IF b.refreshing THEN BufferDelta(t, d) ELSE t
             x == BridgeShadow(k, d)
  <2>1. ApplyDelta(b, d) = x
    BY <1>4, ApplyDeltaCases
  <2>2. /\ t \in BookType
        /\ t.state = "VALID"
        /\ t.side = ApplyLevels(b.side, d)
        /\ t.seq = Applied(b.seq, d)
        /\ t.buf = b.buf
        /\ t.requested = b.requested
        /\ t.refreshing = b.refreshing
        /\ t.shadow = b.shadow
        /\ t.firstU = (IF b.rangeClosed THEN d.U ELSE b.firstU)
        /\ t.prevU = (IF b.rangeClosed THEN d.pu ELSE b.prevU)
        /\ t.rangeClosed = FALSE
    BY TakeEventTyped
  <2> HIDE DEF t
  <2>3. /\ k \in BookType
        /\ k.state = t.state /\ k.side = t.side /\ k.seq = t.seq
        /\ k.requested = t.requested /\ k.refreshing = t.refreshing /\ k.shadow = t.shadow
        /\ k.firstU = t.firstU /\ k.prevU = t.prevU /\ k.rangeClosed = t.rangeClosed
        /\ k.buf = IF b.refreshing THEN BufferDelta(t, d).buf ELSE b.buf
    <3>1. CASE b.refreshing
      <4>1. BufferDelta(t, d) \in BookType
            /\ BufferDelta(t, d) = [t EXCEPT !.buf = BufferDelta(t, d).buf]
        BY <2>2, BufferDeltaTyped
      <4>2. k = BufferDelta(t, d)
        BY <3>1
      <4> HIDE DEF k
      <4>3. QED
        BY <2>2, <3>1, <4>1, <4>2 DEF BookType
    <3>2. CASE ~ b.refreshing
      BY <2>2, <3>2
    <3>3. QED
      BY <3>1, <3>2
  <2> HIDE DEF k
  <2>4. Applied(b.seq, d).lastId = d.u /\ ~ Applied(b.seq, d).needBridge
    BY AppliedTyped DEF BookType
  <2>5. CASE x = k
    BY <1>4, <2>1, <2>2, <2>3, <2>4, <2>5 DEF TookEvent, t
  <2>6. CASE x = [k EXCEPT !.shadow = NoShadow]
    <3>1. /\ x.state = k.state /\ x.side = k.side /\ x.seq = k.seq
          /\ x.requested = k.requested /\ x.refreshing = k.refreshing /\ x.shadow = NoShadow
          /\ x.firstU = k.firstU /\ x.prevU = k.prevU /\ x.rangeClosed = k.rangeClosed
          /\ x.buf = k.buf
      BY <2>3, <2>6 DEF BookType
    <3> HIDE DEF x
    <3>2. QED
      BY <1>4, <2>1, <2>2, <2>3, <2>4, <3>1 DEF TookEvent, t, NoShadow
  <2>7. CASE /\ k.shadow.pending /\ CheckSequence(k.shadow.seq, d) = "apply"
             /\ x = [k EXCEPT !.side = ApplyLevels(k.shadow.side, d),
                              !.seq = Applied(k.shadow.seq, d),
                              !.shadow = NoShadow]
    <3>1. /\ x.state = k.state /\ x.side = ApplyLevels(k.shadow.side, d)
          /\ x.seq = Applied(k.shadow.seq, d)
          /\ x.requested = k.requested /\ x.refreshing = k.refreshing /\ x.shadow = NoShadow
          /\ x.firstU = k.firstU /\ x.prevU = k.prevU /\ x.rangeClosed = k.rangeClosed
          /\ x.buf = k.buf
      BY <2>3, <2>7 DEF BookType
    <3>2. Applied(k.shadow.seq, d).lastId = d.u /\ ~ Applied(k.shadow.seq, d).needBridge
      <4>1. k.shadow.seq \in SeqType
        BY <2>3 DEF BookType, ShadowType
      <4>2. QED
        BY <4>1, AppliedTyped
    <3> HIDE DEF x
    <3>3. QED
      BY <1>4, <2>1, <2>2, <2>3, <2>7, <3>1, <3>2 DEF TookEvent, t, NoShadow
  <2>8. CheckSequence(k.shadow.seq, d) \in {"apply", "skip", "fail"}
    BY DEF CheckSequence
  <2>9. QED
    BY <2>5, <2>6, <2>7, <2>8 DEF BridgeShadow
<1>5. QED
  BY <1>1, <1>2, <1>3, <1>4

-----------------------------------------------------------------------------
(* Snapshots *)

SnapshotType == [id : Ids, levels : SUBSET Prices]

\* The events of q are in the order of the exchange's updates.
Chained(q) ==
    /\ \A m \in DOMAIN q : q[m].U <= q[m].u
    /\ \A m, n \in DOMAIN q : m < n => q[m].u < q[n].U

\* What the worker's results may make of book b: a valid book stays at its
\* update with its range of ids, a book becomes valid only at the end of a
\* buffered event, and the buffer is kept or emptied.
Drained(b, x) ==
    /\ x \in BookType /\ Len(x.buf) <= BufferCap
    /\ BookChain(x)
    /\ b.state = "VALID" =>
           /\ x.state = "VALID" /\ x.seq.lastId = b.seq.lastId
           /\ x.firstU = b.firstU /\ x.prevU = b.prevU /\ x.rangeClosed = b.rangeClosed
    /\ b.state # "VALID" /\ x.state = "VALID" =>
           \E m \in DOMAIN b.buf : x.seq.lastId = b.buf[m].u
    /\ x.buf = <<>> \/ x.buf = b.buf

\* The state of a book that replays its buffer q, after k events.
Replaying(x, q, k) ==
    /\ x.state \in {"SYNCING", "VALID", "INVALID"}
    /\ ~ x.refreshing /\ ~ x.requested /\ ~ x.shadow.pending
    /\ x.state = "SYNCING" => x.seq.needBridge /\ x.rangeClosed
    /\ x.state = "VALID" =>
           /\ ~ x.seq.needBridge /\ x.firstU <= x.seq.lastId
           /\ \E m \in 1 .. k : x.seq.lastId = q[m].u

\* The replay of one event.
LEMMA ReplayStep ==
    ASSUME NEW q \in Seq(DeltaType), Chained(q), NEW k \in 1 .. Len(q),
           NEW x \in BookType, Replaying(x, q, k - 1)
    PROVE  Replaying(ApplyDelta(x, q[k]), q, k)
<1> DEFINE d == q[k]
           y == ApplyDelta(x, d)
<1>1. d \in DeltaType /\ k \in DOMAIN q
  OBVIOUS
<1>2. d.U <= d.u /\ d.U \in Nat /\ d.u \in Nat
  BY <1>1, IdFacts DEF Chained, DeltaType
<1>3. CASE x.state = "INVALID"
  <2>1. y = x
    BY <1>3 DEF ApplyDelta
  <2>2. QED
    BY <1>3, <2>1 DEF Replaying
<1>4. CASE x.state # "INVALID"
  <2> SUFFICES Replaying(y, q, k)
    OBVIOUS
  <2>1. x.state \in {"SYNCING", "VALID"}
    BY <1>4 DEF Replaying
  <2>2. ASSUME x.state = "VALID"
        PROVE  ~ x.seq.needBridge /\ x.seq.lastId < d.U
    <3>1. PICK m \in 1 .. k - 1 : x.seq.lastId = q[m].u
      BY <2>2 DEF Replaying
    <3>2. m \in DOMAIN q /\ m < k
      OBVIOUS
    <3>3. q[m].u < q[k].U
      BY <1>1, <3>2 DEF Chained
    <3>4. QED
      BY <2>2, <3>1, <3>3 DEF Replaying
  <2>3. x.state = "SYNCING" => x.seq.needBridge /\ ~ x.refreshing /\ ~ x.shadow.pending
    BY DEF Replaying
  <2> HIDE DEF d
  <2>4. \/ y = [x EXCEPT !.state = "INVALID"]
        \/ x.state = "SYNCING" /\ y = x
        \/ TookEvent(x, d, y)
    BY <1>1, <1>2, <2>1, <2>2, <2>3, ApplyDeltaStep
  <2> HIDE DEF y
  <2>5. CASE y = [x EXCEPT !.state = "INVALID"]
    BY <2>5 DEF Replaying, BookType
  <2>6. CASE x.state = "SYNCING" /\ y = x
    BY <2>6 DEF Replaying
  <2>7. CASE TookEvent(x, d, y)
    <3>1. y.seq.lastId = q[k].u /\ k \in 1 .. k
      BY <2>7 DEF TookEvent, d
    <3>2. y.firstU <= y.seq.lastId
      <4>1. y.firstU = (IF x.rangeClosed THEN d.U ELSE x.firstU) /\ y.seq.lastId = d.u
        BY <2>7 DEF TookEvent
      <4>2. CASE x.rangeClosed
        BY <1>2, <4>1, <4>2
      <4>3. CASE ~ x.rangeClosed
        <5>1. x.state = "VALID"
          BY <2>1, <4>3 DEF Replaying
        <5>2. x.firstU <= x.seq.lastId /\ x.seq.lastId < d.U
          BY <2>2, <5>1 DEF Replaying
        <5>3. x.firstU \in Nat /\ x.seq.lastId \in Nat
          BY IdFacts DEF BookType, SeqType
        <5>4. QED
          BY <1>2, <4>1, <4>3, <5>2, <5>3
      <4>4. QED
        BY <4>2, <4>3
    <3>3. y.state = "VALID" /\ ~ y.refreshing /\ ~ y.requested /\ ~ y.shadow.pending
          /\ ~ y.seq.needBridge
      BY <2>7 DEF TookEvent, Replaying
    <3>4. QED
      BY <3>1, <3>2, <3>3 DEF Replaying
  <2>8. QED
    BY <2>4, <2>5, <2>6, <2>7
<1>5. QED
  BY <1>3, <1>4

\* A book that is loaded from a snapshot is a book that replays nothing yet.
Loaded(b, snap) ==
    [b EXCEPT !.side = Load(snap), !.seq = AtSnapshot(snap.id), !.state = "SYNCING"]

\* What a loaded book is.
LEMMA LoadedTyped ==
    ASSUME NEW b \in BookType, NEW snap \in SnapshotType
    PROVE  /\ Loaded(b, snap) \in BookType
           /\ Loaded(b, snap).state = "SYNCING"
           /\ Loaded(b, snap).side = Load(snap)
           /\ Loaded(b, snap).seq = AtSnapshot(snap.id)
           /\ Loaded(b, snap).requested = b.requested
           /\ Loaded(b, snap).refreshing = b.refreshing
           /\ Loaded(b, snap).shadow = b.shadow
           /\ Loaded(b, snap).rangeClosed = b.rangeClosed
           /\ Loaded(b, snap).buf = b.buf
<1>1. Load(snap) \in SideType
  <2>1. snap.levels \in SUBSET Prices
    BY DEF SnapshotType
  <2>2. Load(snap) \in Sides
    BY <2>1, LoadTyped
  <2>3. QED
    BY <2>2 DEF SideType, Sides
<1>2. AtSnapshot(snap.id) \in SeqType
  BY DEF AtSnapshot, SeqType, SnapshotType
<1>3. QED
  BY <1>1, <1>2 DEF Loaded, BookType

\* onSnapshot in state INIT.
LEMMA InitialSyncDrained ==
    ASSUME NEW b \in BookType, b.state = "INIT", ~ b.refreshing, ~ b.requested,
           ~ b.shadow.pending, b.rangeClosed, Chained(b.buf), NEW snap \in SnapshotType
    PROVE  /\ Drained(b, InitialSync(b, snap))
           /\ ~ InitialSync(b, snap).requested /\ ~ InitialSync(b, snap).refreshing
<1> DEFINE q == b.buf
           l == Loaded(b, snap)
           n == Len(q)
<1>1. q \in Seq(DeltaType) /\ n \in Nat
  BY DEF BookType
<1>2. PICK r : ApplyRun(r, l, q)
  BY <1>1, LoadedTyped, ApplyDeltaRun
<1>3. InitialSync(b, snap) = [r[n] EXCEPT !.buf = <<>>]
  BY <1>2 DEF InitialSync, ApplyRun, Loaded
<1> DEFINE P == {k \in Nat : k <= n => Replaying(r[k], q, k)}
<1>4. 0 \in P
  <2>1. r[0] = l
    BY <1>2 DEF ApplyRun
  <2>4. /\ l.state = "SYNCING" /\ l.seq = AtSnapshot(snap.id)
        /\ ~ l.refreshing /\ ~ l.requested /\ ~ l.shadow.pending /\ l.rangeClosed
    BY LoadedTyped
  <2>5. l.seq.needBridge
    BY <2>4 DEF AtSnapshot
  <2>2. Replaying(l, q, 0)
    <3> HIDE DEF l, q
    <3>1. QED
      BY <2>4, <2>5 DEF Replaying
  <2> HIDE DEF l, q
  <2>3. QED
    BY <2>1, <2>2
<1>5. ASSUME NEW k \in Nat, k \in P
      PROVE  k + 1 \in P
  <2>1. SUFFICES ASSUME k + 1 <= n
                 PROVE  Replaying(r[k + 1], q, k + 1)
    OBVIOUS
  <2> DEFINE j == k + 1
  <2>2. j \in 1 .. n /\ j - 1 = k /\ k \in 0 .. n
    BY <1>1, <2>1
  <2>3. Replaying(r[k], q, k)
    BY <1>1, <1>5, <2>1
  <2> HIDE DEF j, l, q
  <2>4. r[j] = ApplyDelta(r[j - 1], q[j]) /\ r[k] \in BookType
    BY <1>2, <2>2 DEF ApplyRun
  <2>5. Replaying(ApplyDelta(r[k], q[j]), q, j)
    <3>1. Chained(q) /\ Replaying(r[k], q, j - 1)
      BY <2>2, <2>3 DEF q
    <3>2. QED
      BY <1>1, <2>2, <2>4, <3>1, ReplayStep
  <2>6. Replaying(r[j], q, j)
    BY <2>2, <2>4, <2>5
  <2>7. QED
    BY <2>6 DEF j
<1>6. Replaying(r[n], q, n) /\ r[n] \in BookType
  <2>1. Nat \subseteq P
    <3> HIDE DEF P
    <3>1. QED
      BY <1>4, <1>5, SetInduction
  <2>2. n \in P
    <3> HIDE DEF P
    <3>1. QED
      BY <1>1, <2>1
  <2>3. n \in 0 .. n
    BY <1>1
  <2> HIDE DEF l, q, n
  <2>4. r[n] \in BookType
    BY <1>2, <2>3 DEF ApplyRun, n
  <2>5. QED
    BY <1>1, <2>2, <2>4
<1> DEFINE y == r[n]
           x == [y EXCEPT !.buf = <<>>]
<1>7. 1 .. n = DOMAIN b.buf
  BY <1>1
<1> HIDE DEF l, q, n
<1>15. y \in BookType
  BY <1>6
<1> HIDE DEF y
<1>8. /\ x \in BookType /\ x.state = y.state /\ x.seq = y.seq /\ x.buf = <<>>
      /\ x.refreshing = y.refreshing /\ x.requested = y.requested /\ x.shadow = y.shadow
      /\ x.firstU = y.firstU /\ x.rangeClosed = y.rangeClosed
  <2>1. <<>> \in Seq(DeltaType)
    OBVIOUS
  <2>2. QED
    BY <1>15, <2>1 DEF BookType
<1>9. InitialSync(b, snap) = x
  BY <1>3 DEF y
<1> HIDE DEF x
<1>10. Replaying(y, q, n)
  BY <1>6 DEF y
<1>11. Len(x.buf) <= BufferCap /\ DOMAIN x.buf = {}
  BY <1>8, BookAssumption DEF BookAssumption
<1>12. BookChain(x)
  BY <1>8, <1>10, <1>11 DEF BookChain, Replaying
<1>13. x.state = "VALID" => \E m \in DOMAIN b.buf : x.seq.lastId = b.buf[m].u
  BY <1>7, <1>8, <1>10 DEF Replaying, q
<1>14. QED
  BY <1>8, <1>9, <1>10, <1>11, <1>12, <1>13 DEF Drained, Replaying

\* A shadow book that has taken k events of q without a hole is at the end of
\* the last of them, or waits for its first.
Shadowing(x, q, k) ==
    x.failed \/ x.seq.needBridge \/ (k >= 1 /\ x.seq.lastId = q[k].u)

\* A shadow book that takes one more event.
LEMMA ShadowStepChain ==
    ASSUME NEW q \in Seq(DeltaType), Chained(q), NEW k \in 1 .. Len(q),
           NEW x \in ShadowBookType, Shadowing(x, q, k - 1)
    PROVE  Shadowing(ShadowStep(x, q[k]), q, k)
<1> DEFINE d == q[k]
           y == ShadowStep(x, d)
           v == CheckSequence(x.seq, d)
<1>1. d \in DeltaType /\ k \in DOMAIN q
  OBVIOUS
<1>2. d.U <= d.u /\ d.U \in Nat /\ d.u \in Nat /\ x.seq.lastId \in Nat
  BY <1>1, IdFacts DEF Chained, DeltaType, ShadowBookType, SeqType
<1>3. v \in {"apply", "skip", "fail"}
  BY DEF CheckSequence
<1>4. Applied(x.seq, d).lastId = d.u
  BY <1>1, AppliedTyped DEF ShadowBookType
<1> SUFFICES Shadowing(y, q, k)
  OBVIOUS
<1>5. CASE x.failed
  <2>1. y = x
    BY <1>5 DEF ShadowStep
  <2>2. QED
    BY <1>5, <2>1 DEF Shadowing
<1>6. CASE ~ x.failed /\ v = "skip"
  <2>1. y = x
    BY <1>6 DEF ShadowStep
  <2>2. x.seq.needBridge
    <3>1. SUFFICES ASSUME ~ x.seq.needBridge
                   PROVE  FALSE
      OBVIOUS
    <3>2. k - 1 >= 1 /\ x.seq.lastId = q[k - 1].u
      BY <1>6, <3>1 DEF Shadowing
    <3>3. k - 1 \in DOMAIN q /\ k - 1 < k
      BY <3>2
    <3>4. x.seq.lastId < d.U
      BY <1>1, <3>2, <3>3 DEF Chained
    <3>5. ~ (d.u < x.seq.lastId)
      BY <1>2, <3>4
    <3>6. QED
      BY <1>6, <3>1, <3>5 DEF CheckSequence
  <2>3. QED
    BY <2>1, <2>2 DEF Shadowing
<1>7. CASE ~ x.failed /\ v = "fail"
  <2>1. y = [x EXCEPT !.failed = TRUE]
    BY <1>7 DEF ShadowStep
  <2>2. y.failed
    BY <2>1 DEF ShadowBookType
  <2>3. QED
    BY <2>2 DEF Shadowing
<1>8. CASE ~ x.failed /\ v = "apply"
  <2>1. y = [x EXCEPT !.side = ApplyLevels(@, d), !.seq = Applied(@, d)]
    BY <1>8 DEF ShadowStep
  <2>2. y.seq = Applied(x.seq, d)
    BY <2>1 DEF ShadowBookType
  <2>3. y.seq.lastId = q[k].u
    BY <1>4, <2>2
  <2> HIDE DEF y
  <2>4. QED
    BY <2>3 DEF Shadowing
<1>9. QED
  BY <1>3, <1>5, <1>6, <1>7, <1>8

\* The shadow book that a snapshot starts.
Shadow(snap) == [side |-> Load(snap), seq |-> AtSnapshot(snap.id), failed |-> FALSE]

\* It is a shadow book that waits for its first event.
LEMMA ShadowTyped ==
    ASSUME NEW snap \in SnapshotType
    PROVE  Shadow(snap) \in ShadowBookType /\ Shadow(snap).seq.needBridge
<1>1. Load(snap) \in SideType
  <2>1. snap.levels \in SUBSET Prices
    BY DEF SnapshotType
  <2>2. Load(snap) \in Sides
    BY <2>1, LoadTyped
  <2>3. QED
    BY <2>2 DEF SideType, Sides
<1>2. AtSnapshot(snap.id) \in SeqType /\ AtSnapshot(snap.id).needBridge
  BY DEF AtSnapshot, SeqType, SnapshotType
<1>3. QED
  BY <1>1, <1>2 DEF Shadow, ShadowBookType

\* The shadow book of a refresh, after the whole buffer.
LEMMA ShadowEnd ==
    ASSUME NEW q \in Seq(DeltaType), Chained(q), NEW snap \in SnapshotType
    PROVE  /\ FoldLeft(ShadowStep, Shadow(snap), q) \in ShadowBookType
           /\ Shadowing(FoldLeft(ShadowStep, Shadow(snap), q), q, Len(q))
<1> DEFINE n == Len(q)
           l == Shadow(snap)
<1>1. n \in Nat
  OBVIOUS
<1>2. PICK r : ShadowRun(r, l, q)
  BY ShadowTyped, ShadowStepRun
<1> DEFINE P == {k \in Nat : k <= n => Shadowing(r[k], q, k)}
<1>3. 0 \in P
  <2>1. r[0] = l
    BY <1>2 DEF ShadowRun
  <2>2. l.seq.needBridge
    BY ShadowTyped
  <2> HIDE DEF l
  <2>3. QED
    BY <2>1, <2>2 DEF Shadowing
<1>4. ASSUME NEW k \in Nat, k \in P
      PROVE  k + 1 \in P
  <2>1. SUFFICES ASSUME k + 1 <= n
                 PROVE  Shadowing(r[k + 1], q, k + 1)
    OBVIOUS
  <2> DEFINE j == k + 1
  <2>2. j \in 1 .. n /\ j - 1 = k /\ k \in 0 .. n
    BY <1>1, <2>1
  <2>3. Shadowing(r[k], q, k)
    BY <1>1, <1>4, <2>1
  <2> HIDE DEF j, l
  <2>4. r[j] = ShadowStep(r[j - 1], q[j]) /\ r[k] \in ShadowBookType
    BY <1>2, <2>2 DEF ShadowRun
  <2>5. Shadowing(ShadowStep(r[k], q[j]), q, j)
    <3>1. Shadowing(r[k], q, j - 1)
      BY <2>2, <2>3
    <3>2. QED
      BY <1>1, <2>2, <2>4, <3>1, ShadowStepChain
  <2>6. Shadowing(r[j], q, j)
    BY <2>2, <2>4, <2>5
  <2>7. QED
    BY <2>6 DEF j
<1>5. n \in P
  <2> HIDE DEF P
  <2>1. Nat \subseteq P
    BY <1>3, <1>4, SetInduction
  <2>2. QED
    BY <1>1, <2>1
<1>6. FoldLeft(ShadowStep, l, q) = r[n] /\ r[n] \in ShadowBookType
  <2>1. n \in 0 .. n
    BY <1>1
  <2> HIDE DEF l
  <2>2. QED
    BY <1>2, <2>1 DEF ShadowRun
<1>7. Shadowing(r[n], q, n)
  BY <1>1, <1>5
<1> HIDE DEF l, n
<1>8. QED
  BY <1>6, <1>7 DEF l, n

\* finishRefresh: a hole, a swap, or a snapshot held; in every case the
\* book's update id stays.
LEMMA FinishRefreshDrained ==
    ASSUME NEW b \in BookType, BookChain(b), b.state = "VALID", b.refreshing,
           NEW snap \in SnapshotType
    PROVE  /\ Drained(b, FinishRefresh([b EXCEPT !.requested = FALSE], snap))
           /\ ~ FinishRefresh([b EXCEPT !.requested = FALSE], snap).requested
           /\ ~ FinishRefresh([b EXCEPT !.requested = FALSE], snap).refreshing
<1> DEFINE c == [b EXCEPT !.requested = FALSE]
           q == b.buf
           sh == FoldLeft(ShadowStep, Shadow(snap), q)
           done == [c EXCEPT !.refreshing = FALSE, !.buf = <<>>]
           x == FinishRefresh(c, snap)
<1>1. q \in Seq(DeltaType) /\ Chained(q) /\ <<>> \in Seq(DeltaType)
  BY DEF BookType, BookChain, Chained
<1>2. sh \in ShadowBookType /\ Shadowing(sh, q, Len(q))
  <2> HIDE DEF q
  <2>1. QED
    BY <1>1, ShadowEnd
<1>3. c.buf = q /\ c.seq = b.seq
  BY DEF BookType
<1>4. /\ done \in BookType /\ done.state = "VALID" /\ done.seq = b.seq /\ done.buf = <<>>
      /\ ~ done.refreshing /\ ~ done.requested /\ done.shadow = b.shadow
      /\ done.firstU = b.firstU /\ done.prevU = b.prevU /\ done.rangeClosed = b.rangeClosed
  BY <1>1 DEF BookType
<1>5. \/ x = done
      \/ ~ sh.failed /\ ~ sh.seq.needBridge /\ x = [done EXCEPT !.side = sh.side, !.seq = sh.seq]
      \/ x = [done EXCEPT !.side = sh.side]
      \/ /\ sh.seq.needBridge
         /\ x = [done EXCEPT !.shadow = [pending |-> TRUE, side |-> sh.side, seq |-> sh.seq]]
  BY <1>3 DEF FinishRefresh, Shadow
<1>6. sh.side \in SideType /\ sh.seq \in SeqType
  BY <1>2 DEF ShadowBookType
<1>7. ~ sh.failed /\ ~ sh.seq.needBridge => sh.seq.lastId = b.seq.lastId
  <2>1. ASSUME ~ sh.failed, ~ sh.seq.needBridge
        PROVE  Len(q) >= 1 /\ sh.seq.lastId = q[Len(q)].u
    <3> HIDE DEF sh, q
    <3>1. QED
      BY <1>2, <2>1 DEF Shadowing
  <2>2. ASSUME Len(q) >= 1
        PROVE  q[Len(q)].u = b.seq.lastId
    <3>1. b.buf # <<>>
      BY <1>1, <2>2
    <3>2. QED
      BY <3>1 DEF BookChain
  <2> HIDE DEF sh, q
  <2>3. QED
    BY <2>1, <2>2
<1> SUFFICES Drained(b, x) /\ ~ x.requested /\ ~ x.refreshing
  OBVIOUS
<1> HIDE DEF sh, c, done, x, q
<1>8. /\ x \in BookType /\ x.state = "VALID" /\ x.buf = <<>>
      /\ x.seq.lastId = b.seq.lastId /\ ~ x.seq.needBridge
      /\ ~ x.refreshing /\ ~ x.requested
      /\ x.firstU = b.firstU /\ x.prevU = b.prevU /\ x.rangeClosed = b.rangeClosed
      /\ x.shadow.pending => x.shadow.seq.needBridge
  <2>1. CASE x = done
    BY <1>4, <2>1 DEF BookChain
  <2>2. CASE /\ ~ sh.failed /\ ~ sh.seq.needBridge
             /\ x = [done EXCEPT !.side = sh.side, !.seq = sh.seq]
    <3>1. x \in BookType /\ x.seq = sh.seq
      BY <1>4, <1>6, <2>2 DEF BookType
    <3>2. /\ x.state = done.state /\ x.buf = done.buf /\ x.refreshing = done.refreshing
          /\ x.requested = done.requested /\ x.shadow = done.shadow
          /\ x.firstU = done.firstU /\ x.prevU = done.prevU /\ x.rangeClosed = done.rangeClosed
      BY <1>4, <2>2 DEF BookType
    <3>3. QED
      BY <1>4, <1>7, <2>2, <3>1, <3>2 DEF BookChain
  <2>3. CASE x = [done EXCEPT !.side = sh.side]
    <3>1. x \in BookType
      BY <1>4, <1>6, <2>3 DEF BookType
    <3>2. /\ x.state = done.state /\ x.buf = done.buf /\ x.refreshing = done.refreshing
          /\ x.requested = done.requested /\ x.shadow = done.shadow /\ x.seq = done.seq
          /\ x.firstU = done.firstU /\ x.prevU = done.prevU /\ x.rangeClosed = done.rangeClosed
      BY <1>4, <2>3 DEF BookType
    <3>3. QED
      BY <1>4, <3>1, <3>2 DEF BookChain
  <2>4. CASE /\ sh.seq.needBridge
             /\ x = [done EXCEPT !.shadow = [pending |-> TRUE, side |-> sh.side, seq |-> sh.seq]]
    <3>1. [pending |-> TRUE, side |-> sh.side, seq |-> sh.seq] \in ShadowType
      BY <1>6 DEF ShadowType
    <3>2. x \in BookType /\ x.shadow.seq = sh.seq
      BY <1>4, <2>4, <3>1 DEF BookType
    <3>3. /\ x.state = done.state /\ x.buf = done.buf /\ x.refreshing = done.refreshing
          /\ x.requested = done.requested /\ x.seq = done.seq
          /\ x.firstU = done.firstU /\ x.prevU = done.prevU /\ x.rangeClosed = done.rangeClosed
      BY <1>4, <2>4 DEF BookType
    <3>4. QED
      BY <1>4, <2>4, <3>2, <3>3 DEF BookChain
  <2>5. QED
    BY <1>5, <2>1, <2>2, <2>3, <2>4
<1>9. Len(x.buf) <= BufferCap /\ DOMAIN x.buf = {}
  BY <1>8, BookAssumption DEF BookAssumption
<1>10. BookChain(x)
  BY <1>8, <1>9 DEF BookChain
<1>11. QED
  BY <1>8, <1>9, <1>10 DEF Drained

\* Nothing happens to a book that is left alone.
LEMMA DrainedSame ==
    ASSUME NEW b \in BookType, Len(b.buf) <= BufferCap, BookChain(b)
    PROVE  Drained(b, b)
BY DEF Drained

\* Results one after the other.
LEMMA DrainedTwice ==
    ASSUME NEW b, NEW c, NEW x, Drained(b, c), Drained(c, x)
    PROVE  Drained(b, x)
<1>1. CASE b.state = "VALID"
  BY <1>1 DEF Drained
<1>2. CASE b.state # "VALID"
  <2>1. x.buf = <<>> \/ x.buf = b.buf
    BY DEF Drained
  <2>2. ASSUME x.state = "VALID"
        PROVE  \E m \in DOMAIN b.buf : x.seq.lastId = b.buf[m].u
    <3>1. CASE c.state = "VALID"
      BY <1>2, <3>1 DEF Drained
    <3>2. CASE c.state # "VALID"
      <4>1. PICK m \in DOMAIN c.buf : x.seq.lastId = c.buf[m].u
        BY <2>2, <3>2 DEF Drained
      <4>2. c.buf # <<>>
        BY <4>1
      <4>3. QED
        BY <4>1, <4>2 DEF Drained
    <3>3. QED
      BY <3>1, <3>2
  <2>3. QED
    BY <1>2, <2>1, <2>2 DEF Drained
<1>3. QED
  BY <1>1, <1>2

\* A book whose request is given up.
GivenUp(b) == [CancelRefresh(b) EXCEPT !.requested = FALSE]

\* Giving a request up frees the book and keeps what it shows.
LEMMA GivenUpDrained ==
    ASSUME NEW b \in BookType, Len(b.buf) <= BufferCap, BookChain(b)
    PROVE  Drained(b, GivenUp(b)) /\ ~ GivenUp(b).requested /\ ~ GivenUp(b).refreshing
<1> DEFINE x == GivenUp(b)
<1>1. <<>> \in Seq(DeltaType) /\ Len(<<>>) <= BufferCap /\ DOMAIN <<>> = {}
  BY BookAssumption DEF BookAssumption
<1>2. CASE b.refreshing
  <2>1. x = [[b EXCEPT !.refreshing = FALSE, !.requested = FALSE, !.buf = <<>>]
               EXCEPT !.requested = FALSE]
    BY <1>2 DEF GivenUp, CancelRefresh
  <2>2. /\ x \in BookType /\ x.state = b.state /\ x.seq = b.seq /\ x.buf = <<>>
        /\ ~ x.refreshing /\ ~ x.requested /\ x.shadow = b.shadow
        /\ x.firstU = b.firstU /\ x.prevU = b.prevU /\ x.rangeClosed = b.rangeClosed
    BY <1>1, <2>1 DEF BookType
  <2> HIDE DEF x
  <2>3. BookChain(x)
    BY <1>1, <2>2 DEF BookChain
  <2>4. b.state = "VALID"
    BY <1>2 DEF BookChain
  <2>5. Drained(b, x)
    BY <1>1, <2>2, <2>3, <2>4 DEF Drained
  <2>6. QED
    BY <2>2, <2>5 DEF x
<1>3. CASE ~ b.refreshing
  <2>1. x = [b EXCEPT !.requested = FALSE]
    BY <1>3 DEF GivenUp, CancelRefresh
  <2>2. /\ x \in BookType /\ x.state = b.state /\ x.seq = b.seq /\ x.buf = b.buf
        /\ ~ x.refreshing /\ ~ x.requested /\ x.shadow = b.shadow
        /\ x.firstU = b.firstU /\ x.prevU = b.prevU /\ x.rangeClosed = b.rangeClosed
    BY <1>3, <2>1 DEF BookType
  <2> HIDE DEF x
  <2>3. BookChain(x)
    BY <2>2 DEF BookChain
  <2>5. Drained(b, x)
    BY <2>2, <2>3 DEF Drained
  <2>6. QED
    BY <2>2, <2>5 DEF x
<1>4. QED
  BY <1>2, <1>3

\* onSnapshot, whatever state the book is in.
LEMMA OnSnapshotDrained ==
    ASSUME NEW b \in BookType, Len(b.buf) <= BufferCap, BookChain(b), NEW snap \in SnapshotType
    PROVE  /\ Drained(b, OnSnapshot(b, snap))
           /\ ~ OnSnapshot(b, snap).requested /\ ~ OnSnapshot(b, snap).refreshing
<1> DEFINE c == [b EXCEPT !.requested = FALSE]
           e == [c EXCEPT !.refreshing = FALSE]
           x == OnSnapshot(b, snap)
<1>1. c.state = b.state /\ c.refreshing = b.refreshing
  BY DEF BookType
<1>2. /\ e \in BookType /\ e.state = b.state /\ e.seq = b.seq /\ e.buf = b.buf
      /\ ~ e.refreshing /\ ~ e.requested /\ e.shadow = b.shadow
      /\ e.firstU = b.firstU /\ e.prevU = b.prevU /\ e.rangeClosed = b.rangeClosed
  BY DEF BookType
<1>3. CASE b.state = "VALID" /\ b.refreshing
  <2>1. x = FinishRefresh(c, snap)
    BY <1>1, <1>3 DEF OnSnapshot
  <2>2. QED
    BY <1>3, <2>1, FinishRefreshDrained
<1>4. CASE b.state = "INIT"
  <2>1. x = InitialSync(e, snap)
    BY <1>1, <1>4 DEF OnSnapshot
  <2> HIDE DEF x, e
  <2>2. Chained(e.buf) /\ ~ e.shadow.pending /\ e.rangeClosed
    BY <1>2, <1>4 DEF BookChain, Chained
  <2>3. Drained(e, x) /\ ~ x.requested /\ ~ x.refreshing
    BY <1>2, <1>4, <2>1, <2>2, InitialSyncDrained
  <2>4. Drained(b, x)
    BY <1>2, <1>4, <2>3 DEF Drained
  <2>5. QED
    BY <2>3, <2>4 DEF x
<1>5. CASE ~ (b.state = "VALID" /\ b.refreshing) /\ b.state # "INIT"
  <2>1. x = e
    BY <1>1, <1>5 DEF OnSnapshot
  <2>2. ~ b.refreshing
    BY <1>5 DEF BookChain
  <2> HIDE DEF x, e
  <2>3. BookChain(e)
    BY <1>2, <2>2 DEF BookChain
  <2>4. Drained(b, e)
    BY <1>2, <2>3 DEF Drained
  <2>5. QED
    BY <1>2, <2>1, <2>4 DEF x
<1>6. QED
  BY <1>3, <1>4, <1>5

-----------------------------------------------------------------------------
(* The worker's results *)

HandlerType == [book : BookType, waiting : BOOLEAN, latestId : Nat]

\* The part of the handler that results work on: its book is chained and a
\* request in flight is watched.
GoodHandler(h) ==
    /\ Len(h.book.buf) <= BufferCap
    /\ BookChain(h.book)
    /\ h.book.requested \/ h.book.refreshing => h.waiting

\* What results may make of the handler h.
HandlerDrained(h, x) ==
    /\ GoodHandler(x)
    /\ Drained(h.book, x.book)
    /\ x.latestId = h.latestId
    /\ x.waiting => h.waiting

\* onSnapshot keeps a book a book, whatever its state.
LEMMA OnSnapshotTyped ==
    ASSUME NEW b \in BookType, NEW snap \in SnapshotType
    PROVE  OnSnapshot(b, snap) \in BookType
<1> DEFINE c == [b EXCEPT !.requested = FALSE]
           e == [c EXCEPT !.refreshing = FALSE]
<1>8. <<>> \in Seq(DeltaType)
  OBVIOUS
<1>6. c \in BookType
  BY DEF BookType
<1>7. e \in BookType
  <2> HIDE DEF c
  <2>1. QED
    BY <1>6 DEF BookType
<1>1. c \in BookType /\ e \in BookType /\ <<>> \in Seq(DeltaType)
  BY <1>6, <1>7, <1>8
<1>2. e.buf \in Seq(DeltaType) /\ c.buf \in Seq(DeltaType)
  BY <1>1 DEF BookType
<1> HIDE DEF c, e
<1>3. FinishRefresh(c, snap) \in BookType
  <2> DEFINE q == c.buf
             sh == FoldLeft(ShadowStep, Shadow(snap), q)
             done == [c EXCEPT !.refreshing = FALSE, !.buf = <<>>]
             x == FinishRefresh(c, snap)
  <2>1. PICK r : ShadowRun(r, Shadow(snap), q)
    BY <1>2, ShadowTyped, ShadowStepRun
  <2>2. sh \in ShadowBookType
    <3>1. Len(q) \in 0 .. Len(q)
      BY <1>2
    <3>2. QED
      BY <2>1, <3>1 DEF ShadowRun
  <2>3. \/ x = done
        \/ x = [done EXCEPT !.side = sh.side, !.seq = sh.seq]
        \/ x = [done EXCEPT !.side = sh.side]
        \/ x = [done EXCEPT !.shadow = [pending |-> TRUE, side |-> sh.side, seq |-> sh.seq]]
    BY DEF FinishRefresh, Shadow
  <2>4. done \in BookType
    BY <1>1 DEF BookType
  <2> HIDE DEF sh, done
  <2>5. sh.side \in SideType /\ sh.seq \in SeqType
    BY <2>2 DEF ShadowBookType
  <2>6. [pending |-> TRUE, side |-> sh.side, seq |-> sh.seq] \in ShadowType
    BY <2>5 DEF ShadowType
  <2>7. /\ [done EXCEPT !.side = sh.side, !.seq = sh.seq] \in BookType
        /\ [done EXCEPT !.side = sh.side] \in BookType
    BY <2>4, <2>5 DEF BookType
  <2>8. [done EXCEPT !.shadow = [pending |-> TRUE, side |-> sh.side, seq |-> sh.seq]] \in BookType
    <3> DEFINE w == [pending |-> TRUE, side |-> sh.side, seq |-> sh.seq]
    <3>1. w \in ShadowType
      BY <2>6
    <3> HIDE DEF w
    <3>2. [done EXCEPT !.shadow = w] \in BookType
      BY <2>4, <3>1 DEF BookType
    <3>3. QED
      BY <3>2 DEF w
  <2> HIDE DEF x
  <2>9. QED
    BY <2>3, <2>4, <2>7, <2>8 DEF x
<1>4. InitialSync(e, snap) \in BookType
  <2>1. Loaded(e, snap) \in BookType
    BY <1>1, LoadedTyped
  <2>2. PICK r : ApplyRun(r, Loaded(e, snap), e.buf)
    BY <1>2, <2>1, ApplyDeltaRun
  <2>3. Len(e.buf) \in 0 .. Len(e.buf)
    BY <1>2
  <2>4. FoldLeft(ApplyDelta, Loaded(e, snap), e.buf) \in BookType
    BY <2>2, <2>3 DEF ApplyRun
  <2>5. InitialSync(e, snap) = [FoldLeft(ApplyDelta, Loaded(e, snap), e.buf) EXCEPT !.buf = <<>>]
    BY DEF InitialSync, Loaded
  <2> DEFINE y == FoldLeft(ApplyDelta, Loaded(e, snap), e.buf)
  <2>6. y \in BookType /\ InitialSync(e, snap) = [y EXCEPT !.buf = <<>>]
    BY <2>4, <2>5
  <2> HIDE DEF y
  <2>7. QED
    BY <1>1, <2>6 DEF BookType
<1>5. QED
  BY <1>1, <1>3, <1>4 DEF OnSnapshot, c, e

\* The three cases of a result.
LEMMA ApplyResultCases ==
    ASSUME NEW h \in HandlerType, NEW r \in ResultType
    PROVE  \/ ApplyResult(h, r) = h
           \/ ApplyResult(h, r) = [h EXCEPT !.waiting = FALSE, !.book = GivenUp(h.book)]
           \/ /\ r.ok
              /\ ApplyResult(h, r) =
                     [h EXCEPT !.waiting = FALSE,
                               !.book = OnSnapshot(h.book, [id |-> r.id, levels |-> r.levels])]
<1>1. r.reqId \in Nat /\ h.latestId \in Nat /\ r.ok \in BOOLEAN
  <2>1. r.reqId \in 1 .. MaxRequests /\ r.ok \in BOOLEAN
    BY DEF ResultType
  <2>2. h.latestId \in Nat
    BY DEF HandlerType
  <2>3. QED
    BY <2>1, <2>2
<1>2. CASE r.reqId < h.latestId
  <2>1. ~ (r.reqId >= h.latestId)
    BY <1>1, <1>2
  <2>2. QED
    BY <1>2, <2>1 DEF ApplyResult
<1>3. CASE ~ (r.reqId < h.latestId) /\ ~ r.ok
  <2>1. r.reqId >= h.latestId
    BY <1>1, <1>3
  <2>2. QED
    BY <1>3, <2>1 DEF ApplyResult, GivenUp
<1>4. CASE ~ (r.reqId < h.latestId) /\ r.ok
  BY <1>4 DEF ApplyResult
<1>5. QED
  BY <1>1, <1>2, <1>3, <1>4

\* One result keeps the handler's types.
LEMMA ApplyResultTyped ==
    ASSUME NEW x \in HandlerType, NEW d \in ResultType
    PROVE  ApplyResult(x, d) \in HandlerType
<1> DEFINE snap == [id |-> d.id, levels |-> d.levels]
<1>1. x.book \in BookType
  BY DEF HandlerType
<1>2. d.ok \in BOOLEAN /\ (d.ok => snap \in SnapshotType)
  BY DEF ResultType, SnapshotType
<1>3. GivenUp(x.book) \in BookType
  <2>1. <<>> \in Seq(DeltaType)
    OBVIOUS
  <2>2. CancelRefresh(x.book) \in BookType
    BY <1>1, <2>1 DEF CancelRefresh, BookType
  <2>3. QED
    BY <2>2 DEF GivenUp, BookType
<1>4. [x EXCEPT !.waiting = FALSE, !.book = GivenUp(x.book)] \in HandlerType
  BY <1>3 DEF HandlerType
<1>5. d.ok => [x EXCEPT !.waiting = FALSE, !.book = OnSnapshot(x.book, snap)] \in HandlerType
  BY <1>1, <1>2, OnSnapshotTyped DEF HandlerType
<1>6. QED
  BY <1>4, <1>5, ApplyResultCases

\* One result: a stale one changes nothing, a failure or a timeout frees the
\* book, a snapshot is taken.
LEMMA ApplyResultDrained ==
    ASSUME NEW h \in HandlerType, GoodHandler(h), NEW r \in ResultType
    PROVE  HandlerDrained(h, ApplyResult(h, r))
<1> DEFINE snap == [id |-> r.id, levels |-> r.levels]
           x == ApplyResult(h, r)
<1>1. h.book \in BookType /\ h.waiting \in BOOLEAN
  BY DEF HandlerType
<1>2. r.ok \in BOOLEAN /\ (r.ok => snap \in SnapshotType)
  BY DEF ResultType, SnapshotType
<1>3. CASE x = h
  <2>1. Drained(h.book, h.book)
    BY <1>1, DrainedSame DEF GoodHandler
  <2>2. QED
    BY <1>3, <2>1 DEF HandlerDrained
<1>4. CASE x = [h EXCEPT !.waiting = FALSE, !.book = GivenUp(h.book)]
  <2>1. x.waiting = FALSE /\ x.book = GivenUp(h.book) /\ x.latestId = h.latestId
    BY <1>4 DEF HandlerType
  <2>2. Drained(h.book, x.book) /\ ~ x.book.requested /\ ~ x.book.refreshing
    BY <1>1, <2>1, GivenUpDrained DEF GoodHandler
  <2> HIDE DEF x
  <2>3. GoodHandler(x)
    BY <2>2 DEF GoodHandler, Drained
  <2>4. HandlerDrained(h, x)
    BY <2>1, <2>2, <2>3 DEF HandlerDrained
  <2>5. QED
    BY <2>4 DEF x
<1>5. CASE r.ok /\ x = [h EXCEPT !.waiting = FALSE, !.book = OnSnapshot(h.book, snap)]
  <2>1. x.waiting = FALSE /\ x.book = OnSnapshot(h.book, snap) /\ x.latestId = h.latestId
    BY <1>5 DEF HandlerType
  <2>2. Drained(h.book, x.book) /\ ~ x.book.requested /\ ~ x.book.refreshing
    <3>1. snap \in SnapshotType
      BY <1>2, <1>5
    <3> HIDE DEF snap, x
    <3>2. QED
      BY <1>1, <2>1, <3>1, OnSnapshotDrained DEF GoodHandler
  <2> HIDE DEF x
  <2>3. GoodHandler(x)
    BY <2>2 DEF GoodHandler, Drained
  <2>4. HandlerDrained(h, x)
    BY <2>1, <2>2, <2>3 DEF HandlerDrained
  <2>5. QED
    BY <2>4 DEF x
<1>6. QED
  BY <1>3, <1>4, <1>5, ApplyResultCases

\* r is the handlers that the results of q make of x, one after the other.
ResultRun(r, x, q) ==
    /\ r \in [0 .. Len(q) -> HandlerType]
    /\ r[0] = x
    /\ \A k \in 1 .. Len(q) : r[k] = ApplyResult(r[k - 1], q[k])
    /\ FoldLeft(ApplyResult, x, q) = r[Len(q)]

\* applyResult can be folded over the results.
LEMMA ApplyResultRun ==
    ASSUME NEW x \in HandlerType, NEW q \in Seq(ResultType)
    PROVE  \E r : ResultRun(r, x, q)
<1> DEFINE n == Len(q)
           h == [k \in 1 .. n |-> [y \in HandlerType |-> ApplyResult(y, q[k])]]
           Is(g) == g = [s \in SUBSET (DOMAIN q) |->
                           IF s = {} THEN x ELSE ApplyResult(g[s \ {Max(s)}], q[Max(s)])]
           f == CHOOSE g : Is(g)
<1>1. n \in Nat /\ DOMAIN q = 1 .. n /\ \A k \in 1 .. n : q[k] \in ResultType
  OBVIOUS
<1>2. h \in [1 .. n -> [HandlerType -> HandlerType]]
  <2>1. \A k \in 1 .. n : \A y \in HandlerType : ApplyResult(y, q[k]) \in HandlerType
    BY <1>1, ApplyResultTyped
  <2> HIDE DEF n
  <2>2. QED
    BY <2>1
<1>3. Picks(LastOf(n), 1 .. n) /\ IsFiniteSet(1 .. n)
  BY <1>1, LastOfPicks
<1>4. PICK g \in [SUBSET (1 .. n) -> HandlerType] : Folds(g, 1 .. n, LastOf(n), x, h)
  <2> HIDE DEF n, h
  <2>1. QED
    BY <1>1, <1>2, <1>3, FoldExists
<1>5. ASSUME NEW s \in SUBSET (1 .. n), s # {}
      PROVE  Max(s) \in 1 .. n /\ s \ {Max(s)} \in SUBSET (1 .. n) /\ LastOf(n)[s] = Max(s)
  <2> HIDE DEF n
  <2>1. LastOf(n)[s] = Max(s)
    BY DEF LastOf
  <2>2. Max(s) \in s
    BY <1>3, <1>5, <2>1 DEF Picks
  <2>3. QED
    BY <2>1, <2>2
<1>6. ASSUME NEW s \in SUBSET (1 .. n), s # {}
      PROVE  g[s] = ApplyResult(g[s \ {Max(s)}], q[Max(s)])
  <2>1. g[s] = h[Max(s)][g[s \ {Max(s)}]]
    <3> HIDE DEF n, h
    <3>1. QED
      BY <1>4, <1>5, <1>6 DEF Folds
  <2>2. Max(s) \in 1 .. n /\ g[s \ {Max(s)}] \in HandlerType
    <3> HIDE DEF n, h
    <3>1. QED
      BY <1>4, <1>5, <1>6
  <2> HIDE DEF n
  <2>3. QED
    BY <2>1, <2>2
<1>7. g[{}] = x
  <2> HIDE DEF n, h
  <2>1. QED
    BY <1>4 DEF Folds
<1>8. Is(g)
  <2> HIDE DEF n, h
  <2>1. QED
    BY <1>1, <1>4, <1>6, <1>7
<1>9. Is(f)
  <2> HIDE DEF Is
  <2>1. QED
    BY <1>8
<1>10. FoldLeft(ApplyResult, x, q) = f[DOMAIN q]
  BY DEF FoldLeft, MapThenFoldSet
<1> HIDE DEF f
<1>11. FoldsIn(f, n, x, h, HandlerType)
  <2>1. f[{}] = x
    BY <1>9
  <2>2. ASSUME NEW s \in SUBSET (1 .. n), s # {}, f[s \ {Max(s)}] \in HandlerType
        PROVE  f[s] = h[Max(s)][f[s \ {Max(s)}]]
    <3>1. f[s] = ApplyResult(f[s \ {Max(s)}], q[Max(s)])
      BY <1>1, <1>9, <2>2
    <3>2. Max(s) \in 1 .. n
      BY <1>5, <2>2
    <3> HIDE DEF n
    <3>3. QED
      BY <2>2, <3>1, <3>2
  <2> HIDE DEF n, h
  <2>3. QED
    BY <2>1, <2>2 DEF FoldsIn
<1>12. PICK r : StepsThrough(r, n, x, h, HandlerType) /\ f[1 .. n] = r[n]
  <2> HIDE DEF n, h, Is
  <2>1. QED
    BY <1>1, <1>2, <1>11, RunOfFold
<1>13. ASSUME NEW k \in 1 .. n
       PROVE  r[k] = ApplyResult(r[k - 1], q[k])
  <2>1. r \in [0 .. n -> HandlerType] /\ r[k] = h[k][r[k - 1]]
    <3> HIDE DEF n, h
    <3>1. QED
      BY <1>12 DEF StepsThrough
  <2>2. k - 1 \in 0 .. n
    <3> HIDE DEF n
    <3>1. QED
      BY <1>1
  <2>3. r[k - 1] \in HandlerType
    <3> HIDE DEF n, h
    <3>1. QED
      BY <2>1, <2>2
  <2> HIDE DEF n
  <2>4. QED
    BY <2>1, <2>3
<1>14. r \in [0 .. n -> HandlerType] /\ r[0] = x
  <2> HIDE DEF n, h
  <2>1. QED
    BY <1>12 DEF StepsThrough
<1>15. FoldLeft(ApplyResult, x, q) = r[n]
  BY <1>1, <1>10, <1>12
<1>16. ResultRun(r, x, q)
  <2> HIDE DEF h, Is
  <2>1. QED
    BY <1>13, <1>14, <1>15 DEF ResultRun
<1>17. QED
  BY <1>16

\* All results that wait.
LEMMA ResultsDrained ==
    ASSUME NEW h \in HandlerType, GoodHandler(h), NEW q \in Seq(ResultType)
    PROVE  /\ FoldLeft(ApplyResult, h, q) \in HandlerType
           /\ HandlerDrained(h, FoldLeft(ApplyResult, h, q))
<1> DEFINE n == Len(q)
<1>1. n \in Nat
  OBVIOUS
<1>2. PICK r : ResultRun(r, h, q)
  BY ApplyResultRun
<1> DEFINE P == {k \in Nat : k <= n => HandlerDrained(h, r[k])}
<1>3. 0 \in P
  <2>1. r[0] = h
    BY <1>2 DEF ResultRun
  <2>2. HandlerDrained(h, h)
    BY DrainedSame DEF HandlerDrained, GoodHandler, HandlerType
  <2>3. QED
    BY <2>1, <2>2
<1>4. ASSUME NEW k \in Nat, k \in P
      PROVE  k + 1 \in P
  <2>1. SUFFICES ASSUME k + 1 <= n
                 PROVE  HandlerDrained(h, r[k + 1])
    OBVIOUS
  <2> DEFINE j == k + 1
             c == r[k]
             x == r[j]
  <2>2. j \in 1 .. n /\ j - 1 = k /\ k \in 0 .. n
    BY <1>1, <2>1
  <2>3. HandlerDrained(h, c)
    BY <1>1, <1>4, <2>1
  <2> HIDE DEF j
  <2>4. x = ApplyResult(c, q[j]) /\ c \in HandlerType /\ q[j] \in ResultType
    BY <1>2, <2>2 DEF ResultRun
  <2> HIDE DEF c, x
  <2>5. HandlerDrained(c, x)
    BY <2>3, <2>4, ApplyResultDrained DEF HandlerDrained
  <2>6. Drained(h.book, x.book)
    BY <2>3, <2>5, DrainedTwice DEF HandlerDrained
  <2>7. HandlerDrained(h, x)
    BY <2>3, <2>5, <2>6 DEF HandlerDrained
  <2>8. QED
    BY <2>7 DEF j, x
<1>5. n \in P
  <2> HIDE DEF P
  <2>1. Nat \subseteq P
    BY <1>3, <1>4, SetInduction
  <2>2. QED
    BY <1>1, <2>1
<1>6. FoldLeft(ApplyResult, h, q) = r[n] /\ r[n] \in HandlerType
  <2>1. n \in 0 .. n
    BY <1>1
  <2>2. QED
    BY <1>2, <2>1 DEF ResultRun
<1>7. HandlerDrained(h, r[n])
  BY <1>1, <1>5
<1>8. QED
  BY <1>6, <1>7

-----------------------------------------------------------------------------
(* Messages and rows *)

\* The buffer with one more event.
LEMMA BufferChained ==
    ASSUME NEW b \in BookType, NEW d \in DeltaType, Chained(b.buf), d.U <= d.u,
           \A m \in DOMAIN b.buf : b.buf[m].u < d.U
    PROVE  /\ Chained(BufferDelta(b, d).buf)
           /\ \A m \in DOMAIN BufferDelta(b, d).buf :
                  \/ BufferDelta(b, d).buf[m] = d
                  \/ \E n \in DOMAIN b.buf : BufferDelta(b, d).buf[m] = b.buf[n]
<1> DEFINE q == b.buf
           N == Len(q)
           a == Append(q, d)
           t == Tail(a)
<1>1. q \in Seq(DeltaType) /\ N \in Nat /\ DOMAIN q = 1 .. N
  BY DEF BookType
<1> HIDE DEF q
<1>2. /\ a \in Seq(DeltaType) /\ Len(a) = N + 1 /\ DOMAIN a = 1 .. N + 1
      /\ \A i \in 1 .. N : a[i] = q[i]
      /\ a[N + 1] = d
  BY <1>1, AppendSeq
<1> HIDE DEF a
<1>3. Chained(a)
  <2>1. ASSUME NEW m \in DOMAIN a
        PROVE  a[m].U <= a[m].u
    <3>1. CASE m = N + 1
      BY <1>2, <3>1
    <3>2. CASE m # N + 1
      <4>1. m \in DOMAIN q /\ a[m] = q[m]
        BY <1>1, <1>2, <3>2
      <4>2. QED
        BY <4>1 DEF Chained, q
    <3>3. QED
      BY <3>1, <3>2
  <2>2. ASSUME NEW m \in DOMAIN a, NEW n \in DOMAIN a, m < n
        PROVE  a[m].u < a[n].U
    <3>1. m \in DOMAIN q /\ a[m] = q[m]
      BY <1>1, <1>2, <2>2
    <3>2. CASE n = N + 1
      BY <1>2, <3>1, <3>2 DEF q
    <3>3. CASE n # N + 1
      <4>1. n \in DOMAIN q /\ a[n] = q[n]
        BY <1>1, <1>2, <3>3
      <4>2. QED
        BY <2>2, <3>1, <4>1 DEF Chained, q
    <3>4. QED
      BY <3>2, <3>3
  <2>3. QED
    BY <2>1, <2>2 DEF Chained
<1>4. \A m \in DOMAIN a : a[m] = d \/ \E n \in DOMAIN q : a[m] = q[n]
  <2>1. TAKE m \in DOMAIN a
  <2>2. CASE m = N + 1
    BY <1>2, <2>2
  <2>3. CASE m # N + 1
    <3>1. m \in DOMAIN q /\ a[m] = q[m]
      BY <1>1, <1>2, <2>3
    <3>2. QED
      BY <3>1
  <2>4. QED
    BY <2>2, <2>3
<1>5. a # <<>>
  BY <1>1, <1>2
<1>6. /\ t \in Seq(DeltaType) /\ Len(t) = N /\ DOMAIN t = 1 .. N
      /\ \A i \in 1 .. N : t[i] = a[i + 1]
  BY <1>1, <1>2, <1>5, TailSeq
<1> HIDE DEF t
<1>7. \A m \in DOMAIN t : m + 1 \in DOMAIN a /\ t[m] = a[m + 1]
  BY <1>1, <1>2, <1>6
<1>8. Chained(t)
  <2>1. ASSUME NEW m \in DOMAIN t
        PROVE  t[m].U <= t[m].u
    BY <1>3, <1>7 DEF Chained
  <2>2. ASSUME NEW m \in DOMAIN t, NEW n \in DOMAIN t, m < n
        PROVE  t[m].u < t[n].U
    <3>1. m + 1 < n + 1
      BY <1>1, <1>6, <2>2
    <3>2. QED
      BY <1>3, <1>7, <3>1 DEF Chained
  <2>3. QED
    BY <2>1, <2>2 DEF Chained
<1>9. \A m \in DOMAIN t : t[m] = d \/ \E n \in DOMAIN q : t[m] = q[n]
  BY <1>4, <1>7
<1>10. BufferDelta(b, d).buf = a \/ BufferDelta(b, d).buf = t
  BY BufferDeltaTyped DEF a, q, t
<1>11. QED
  BY <1>3, <1>4, <1>8, <1>9, <1>10 DEF q

\* What an event of the stream makes of a book that it does not break.
LEMMA EventChain ==
    ASSUME NEW b \in BookType, Len(b.buf) <= BufferCap, BookChain(b),
           NEW d \in DeltaType, d.U <= d.u,
           b.state \in {"SYNCING", "VALID"},
           b.state = "VALID" => b.seq.lastId < d.U,
           \A m \in DOMAIN b.buf : b.buf[m].u < d.U,
           NEW x, x = ApplyDelta(b, d), x.state # "INVALID",
           NEW row \in RowType, RowChain(b, row)
    PROVE  /\ x \in BookType /\ Len(x.buf) <= BufferCap
           /\ BookChain(x)
           /\ RowChain(x, row)
           /\ x.requested = b.requested /\ x.refreshing = b.refreshing
           /\ x.state \in {"SYNCING", "VALID"}
           /\ x.state = "VALID" => x.seq.lastId = d.u
           /\ \A m \in DOMAIN x.buf :
                  x.buf[m] = d \/ \E n \in DOMAIN b.buf : x.buf[m] = b.buf[n]
<1>1. x \in BookType
  BY ApplyDeltaTyped
<1>2. b.state = "SYNCING" => b.seq.needBridge /\ ~ b.refreshing /\ ~ b.shadow.pending
  BY DEF BookChain
<1>3. \/ x = [b EXCEPT !.state = "INVALID"]
      \/ b.state = "SYNCING" /\ x = b
      \/ TookEvent(b, d, x)
  <2>1. b.state = "VALID" => ~ b.seq.needBridge /\ b.seq.lastId < d.U
    BY DEF BookChain
  <2>2. QED
    BY <1>2, <2>1, ApplyDeltaStep
<1>4. x # [b EXCEPT !.state = "INVALID"]
  BY DEF BookType
<1>5. CASE b.state = "SYNCING" /\ x = b
  BY <1>5
<1>6. CASE TookEvent(b, d, x)
  <2>1. d.U \in Nat /\ d.u \in Nat /\ b.firstU \in Nat /\ b.seq.lastId \in Nat /\ row.u \in Nat
    <3>1. b.seq \in SeqType
      BY DEF BookType
    <3>2. QED
      BY <3>1, IdFacts DEF BookType, SeqType, DeltaType, RowType
  <2>2. x.firstU <= x.seq.lastId
    <3>1. x.firstU = (IF b.rangeClosed THEN d.U ELSE b.firstU) /\ x.seq.lastId = d.u
      BY <1>6 DEF TookEvent
    <3>2. CASE b.rangeClosed
      BY <3>1, <3>2
    <3>3. CASE ~ b.rangeClosed
      <4>1. b.state = "VALID"
        BY <3>3 DEF BookChain
      <4>2. b.firstU <= b.seq.lastId /\ b.seq.lastId < d.U
        BY <4>1 DEF BookChain
      <4>3. QED
        BY <2>1, <3>1, <3>3, <4>2
    <3>4. QED
      BY <3>2, <3>3
  <2> DEFINE t == TakeEvent(b, d)
  <2>3. t \in BookType /\ t.buf = b.buf
    BY TakeEventTyped
  <2> HIDE DEF t
  <2>4. Chained(b.buf)
    BY DEF BookChain, Chained
  <2>5. /\ Chained(x.buf) /\ Len(x.buf) <= BufferCap
        /\ \A m \in DOMAIN x.buf : x.buf[m] = d \/ \E n \in DOMAIN b.buf : x.buf[m] = b.buf[n]
        /\ x.refreshing => x.buf[Len(x.buf)] = d
    <3>1. CASE b.refreshing
      <4>1. x.buf = BufferDelta(t, d).buf
        BY <1>6, <3>1 DEF TookEvent, t
      <4>2. /\ Chained(BufferDelta(t, d).buf)
            /\ \A m \in DOMAIN BufferDelta(t, d).buf :
                   \/ BufferDelta(t, d).buf[m] = d
                   \/ \E n \in DOMAIN b.buf : BufferDelta(t, d).buf[m] = b.buf[n]
        BY <2>3, <2>4, BufferChained
      <4>3. /\ Len(BufferDelta(t, d).buf) <= BufferCap
            /\ BufferDelta(t, d).buf[Len(BufferDelta(t, d).buf)] = d
        BY <2>3, BufferDeltaTyped
      <4>4. QED
        BY <4>1, <4>2, <4>3
    <3>2. CASE ~ b.refreshing
      <4>1. x.buf = b.buf /\ ~ x.refreshing
        BY <1>6, <3>2 DEF TookEvent
      <4>2. QED
        BY <2>4, <4>1
    <3>3. QED
      BY <3>1, <3>2 DEF BookType
  <2>6. BookChain(x)
    <3>1. /\ x.state = "VALID" /\ ~ x.seq.needBridge /\ x.seq.lastId = d.u
          /\ x.refreshing = b.refreshing /\ x.requested = b.requested
          /\ x.shadow.pending => b.shadow.pending /\ x.shadow = b.shadow
      BY <1>6 DEF TookEvent
    <3>2. x.refreshing => x.requested
      BY <3>1 DEF BookChain
    <3>3. x.shadow.pending => ~ x.refreshing /\ x.shadow.seq.needBridge
      BY <3>1 DEF BookChain
    <3>4. QED
      BY <2>2, <2>5, <3>1, <3>2, <3>3 DEF BookChain, Chained
  <2>7. RowChain(x, row)
    <3>1. SUFFICES ASSUME row.valid
                   PROVE  RowChain(x, row)
      BY DEF RowChain
    <3>2. b.state = "VALID" /\ ~ b.seq.needBridge /\ b.seq.lastId < d.U
      BY <3>1 DEF RowChain, BookChain
    <3>3. CheckSequence(b.seq, d) = "apply"
      BY <1>6 DEF TookEvent
    <3>4. /\ Sync = "futures" => d.pu = b.seq.lastId
          /\ Sync = "spot" => d.U <= b.seq.lastId + 1 /\ b.seq.lastId <= d.u
      BY <2>1, <3>2, <3>3, CheckSequenceApplies
    <3>5. /\ x.state = "VALID" /\ x.rangeClosed = FALSE /\ x.seq.lastId = d.u
          /\ x.firstU = (IF b.rangeClosed THEN d.U ELSE b.firstU)
          /\ x.prevU = (IF b.rangeClosed THEN d.pu ELSE b.prevU)
      BY <1>6 DEF TookEvent
    <3>6. CASE Sync = "spot"
      <4>1. x.firstU <= row.u + 1 /\ row.u <= d.u
        <5>1. CASE b.rangeClosed
          BY <3>1, <3>4, <3>5, <3>6, <5>1 DEF RowChain
        <5>2. CASE ~ b.rangeClosed
          <6>1. b.firstU <= row.u + 1 /\ row.u <= b.seq.lastId /\ x.firstU = b.firstU
            BY <3>1, <3>5, <3>6, <5>2 DEF RowChain
          <6>2. QED
            BY <2>1, <3>2, <6>1
        <5>3. QED
          BY <5>1, <5>2
      <4>2. QED
        BY <3>5, <3>6, <4>1 DEF RowChain
    <3>7. CASE Sync = "futures"
      <4>1. x.prevU = row.u
        BY <3>1, <3>4, <3>5, <3>7 DEF RowChain
      <4>2. QED
        BY <3>5, <3>7, <4>1 DEF RowChain
    <3>8. QED
      BY <3>6, <3>7, BookAssumption DEF BookAssumption
  <2>8. QED
    BY <1>1, <1>6, <2>5, <2>6, <2>7 DEF TookEvent
<1>7. QED
  BY <1>3, <1>4, <1>5, <1>6

\* A published row: it is a row, it is what the book shows, and it continues
\* the row before it.
LEMMA PublishChain ==
    ASSUME NEW b \in BookType, Len(b.buf) <= BufferCap, BookChain(b),
           NEW row \in RowType, RowChain(b, row)
    PROVE  /\ GetQuote(b) \in RowType
           /\ [b EXCEPT !.rangeClosed = TRUE] \in BookType
           /\ BookChain([b EXCEPT !.rangeClosed = TRUE])
           /\ RowChain([b EXCEPT !.rangeClosed = TRUE], GetQuote(b))
           /\ row.valid /\ GetQuote(b).valid => Continues(row, GetQuote(b))
<1> DEFINE x == [b EXCEPT !.rangeClosed = TRUE]
           q == GetQuote(b)
<1>1. /\ x \in BookType /\ x.state = b.state /\ x.seq = b.seq /\ x.buf = b.buf
      /\ x.refreshing = b.refreshing /\ x.requested = b.requested /\ x.shadow = b.shadow
      /\ x.firstU = b.firstU /\ x.prevU = b.prevU /\ x.rangeClosed = TRUE
  BY DEF BookType
<1>2. BookChain(x)
  <2> HIDE DEF x
  <2>1. QED
    BY <1>1 DEF BookChain
<1>3. InvalidRow \in RowType /\ ~ InvalidRow.valid
  BY IdFacts DEF InvalidRow, RowType
<1>4. CASE q = InvalidRow
  BY <1>1, <1>2, <1>3, <1>4 DEF RowChain
<1>5. CASE /\ b.state = "VALID"
           /\ q = [valid |-> TRUE, top |-> Best(b.side.levels, Depth),
                   U |-> b.firstU, u |-> b.seq.lastId,
                   pu |-> IF Sync = "futures" THEN b.prevU ELSE 0]
  <2>1. /\ q.valid /\ q.U = b.firstU /\ q.u = b.seq.lastId
        /\ Sync = "futures" => q.pu = b.prevU
    BY <1>5
  <2>2. q \in RowType
    <3>1. b.side.levels \in SUBSET Prices
      BY DEF BookType, SideType
    <3>2. Best(b.side.levels, Depth) \in SUBSET Prices
      BY <3>1 DEF Best
    <3>3. b.firstU \in Ids /\ b.seq.lastId \in Ids /\ b.prevU \in Ids /\ 0 \in Ids
      BY IdFacts DEF BookType, SeqType
    <3>4. (IF Sync = "futures" THEN b.prevU ELSE 0) \in Ids
      BY <3>3
    <3>5. QED
      BY <1>5, <3>2, <3>3, <3>4 DEF RowType
  <2> HIDE DEF q, x
  <2>3. RowChain(x, q)
    BY <1>1, <1>5, <2>1 DEF RowChain
  <2>4. ASSUME row.valid
        PROVE  Continues(row, q)
    <3>1. b.firstU <= b.seq.lastId /\ b.firstU \in Nat /\ b.seq.lastId \in Nat /\ row.u \in Nat
      <4>1. b.seq \in SeqType
        BY DEF BookType
      <4>2. QED
        BY <1>5, <4>1, IdFacts DEF BookType, SeqType, RowType, BookChain
    <3>2. CASE b.rangeClosed
      <4>1. row.U = b.firstU /\ row.u = b.seq.lastId
        BY <2>4, <3>2 DEF RowChain
      <4>2. q.U <= row.u + 1 /\ q.u >= row.u
        BY <2>1, <3>1, <4>1
      <4>3. QED
        BY <2>1, <4>1, <4>2 DEF Continues
    <3>3. CASE ~ b.rangeClosed /\ Sync = "spot"
      <4>1. b.firstU <= row.u + 1 /\ row.u <= b.seq.lastId
        BY <2>4, <3>3 DEF RowChain
      <4>2. q.U <= row.u + 1 /\ q.u >= row.u
        BY <2>1, <3>1, <4>1
      <4>3. QED
        BY <3>3, <4>2 DEF Continues
    <3>4. CASE ~ b.rangeClosed /\ Sync = "futures"
      <4>1. b.prevU = row.u
        BY <2>4, <3>4 DEF RowChain
      <4>2. QED
        BY <2>1, <3>4, <4>1 DEF Continues
    <3>5. QED
      BY <3>2, <3>3, <3>4, BookAssumption DEF BookAssumption
  <2>5. QED
    BY <1>1, <1>2, <2>2, <2>3, <2>4 DEF q, x
<1>6. QED
  BY <1>4, <1>5 DEF GetQuote

-----------------------------------------------------------------------------
(* The stream *)

\* The first event of the stream and what is left without it.
LEMMA BehindNext ==
    ASSUME NEW q \in Seq(DeltaType), q # <<>>, NEW id \in Nat,
           NEW b, Behind(b, q, id),
           NEW x, \A m \in DOMAIN x.buf : \/ x.buf[m].u = Head(q).u
                                          \/ \E n \in DOMAIN b.buf : x.buf[m] = b.buf[n],
           x.state = "VALID" => \/ x.seq.lastId = Head(q).u
                                \/ b.state = "VALID" /\ x.seq.lastId = b.seq.lastId
    PROVE  Behind(x, Tail(q), id)
<1> DEFINE t == Tail(q)
           N == Len(q)
<1>1. /\ Head(q) = q[1] /\ N >= 1 /\ N \in Nat /\ t \in Seq(DeltaType) /\ Len(t) = N - 1
      /\ \A i \in 1 .. N - 1 : t[i] = q[i + 1]
  BY TailSeq
<1>2. DOMAIN q = 1 .. N /\ DOMAIN t = 1 .. N - 1
  BY <1>1
<1> HIDE DEF t, N
<1>3. \A i \in DOMAIN t : i + 1 \in DOMAIN q /\ 1 < i + 1 /\ t[i] = q[i + 1]
  BY <1>1, <1>2
<1>4. 1 \in DOMAIN q
  BY <1>1, <1>2
<1>5. \A i \in DOMAIN t : Head(q).u < t[i].U
  <2>1. TAKE i \in DOMAIN t
  <2>2. i + 1 \in DOMAIN q /\ 1 < i + 1 /\ t[i] = q[i + 1]
    BY <1>3
  <2>3. q[1].u < q[i + 1].U
    BY <1>4, <2>2 DEF Behind, InOrder
  <2>4. QED
    BY <1>1, <2>2, <2>3
<1>6. Head(q).u <= id
  BY <1>1, <1>4 DEF Behind, InOrder
<1>7. InOrder(t, id)
  <2>1. \A m \in DOMAIN t : t[m].U <= t[m].u /\ t[m].u <= id
    BY <1>3 DEF Behind, InOrder
  <2>2. ASSUME NEW m \in DOMAIN t, NEW n \in DOMAIN t, m < n
        PROVE  t[m].u < t[n].U
    <3>1. m + 1 < n + 1
      BY <1>1, <1>2, <2>2
    <3>2. QED
      BY <1>3, <3>1 DEF Behind, InOrder
  <2>3. QED
    BY <2>1, <2>2 DEF InOrder
<1>8. \A m \in DOMAIN x.buf : x.buf[m].u <= id /\ \A n \in DOMAIN t : x.buf[m].u < t[n].U
  <2>1. TAKE m \in DOMAIN x.buf
  <2>2. CASE x.buf[m].u = Head(q).u
    BY <1>5, <1>6, <2>2
  <2>3. CASE \E n \in DOMAIN b.buf : x.buf[m] = b.buf[n]
    BY <1>3, <2>3 DEF Behind
  <2>4. QED
    BY <2>2, <2>3
<1>9. x.state = "VALID" => x.seq.lastId <= id /\ \A n \in DOMAIN t : x.seq.lastId < t[n].U
  BY <1>3, <1>5, <1>6 DEF Behind
<1>10. QED
  BY <1>7, <1>8, <1>9 DEF Behind, t

\* One more event on the stream.
LEMMA BehindAppend ==
    ASSUME NEW q \in Seq(DeltaType), NEW d \in DeltaType, NEW id \in Nat, NEW to \in Nat,
           d.U <= d.u, id < d.U, d.u <= to, NEW b \in BookType, Behind(b, q, id)
    PROVE  Behind(b, Append(q, d), to)
<1> DEFINE a == Append(q, d)
           N == Len(q)
<1>1. /\ a \in Seq(DeltaType) /\ N \in Nat /\ DOMAIN a = 1 .. N + 1 /\ DOMAIN q = 1 .. N
      /\ \A i \in 1 .. N : a[i] = q[i]
      /\ a[N + 1] = d
  BY AppendSeq
<1> HIDE DEF a, N
<1>2. d.U \in Nat /\ d.u \in Nat
  BY IdFacts DEF DeltaType
<1>3. \A m \in DOMAIN a : \/ m = N + 1 /\ a[m] = d
                          \/ m \in DOMAIN q /\ m < N + 1 /\ a[m] = q[m]
  BY <1>1
<1>4. \A m \in DOMAIN q : q[m].u \in Nat
  <2>1. \A m \in DOMAIN q : q[m] \in DeltaType
    OBVIOUS
  <2>2. \A e \in DeltaType : e.u \in Nat
    BY IdFacts DEF DeltaType
  <2>3. QED
    BY <2>1, <2>2
<1>5. \A m \in DOMAIN b.buf : b.buf[m].u \in Nat
  <2>1. \A m \in DOMAIN b.buf : b.buf[m] \in DeltaType
    BY DEF BookType
  <2>2. \A e \in DeltaType : e.u \in Nat
    BY IdFacts DEF DeltaType
  <2>3. QED
    BY <2>1, <2>2
<1>6. \A u \in Nat : u <= id => u < d.U /\ u <= to
  BY <1>2
<1>7. InOrder(a, to)
  <2>1. ASSUME NEW m \in DOMAIN a
        PROVE  a[m].U <= a[m].u /\ a[m].u <= to
    <3>1. CASE m = N + 1 /\ a[m] = d
      BY <3>1
    <3>2. CASE m \in DOMAIN q /\ a[m] = q[m]
      BY <1>4, <1>6, <3>2 DEF Behind, InOrder
    <3>3. QED
      BY <1>3, <3>1, <3>2
  <2>2. ASSUME NEW m \in DOMAIN a, NEW n \in DOMAIN a, m < n
        PROVE  a[m].u < a[n].U
    <3>1. m \in DOMAIN q /\ a[m] = q[m]
      BY <1>1, <2>2
    <3>2. CASE n = N + 1 /\ a[n] = d
      BY <1>4, <1>6, <3>1, <3>2 DEF Behind, InOrder
    <3>3. CASE n \in DOMAIN q /\ a[n] = q[n]
      BY <2>2, <3>1, <3>3 DEF Behind, InOrder
    <3>4. QED
      BY <1>3, <3>2, <3>3
  <2>3. QED
    BY <2>1, <2>2 DEF InOrder
<1>8. \A m \in DOMAIN b.buf : b.buf[m].u <= to /\ \A n \in DOMAIN a : b.buf[m].u < a[n].U
  BY <1>3, <1>5, <1>6 DEF Behind
<1>9. b.state = "VALID" => b.seq.lastId <= to /\ \A n \in DOMAIN a : b.seq.lastId < a[n].U
  <2>1. b.seq.lastId \in Nat
    BY IdFacts DEF BookType, SeqType
  <2>2. QED
    BY <1>3, <1>6, <2>1 DEF Behind
<1>10. QED
  BY <1>7, <1>8, <1>9 DEF Behind, a

\* Results leave the book behind the stream.
LEMMA BehindDrained ==
    ASSUME NEW q, NEW id, NEW b, Behind(b, q, id), NEW x, Drained(b, x)
    PROVE  Behind(x, q, id)
<1>1. x.buf = <<>> \/ x.buf = b.buf
  BY DEF Drained
<1>2. \A m \in DOMAIN x.buf : m \in DOMAIN b.buf /\ x.buf[m] = b.buf[m]
  BY <1>1
<1>3. CASE b.state = "VALID"
  BY <1>2, <1>3 DEF Behind, Drained
<1>4. CASE b.state # "VALID"
  <2>1. x.state = "VALID" => \E m \in DOMAIN b.buf : x.seq.lastId = b.buf[m].u
    BY <1>4 DEF Drained
  <2>2. QED
    BY <1>2, <2>1 DEF Behind
<1>5. QED
  BY <1>3, <1>4

\* A new book is behind any stream.
LEMMA NewBookChain ==
    /\ BookChain(NewBook)
    /\ \A q, id : InOrder(q, id) => Behind(NewBook, q, id)
    /\ RowChain(NewBook, InvalidRow)
    /\ [NewBook EXCEPT !.rangeClosed = TRUE] = NewBook
    /\ ~ NewBook.requested /\ ~ NewBook.refreshing
<1>1. /\ NewBook.state = "INIT" /\ NewBook.buf = <<>> /\ ~ NewBook.refreshing
      /\ ~ NewBook.shadow.pending /\ NewBook.rangeClosed /\ ~ NewBook.requested
  BY DEF NewBook, NoShadow
<1>2. BookChain(NewBook)
  BY <1>1 DEF BookChain
<1>3. \A q, id : InOrder(q, id) => Behind(NewBook, q, id)
  BY <1>1 DEF Behind
<1>4. RowChain(NewBook, InvalidRow)
  BY DEF RowChain, InvalidRow
<1>5. [NewBook EXCEPT !.rangeClosed = TRUE] = NewBook
  <2>1. \A x \in BookType : x.rangeClosed = TRUE => [x EXCEPT !.rangeClosed = TRUE] = x
    BY DEF BookType
  <2>2. NewBook.rangeClosed = TRUE
    BY DEF NewBook
  <2>3. QED
    BY <2>1, <2>2, NewBookTyped
<1>6. QED
  BY <1>1, <1>2, <1>3, <1>4, <1>5

\* Results keep the row of a valid book, and a book that was not valid has none.
LEMMA RowDrained ==
    ASSUME NEW b, NEW x, Drained(b, x), NEW row, RowChain(b, row)
    PROVE  RowChain(x, row)
BY DEF Drained, RowChain

-----------------------------------------------------------------------------
(* The actions keep the chain *)

\* A fault is counted.
LEMMA FaultTyped ==
    ASSUME FaultsTyped, NEW f \in FaultKinds, Fault(f)
    PROVE  FaultsTyped'
<1>1. /\ faults \in [FaultKinds -> Nat] /\ MaxFaults \in [FaultKinds -> Nat]
      /\ faults' = [faults EXCEPT ![f] = @ + 1] /\ faults[f] < MaxFaults[f]
  BY FhAssumption DEF FaultsTyped, Fault, FhAssumption
<1>2. faults' \in [FaultKinds -> Nat]
  BY <1>1
<1>3. ASSUME NEW g \in FaultKinds
      PROVE  faults'[g] <= MaxFaults[g]
  <2>1. CASE g = f
    BY <1>1, <2>1
  <2>2. CASE g # f
    BY <1>1, <2>2 DEF FaultsTyped
  <2>3. QED
    BY <2>1, <2>2
<1>4. QED
  BY <1>2, <1>3 DEF FaultsTyped

\* A bounded queue stays one, and has the new entry and old ones.
LEMMA PushTyped ==
    ASSUME NEW T, NEW q \in Seq(T), Len(q) <= QueueCap, NEW x \in T
    PROVE  /\ Push(q, x) \in Seq(T) /\ Len(Push(q, x)) <= QueueCap
           /\ \A m \in DOMAIN Push(q, x) :
                  Push(q, x)[m] = x \/ \E n \in DOMAIN q : Push(q, x)[m] = q[n]
<1> DEFINE t == IF Len(q) >= QueueCap THEN Tail(q) ELSE q
<1>1. QueueCap \in Nat \ {0} /\ Len(q) \in Nat
  BY FhAssumption DEF FhAssumption
<1>2. /\ t \in Seq(T) /\ Len(t) + 1 <= QueueCap /\ Len(t) \in Nat
      /\ \A m \in 1 .. Len(t) : \E n \in DOMAIN q : t[m] = q[n]
  <2>1. CASE Len(q) >= QueueCap
    <3>1. q # <<>>
      BY <1>1, <2>1
    <3>2. /\ Tail(q) \in Seq(T) /\ Len(Tail(q)) = Len(q) - 1
          /\ \A i \in 1 .. Len(q) - 1 : Tail(q)[i] = q[i + 1]
      BY <3>1, TailSeq
    <3>3. t = Tail(q)
      BY <2>1
    <3> HIDE DEF t
    <3>4. ASSUME NEW m \in 1 .. Len(t)
          PROVE  \E n \in DOMAIN q : t[m] = q[n]
      <4>1. m + 1 \in DOMAIN q /\ t[m] = q[m + 1]
        BY <1>1, <3>2, <3>3
      <4>2. QED
        BY <4>1
    <3>5. QED
      BY <1>1, <3>2, <3>3, <3>4
  <2>2. CASE ~ (Len(q) >= QueueCap)
    <3>1. t = q
      BY <2>2
    <3> HIDE DEF t
    <3>2. QED
      BY <1>1, <2>2, <3>1
  <2>3. QED
    BY <2>1, <2>2
<1>3. Push(q, x) = Append(t, x)
  BY DEF Push
<1> HIDE DEF t
<1>4. /\ Append(t, x) \in Seq(T) /\ Len(Append(t, x)) = Len(t) + 1
      /\ Append(t, x)[Len(t) + 1] = x
      /\ \A m \in 1 .. Len(t) : Append(t, x)[m] = t[m]
  BY <1>2, AppendSeq
<1>5. ASSUME NEW m \in DOMAIN Push(q, x)
      PROVE  Push(q, x)[m] = x \/ \E n \in DOMAIN q : Push(q, x)[m] = q[n]
  <2>1. m \in 1 .. Len(t) \/ m = Len(t) + 1
    BY <1>2, <1>3, <1>4
  <2>2. QED
    BY <1>2, <1>3, <1>4, <2>1
<1>6. QED
  BY <1>2, <1>3, <1>4, <1>5

\* What a step may do to the rows and, by results, to the book.
RowStep == last.valid /\ last'.valid /\ last' # last => Continues(last, last')

DrainStep ==
    phase = "drain" /\ phase' = "read" /\ book.state = "VALID" =>
        book'.state = "VALID" /\ book'.seq.lastId = book.seq.lastId

\* It starts on the chain.
LEMMA ChainInit == Init => ChainInv
<1> SUFFICES ASSUME Init PROVE ChainInv
  OBVIOUS
<1>1. <<FirstBook>> \in Seq(Books) /\ Len(<<FirstBook>>) = 1
  BY FhAssumption DEF FhAssumption
<1>2. <<>> \in Seq(DeltaType) /\ <<>> \in Seq(1 .. MaxRequests) /\ <<>> \in Seq(ResultType)
  OBVIOUS
<1>3. Len(<<>>) = 0 /\ DOMAIN <<>> = {}
  OBVIOUS
<1>4. ExchTyped
  BY <1>1, <1>2, FhAssumption DEF Init, ExchTyped, Updates, FhAssumption
<1>5. BookTyped
  BY NewBookTyped DEF Init, BookTyped
<1>6. InvalidRow \in RowType /\ ~ InvalidRow.valid
  BY IdFacts DEF InvalidRow, RowType
<1>7. RowTyped
  BY <1>6 DEF Init, RowTyped
<1>8. ReqTyped /\ WorkTyped
  <2>1. waiting \in BOOLEAN /\ ~ waiting
    BY DEF Init
  <2>2. 0 <= QueueCap /\ 0 \in 0 .. MaxRequests /\ 0 \in 0 .. 0 + 1
    BY FhAssumption DEF FhAssumption
  <2>3. nextId = 0 /\ latestId = 0 /\ fetching = 0 /\ requests = <<>> /\ results = <<>>
    BY DEF Init
  <2>4. QED
    BY <1>2, <1>3, <2>1, <2>2, <2>3 DEF ReqTyped, WorkTyped
<1>9. FaultsTyped
  BY FhAssumption DEF Init, FaultsTyped, FhAssumption
<1>10. InOrder(stream, IdOf(sent))
  BY <1>3 DEF Init, InOrder
<1>11. QED
  BY <1>4, <1>5, <1>7, <1>8, <1>9, <1>10, NewBookChain
     DEF Init, ChainInv, Typed, RequestWatched

\* What a step leaves alone keeps its type.
LEMMA SameTyped ==
    /\ ExchTyped /\ UNCHANGED exchVars => ExchTyped'
    /\ RowTyped /\ UNCHANGED rowVars => RowTyped'
    /\ ReqTyped /\ UNCHANGED reqVars => ReqTyped'
    /\ WorkTyped /\ UNCHANGED workVars => WorkTyped'
    /\ FaultsTyped /\ UNCHANGED faults => FaultsTyped'
<1>1. ExchTyped /\ UNCHANGED exchVars => ExchTyped'
  BY DEF exchVars, ExchTyped, Updates
<1>2. RowTyped /\ UNCHANGED rowVars => RowTyped'
  BY DEF rowVars, RowTyped
<1>3. ReqTyped /\ UNCHANGED reqVars => ReqTyped'
  BY DEF reqVars, ReqTyped
<1>4. WorkTyped /\ UNCHANGED workVars => WorkTyped'
  BY DEF workVars, WorkTyped
<1>5. FaultsTyped /\ UNCHANGED faults => FaultsTyped'
  BY DEF FaultsTyped
<1>6. QED
  BY <1>1, <1>2, <1>3, <1>4, <1>5

\* A step of the exchange or of the worker leaves the handler where it is.
LEMMA OutsideHandler ==
    ASSUME ChainInv, UNCHANGED <<phase, book, rowVars, waiting>>,
           ExchTyped', ReqTyped', WorkTyped', FaultsTyped',
           Behind(book, stream', IdOf(sent'))
    PROVE  ChainInv' /\ RowStep /\ DrainStep
<1>1. BookTyped' /\ RowTyped'
  BY SameTyped DEF ChainInv, Typed, BookTyped, rowVars
<1>2. book' = book /\ last' = last /\ phase' = phase /\ waiting' = waiting
  BY DEF rowVars
<1>3. RequestWatched'
  BY <1>2 DEF ChainInv, RequestWatched
<1>4. ChainInv'
  BY <1>1, <1>2, <1>3 DEF ChainInv, Typed
<1>5. RowStep
  BY <1>2 DEF RowStep
<1>6. DrainStep
  BY <1>2 DEF DrainStep
<1>7. QED
  BY <1>4, <1>5, <1>6

\* The exchange changes its book.
LEMMA ChangeChain ==
    ASSUME ChainInv, Change
    PROVE  ChainInv' /\ RowStep /\ DrainStep
<1>1. PICK b \in Books : truth' = Append(truth, b)
  BY DEF Change
<1>2. truth \in Seq(Books) /\ Len(truth) \in 1 .. MaxUpdates + 1 /\ sent \in 0 .. Len(truth) - 1
  BY DEF ChainInv, Typed, ExchTyped, Updates
<1>3. truth' \in Seq(Books) /\ Len(truth') = Len(truth) + 1
  BY <1>1, <1>2, AppendSeq
<1>4. Len(truth') \in 1 .. MaxUpdates + 1 /\ sent \in 0 .. Len(truth') - 1
  BY <1>2, <1>3, FhAssumption DEF Change, Updates, FhAssumption
<1>5. ExchTyped'
  BY <1>3, <1>4 DEF ChainInv, Typed, ExchTyped, Updates, Change
<1>6. UNCHANGED <<phase, book, rowVars, waiting>> /\ UNCHANGED reqVars /\ UNCHANGED workVars
  BY DEF Change, reqVars
<1>7. stream' = stream /\ sent' = sent /\ faults' = faults
  BY DEF Change
<1>8. QED
  BY <1>5, <1>6, <1>7, SameTyped, OutsideHandler DEF ChainInv, Typed

\* An event has the ids of the updates it covers.
LEMMA DeltaTyped ==
    ASSUME ExchTyped, NEW i \in 1 .. Updates, NEW j \in i .. Updates
    PROVE  /\ Delta(i, j) \in DeltaType
           /\ Delta(i, j).U = IdOf(i) /\ Delta(i, j).u = IdOf(j) /\ Delta(i, j).pu = IdOf(i - 1)
           /\ IdOf(i) <= IdOf(j) /\ IdOf(i - 1) < IdOf(i)
<1> DEFINE touched == {p \in Prices : \E k \in i .. j : (p \in truth[k]) # (p \in truth[k + 1])}
<1>1. Updates \in 0 .. MaxUpdates /\ MaxUpdates \in Nat
  BY FhAssumption DEF ExchTyped, Updates, FhAssumption
<1>2. i \in Nat /\ j \in Nat /\ i - 1 \in Nat /\ i <= j /\ i - 1 < i
      /\ i \in 0 .. MaxUpdates /\ j \in 0 .. MaxUpdates /\ i - 1 \in 0 .. MaxUpdates
  BY <1>1
<1>3. IdOf(i) \in Ids /\ IdOf(j) \in Ids /\ IdOf(i - 1) \in Ids
  BY <1>2, IdFacts
<1>4. IdOf(i) <= IdOf(j) /\ IdOf(i - 1) < IdOf(i)
  BY <1>2, IdFacts
<1>5. Delta(i, j) = [U |-> IdOf(i), u |-> IdOf(j), pu |-> IdOf(i - 1),
                     gone |-> touched \ truth[j + 1], there |-> touched \cap truth[j + 1]]
  BY DEF Delta
<1>6. touched \ truth[j + 1] \in SUBSET Prices /\ touched \cap truth[j + 1] \in SUBSET Prices
  OBVIOUS
<1> HIDE DEF touched
<1>7. QED
  BY <1>3, <1>4, <1>5, <1>6 DEF DeltaType

\* The exchange sends an event.
LEMMA EmitChain ==
    ASSUME ChainInv, Emit
    PROVE  ChainInv' /\ RowStep /\ DrainStep
<1>1. PICK j \in sent + 1 .. Updates : stream' = Append(stream, Delta(sent + 1, j)) /\ sent' = j
  BY DEF Emit
<1>2. ExchTyped /\ BookTyped
  BY DEF ChainInv, Typed
<1>3. sent \in Nat /\ Updates \in Nat /\ j \in Nat /\ sent + 1 \in 1 .. Updates
      /\ j \in 0 .. Updates /\ sent + 1 - 1 = sent
  BY <1>1, <1>2 DEF ExchTyped, Updates
<1> DEFINE d == Delta(sent + 1, j)
<1>4. /\ d \in DeltaType /\ d.U = IdOf(sent + 1) /\ d.u = IdOf(j)
      /\ IdOf(sent + 1) <= IdOf(j) /\ IdOf(sent) < IdOf(sent + 1)
  BY <1>1, <1>2, <1>3, DeltaTyped
<1>5. IdOf(sent) \in Nat /\ IdOf(j) \in Nat
  BY <1>3, IdFacts
<1> HIDE DEF d
<1>6. stream \in Seq(DeltaType) /\ stream' = Append(stream, d)
  BY <1>1, <1>2 DEF ExchTyped, d
<1>7. stream' \in Seq(DeltaType)
  BY <1>4, <1>6, AppendSeq
<1>8. ExchTyped'
  BY <1>1, <1>2, <1>3, <1>7 DEF ExchTyped, Updates, Emit
<1>9. Behind(book, stream', IdOf(sent'))
  <2>1. d.U <= d.u /\ IdOf(sent) < d.U /\ d.u <= IdOf(j)
    BY <1>4, <1>5
  <2>2. book \in BookType /\ Behind(book, stream, IdOf(sent))
    BY <1>2 DEF ChainInv, BookTyped
  <2>3. QED
    BY <1>1, <1>4, <1>5, <1>6, <2>1, <2>2, BehindAppend
<1>10. UNCHANGED <<phase, book, rowVars, waiting>> /\ UNCHANGED reqVars /\ UNCHANGED workVars
      /\ UNCHANGED faults
  BY DEF Emit, reqVars
<1>11. QED
  BY <1>8, <1>9, <1>10, SameTyped, OutsideHandler DEF ChainInv, Typed

\* The worker thread takes a request, or other symbols push one out.
LEMMA RequestsShrink ==
    ASSUME ChainInv, requests # <<>>, requests' = Tail(requests),
           UNCHANGED <<waiting, latestId, nextId>>
    PROVE  ReqTyped' /\ Head(requests) \in 1 .. MaxRequests
<1>1. ReqTyped
  BY DEF ChainInv, Typed
<1>2. requests \in Seq(1 .. MaxRequests) /\ Len(requests) <= QueueCap
  BY <1>1 DEF ReqTyped
<1>3. /\ Tail(requests) \in Seq(1 .. MaxRequests) /\ Len(Tail(requests)) = Len(requests) - 1
      /\ Head(requests) \in 1 .. MaxRequests
  BY <1>2, TailSeq
<1>4. Len(Tail(requests)) <= QueueCap
  BY <1>2, <1>3, FhAssumption DEF FhAssumption
<1>5. QED
  BY <1>1, <1>3, <1>4 DEF ReqTyped

\* The worker takes a request.
LEMMA WorkerTakesChain ==
    ASSUME ChainInv, WorkerTakes
    PROVE  ChainInv' /\ RowStep /\ DrainStep
<1>1. ReqTyped' /\ Head(requests) \in 1 .. MaxRequests
  BY RequestsShrink DEF WorkerTakes
<1>2. fetching' \in 0 .. MaxRequests /\ results' = results
  BY <1>1, FhAssumption DEF WorkerTakes, FhAssumption
<1>3. WorkTyped'
  BY <1>2 DEF ChainInv, Typed, WorkTyped
<1>4. UNCHANGED <<phase, book, rowVars, waiting>> /\ UNCHANGED exchVars /\ UNCHANGED faults
  BY DEF WorkerTakes
<1>5. Behind(book, stream', IdOf(sent'))
  BY <1>4 DEF ChainInv, exchVars
<1>6. QED
  BY <1>1, <1>3, <1>4, <1>5, SameTyped, OutsideHandler DEF ChainInv, Typed

\* The worker pushes an answer.
LEMMA WorkerPushes ==
    ASSUME ChainInv, fetching # 0, NEW r \in ResultType, results' = Push(results, r),
           fetching' = 0, UNCHANGED <<exchVars, phase, book, rowVars, reqVars>>, FaultsTyped'
    PROVE  ChainInv' /\ RowStep /\ DrainStep
<1>1. results \in Seq(ResultType) /\ Len(results) <= QueueCap
  BY DEF ChainInv, Typed, WorkTyped
<1>2. results' \in Seq(ResultType) /\ Len(results') <= QueueCap
  BY <1>1, PushTyped
<1>3. 0 \in 0 .. MaxRequests
  BY FhAssumption DEF FhAssumption
<1>4. WorkTyped'
  BY <1>2, <1>3 DEF WorkTyped
<1>5. UNCHANGED <<phase, book, rowVars, waiting>> /\ UNCHANGED exchVars /\ UNCHANGED reqVars
  BY DEF reqVars
<1>6. Behind(book, stream', IdOf(sent'))
  BY <1>5 DEF ChainInv, exchVars
<1>7. QED
  BY <1>4, <1>5, <1>6, SameTyped, OutsideHandler DEF ChainInv, Typed

\* The answers it may push.
LEMMA AnswerTyped ==
    ASSUME ChainInv, fetching # 0
    PROVE  /\ [reqId |-> fetching, ok |-> FALSE] \in ResultType
           /\ \A k \in 0 .. Updates : \A p :
                  /\ [reqId |-> fetching, ok |-> TRUE, id |-> IdOf(k),
                      levels |-> Best(truth[k + 1], SnapshotLimit)] \in ResultType
                  /\ [reqId |-> fetching, ok |-> TRUE, id |-> IdOf(k),
                      levels |-> Best(truth[k + 1], SnapshotLimit) \ {p}] \in ResultType
<1>1. fetching \in 1 .. MaxRequests
  BY FhAssumption DEF ChainInv, Typed, WorkTyped, FhAssumption
<1>2. ASSUME NEW k \in 0 .. Updates
      PROVE  IdOf(k) \in Ids /\ Best(truth[k + 1], SnapshotLimit) \in SUBSET Prices
  <2>1. /\ truth \in Seq(Books) /\ k + 1 \in 1 .. Len(truth) /\ k \in 0 .. MaxUpdates
    BY FhAssumption DEF ChainInv, Typed, ExchTyped, Updates, FhAssumption
  <2>2. truth[k + 1] \in Books
    BY <2>1, ElementSeq
  <2>3. truth[k + 1] \subseteq Prices
    BY <2>2, FhAssumption DEF FhAssumption
  <2>4. QED
    BY <2>1, <2>3, IdFacts DEF Best
<1>3. QED
  BY <1>1, <1>2 DEF ResultType

\* The exchange answers with a snapshot.
LEMMA WorkerAnswersChain ==
    ASSUME ChainInv, WorkerAnswers
    PROVE  ChainInv' /\ RowStep /\ DrainStep
<1>1. PICK k \in 0 .. Updates :
          results' = Push(results, [reqId |-> fetching, ok |-> TRUE, id |-> IdOf(k),
                                    levels |-> Best(truth[k + 1], SnapshotLimit)])
  BY DEF WorkerAnswers
<1>2. FaultsTyped'
  BY SameTyped DEF WorkerAnswers, ChainInv, Typed
<1>3. fetching # 0 /\ fetching' = 0 /\ UNCHANGED <<exchVars, phase, book, rowVars, reqVars>>
  BY DEF WorkerAnswers
<1>4. QED
  BY <1>1, <1>2, <1>3, AnswerTyped, WorkerPushes

\* The answer has a level that cannot be parsed.
LEMMA WorkerAnswersBadLevelChain ==
    ASSUME ChainInv, WorkerAnswersBadLevel
    PROVE  ChainInv' /\ RowStep /\ DrainStep
<1>1. \E k \in 0 .. Updates : \E p \in Best(truth[k + 1], SnapshotLimit) :
          results' = Push(results, [reqId |-> fetching, ok |-> TRUE, id |-> IdOf(k),
                                    levels |-> Best(truth[k + 1], SnapshotLimit) \ {p}])
  BY DEF WorkerAnswersBadLevel
<1>2. "level" \in FaultKinds
  BY DEF FaultKinds
<1>3. FaultsTyped'
  BY <1>2, FaultTyped DEF WorkerAnswersBadLevel, ChainInv, Typed
<1>4. fetching # 0 /\ fetching' = 0 /\ UNCHANGED <<exchVars, phase, book, rowVars, reqVars>>
  BY DEF WorkerAnswersBadLevel
<1>5. QED
  BY <1>1, <1>3, <1>4, AnswerTyped, WorkerPushes

\* The REST request fails.
LEMMA WorkerFailsChain ==
    ASSUME ChainInv, WorkerFails
    PROVE  ChainInv' /\ RowStep /\ DrainStep
<1>1. results' = Push(results, [reqId |-> fetching, ok |-> FALSE])
  BY DEF WorkerFails
<1>2. "fetch" \in FaultKinds
  BY DEF FaultKinds
<1>3. FaultsTyped'
  BY <1>2, FaultTyped DEF WorkerFails, ChainInv, Typed
<1>4. fetching # 0 /\ fetching' = 0 /\ UNCHANGED <<exchVars, phase, book, rowVars, reqVars>>
  BY DEF WorkerFails
<1>5. QED
  BY <1>1, <1>3, <1>4, AnswerTyped, WorkerPushes

\* Other symbols push a request or a result out of its queue.
LEMMA PushedOutChain ==
    ASSUME ChainInv, PushedOut
    PROVE  ChainInv' /\ RowStep /\ DrainStep
<1>1. "overflow" \in FaultKinds
  BY DEF FaultKinds
<1>2. FaultsTyped'
  BY <1>1, FaultTyped DEF PushedOut, ChainInv, Typed
<1>3. UNCHANGED <<phase, book, rowVars, waiting>> /\ UNCHANGED exchVars
      /\ UNCHANGED <<waiting, latestId, nextId>> /\ UNCHANGED fetching
  BY DEF PushedOut
<1>4. Behind(book, stream', IdOf(sent'))
  BY <1>3 DEF ChainInv, exchVars
<1>5. CASE requests # <<>> /\ requests' = Tail(requests) /\ UNCHANGED results
  <2>1. ReqTyped'
    BY <1>3, <1>5, RequestsShrink
  <2>2. WorkTyped'
    BY <1>3, <1>5 DEF ChainInv, Typed, WorkTyped
  <2>3. QED
    BY <1>2, <1>3, <1>4, <2>1, <2>2, SameTyped, OutsideHandler DEF ChainInv, Typed
<1>6. CASE results # <<>> /\ results' = Tail(results) /\ UNCHANGED requests
  <2>1. results \in Seq(ResultType) /\ Len(results) <= QueueCap
    BY DEF ChainInv, Typed, WorkTyped
  <2>2. results' \in Seq(ResultType) /\ Len(results') = Len(results) - 1
    BY <1>6, <2>1, TailSeq
  <2>3. Len(results') <= QueueCap
    BY <2>1, <2>2, FhAssumption DEF FhAssumption
  <2>4. WorkTyped'
    BY <1>3, <2>2, <2>3 DEF ChainInv, Typed, WorkTyped
  <2>5. UNCHANGED reqVars
    BY <1>3, <1>6 DEF reqVars
  <2>6. QED
    BY <1>2, <1>3, <1>4, <2>4, <2>5, SameTyped, OutsideHandler DEF ChainInv, Typed
<1>7. QED
  BY <1>5, <1>6 DEF PushedOut

\* The handler applies the results to h: its own state, or that state after a
\* timeout.
LEMMA ResultsChain ==
    ASSUME ChainInv, NEW h \in HandlerType, GoodHandler(h), Drained(book, h.book),
           h.latestId \in 0 .. nextId + 1, h.waiting => h.latestId = nextId,
           DrainResults(h), FaultsTyped'
    PROVE  ChainInv' /\ RowStep /\ DrainStep
<1> DEFINE x == FoldLeft(ApplyResult, h, results)
<1>1. results \in Seq(ResultType)
  BY DEF ChainInv, Typed, WorkTyped
<1>2. x \in HandlerType /\ HandlerDrained(h, x)
  BY <1>1, ResultsDrained
<1>3. book' = x.book /\ waiting' = x.waiting /\ latestId' = x.latestId
  BY DEF DrainResults
<1> HIDE DEF x
<1>4. Drained(book, book')
  BY <1>2, <1>3, DrainedTwice DEF HandlerDrained
<1>5. /\ results' = <<>> /\ phase' = "read" /\ UNCHANGED exchVars /\ UNCHANGED rowVars
      /\ UNCHANGED <<nextId, requests, fetching>>
  BY DEF DrainResults
<1>6. ExchTyped' /\ RowTyped'
  BY <1>5, SameTyped DEF ChainInv, Typed
<1>7. BookTyped'
  BY <1>4, <1>5 DEF Drained, BookTyped
<1>8. ReqTyped'
  <2>1. waiting' \in BOOLEAN /\ latestId' = h.latestId /\ (waiting' => h.waiting)
    BY <1>2, <1>3 DEF HandlerDrained, HandlerType
  <2>2. ReqTyped
    BY DEF ChainInv, Typed
  <2>3. QED
    BY <1>5, <2>1, <2>2 DEF ReqTyped
<1>9. WorkTyped'
  <2>1. <<>> \in Seq(ResultType) /\ Len(<<>>) = 0 /\ 0 <= QueueCap
    BY FhAssumption DEF FhAssumption
  <2>2. QED
    BY <1>5, <2>1 DEF ChainInv, Typed, WorkTyped
<1>10. BookChain(book') /\ Behind(book', stream', IdOf(sent'))
  <2>1. stream' = stream /\ sent' = sent
    BY <1>5 DEF exchVars
  <2>2. QED
    BY <1>4, <2>1, BehindDrained DEF ChainInv, Drained
<1>11. RowChain(book', last')
  <2>1. last' = last
    BY <1>5 DEF rowVars
  <2>2. QED
    BY <1>4, <2>1, RowDrained DEF ChainInv
<1>12. RequestWatched'
  BY <1>2, <1>3 DEF HandlerDrained, GoodHandler, RequestWatched
<1>13. ChainInv'
  BY <1>6, <1>7, <1>8, <1>9, <1>10, <1>11, <1>12, FaultsTyped' DEF ChainInv, Typed
<1>14. RowStep
  BY <1>5 DEF RowStep, rowVars
<1>15. DrainStep
  BY <1>4 DEF DrainStep, Drained
<1>16. QED
  BY <1>13, <1>14, <1>15

\* The handler's own state is such an h.
LEMMA HandlerGood ==
    ASSUME ChainInv
    PROVE  /\ Handler \in HandlerType /\ GoodHandler(Handler)
           /\ Handler.book = book /\ Handler.waiting = waiting /\ Handler.latestId = latestId
           /\ latestId \in 0 .. nextId + 1 /\ (waiting => latestId = nextId)
           /\ nextId \in Nat /\ latestId \in Nat
           /\ book \in BookType /\ Len(book.buf) <= BufferCap /\ BookChain(book)
<1>1. BookTyped /\ ReqTyped /\ BookChain(book)
  BY DEF ChainInv, Typed
<1>2. nextId \in Nat /\ latestId \in Nat
  BY <1>1, FhAssumption DEF ReqTyped, FhAssumption
<1>3. Handler \in HandlerType
  BY <1>1, <1>2 DEF HandlerType, Handler, BookTyped, ReqTyped
<1>4. Handler.book = book /\ Handler.waiting = waiting /\ Handler.latestId = latestId
  BY DEF Handler
<1>5. GoodHandler(Handler)
  BY <1>1, <1>4 DEF GoodHandler, BookTyped, ChainInv, RequestWatched
<1>6. QED
  BY <1>1, <1>2, <1>3, <1>4, <1>5 DEF BookTyped, ReqTyped

\* The handler drains the results.
LEMMA DrainChain ==
    ASSUME ChainInv, Drain
    PROVE  ChainInv' /\ RowStep /\ DrainStep
<1>1. Drained(book, Handler.book)
  BY HandlerGood, DrainedSame
<1>2. FaultsTyped'
  BY SameTyped DEF Drain, ChainInv, Typed
<1>3. QED
  BY <1>1, <1>2, HandlerGood, ResultsChain DEF Drain

\* The handler gives up a request whose time is up, then drains the results.
LEMMA DrainTimeoutChain ==
    ASSUME ChainInv, DrainTimeout
    PROVE  ChainInv' /\ RowStep /\ DrainStep
<1> DEFINE h == TimedOut(Handler)
<1>1. /\ h.book = GivenUp(book) /\ h.waiting = FALSE /\ h.latestId = latestId + 1
      /\ h = [book |-> GivenUp(book), waiting |-> FALSE, latestId |-> latestId + 1]
  BY DEF TimedOut, GivenUp, Handler
<1>2. /\ Drained(book, GivenUp(book)) /\ ~ GivenUp(book).requested
      /\ ~ GivenUp(book).refreshing
  BY HandlerGood, GivenUpDrained
<1>3. DrainResults(h)
  BY DEF DrainTimeout
<1>4. waiting /\ latestId = nextId
  BY HandlerGood DEF DrainTimeout
<1> HIDE DEF h
<1>5. h \in HandlerType
  BY <1>1, <1>2, HandlerGood DEF HandlerType, Drained
<1>6. GoodHandler(h)
  BY <1>1, <1>2 DEF GoodHandler, Drained
<1>7. h.latestId \in 0 .. nextId + 1 /\ (h.waiting => h.latestId = nextId)
  BY <1>1, <1>4, HandlerGood
<1>8. "timeout" \in FaultKinds
  BY DEF FaultKinds
<1>9. FaultsTyped'
  BY <1>8, FaultTyped DEF DrainTimeout, ChainInv, Typed
<1>10. QED
  BY <1>1, <1>2, <1>3, <1>5, <1>6, <1>7, <1>9, ResultsChain

\* A step of the handler's read phase shows book b and keeps the rest of it.
Shown(b) ==
    /\ book' \in BookType /\ Len(book'.buf) <= BufferCap
    /\ BookChain(book') /\ RowTyped' /\ RowChain(book', last') /\ RowStep
    /\ book'.state = b.state /\ book'.side = b.side /\ book'.seq = b.seq
    /\ book'.buf = b.buf /\ book'.shadow = b.shadow
    /\ book'.requested = b.requested /\ book'.refreshing = b.refreshing

\* Nothing is published.
LEMMA NotPublished ==
    ASSUME NEW b \in BookType, Len(b.buf) <= BufferCap, BookChain(b), RowChain(b, last),
           RowTyped, book' = b, UNCHANGED rowVars
    PROVE  Shown(b)
<1>1. last' = last /\ published' = published
  BY DEF rowVars
<1>2. RowTyped' /\ RowStep
  BY <1>1 DEF RowTyped, RowStep
<1>3. QED
  BY <1>1, <1>2 DEF Shown

\* A row of the book is published.
LEMMA QuotePublished ==
    ASSUME NEW b \in BookType, Len(b.buf) <= BufferCap, BookChain(b), RowChain(b, last),
           RowTyped, Publish(b, GetQuote(b))
    PROVE  Shown(b)
<1> DEFINE x == [b EXCEPT !.rangeClosed = TRUE]
<1>1. last \in RowType
  BY DEF RowTyped
<1>2. /\ GetQuote(b) \in RowType
      /\ x \in BookType /\ BookChain(x) /\ RowChain(x, GetQuote(b))
      /\ last.valid /\ GetQuote(b).valid => Continues(last, GetQuote(b))
  BY <1>1, PublishChain
<1>3. published' = TRUE /\ last' = GetQuote(b) /\ book' = x
  BY DEF Publish
<1>4. /\ x.state = b.state /\ x.side = b.side /\ x.seq = b.seq
      /\ x.buf = b.buf /\ x.shadow = b.shadow
      /\ x.requested = b.requested /\ x.refreshing = b.refreshing
  BY DEF BookType
<1> HIDE DEF x
<1>5. RowTyped'
  BY <1>2, <1>3 DEF RowTyped
<1>6. RowStep
  BY <1>2, <1>3 DEF RowStep
<1>7. QED
  BY <1>2, <1>3, <1>4, <1>5, <1>6 DEF Shown

\* An empty book after the marker row, or when no valid row is outstanding.
LEMMA NewBookShown ==
    ASSUME RowTyped,
           \/ Publish(NewBook, InvalidRow)
           \/ book' = NewBook /\ UNCHANGED rowVars /\ ~ last.valid
    PROVE  Shown(NewBook)
<1>1. InvalidRow \in RowType /\ ~ InvalidRow.valid
  BY IdFacts DEF InvalidRow, RowType
<1>2. CASE Publish(NewBook, InvalidRow)
  <2>1. published' = TRUE /\ last' = InvalidRow /\ book' = NewBook
    BY <1>2, NewBookChain DEF Publish
  <2>2. RowTyped' /\ RowStep
    BY <1>1, <2>1 DEF RowTyped, RowStep
  <2>3. QED
    BY <2>1, <2>2, NewBookTyped, NewBookChain DEF Shown
<1>3. CASE book' = NewBook /\ UNCHANGED rowVars /\ ~ last.valid
  <2>1. RowChain(NewBook, last)
    BY <1>3 DEF RowChain
  <2>2. QED
    BY <1>3, <2>1, NewBookTyped, NewBookChain, NotPublished
<1>4. QED
  BY <1>2, <1>3

\* maybePublish
LEMMA MaybePublished ==
    ASSUME NEW b \in BookType, Len(b.buf) <= BufferCap, BookChain(b), RowChain(b, last),
           RowTyped, MaybePublish(b)
    PROVE  Shown(b)
<1>1. Publish(b, GetQuote(b)) \/ (book' = b /\ UNCHANGED rowVars)
  BY DEF MaybePublish
<1>2. QED
  BY <1>1, NotPublished, QuotePublished

\* A shown book keeps the chain, when the rest of the step does.
LEMMA ShownChain ==
    ASSUME ChainInv, NEW b, Shown(b), phase = "read", phase' = "drain",
           ExchTyped', ReqTyped', WorkTyped', FaultsTyped',
           Behind(b, stream', IdOf(sent')),
           b.requested \/ b.refreshing => waiting'
    PROVE  ChainInv' /\ RowStep /\ DrainStep
<1>1. BookTyped' /\ RowTyped'
  BY DEF Shown, BookTyped
<1>2. Behind(book', stream', IdOf(sent'))
  <2>1. book'.buf = b.buf /\ book'.state = b.state /\ book'.seq = b.seq
    BY DEF Shown
  <2>2. QED
    BY <2>1 DEF Behind
<1>3. RequestWatched'
  BY DEF Shown, RequestWatched
<1>4. ChainInv'
  BY <1>1, <1>2, <1>3 DEF ChainInv, Typed, Shown
<1>5. RowStep /\ DrainStep
  BY DEF Shown, DrainStep
<1>6. QED
  BY <1>4, <1>5

\* requestSnapshot
LEMMA RequestTyped ==
    ASSUME ChainInv, RequestSnapshot
    PROVE  ReqTyped' /\ waiting'
<1>1. /\ nextId \in 0 .. MaxRequests /\ MaxRequests \in Nat /\ nextId < MaxRequests
      /\ requests \in Seq(1 .. MaxRequests) /\ Len(requests) <= QueueCap
  BY FhAssumption DEF ChainInv, Typed, ReqTyped, RequestSnapshot, FhAssumption
<1>2. nextId + 1 \in 1 .. MaxRequests
  BY <1>1
<1>3. requests' \in Seq(1 .. MaxRequests) /\ Len(requests') <= QueueCap
  BY <1>1, <1>2, PushTyped DEF RequestSnapshot
<1>4. nextId' = nextId + 1 /\ latestId' = nextId + 1 /\ waiting' = TRUE
  BY DEF RequestSnapshot
<1>5. nextId' \in 0 .. MaxRequests /\ latestId' \in 0 .. nextId' + 1 /\ latestId' = nextId'
  BY <1>1, <1>4
<1>6. waiting' \in BOOLEAN
  BY <1>4
<1>7. ReqTyped'
  BY <1>3, <1>5, <1>6 DEF ReqTyped
<1>8. QED
  BY <1>4, <1>7

\* The next event is behind the ones after it and ahead of the book.
LEMMA HeadFacts ==
    ASSUME ChainInv, stream # <<>>
    PROVE  /\ Head(stream) \in DeltaType /\ Head(stream).U <= Head(stream).u
           /\ stream \in Seq(DeltaType) /\ Tail(stream) \in Seq(DeltaType)
           /\ book.state = "VALID" => book.seq.lastId < Head(stream).U
           /\ \A m \in DOMAIN book.buf : book.buf[m].u < Head(stream).U
           /\ IdOf(sent) \in Nat
<1>1. stream \in Seq(DeltaType) /\ sent \in Nat
  BY DEF ChainInv, Typed, ExchTyped
<1>2. /\ Head(stream) \in DeltaType /\ Tail(stream) \in Seq(DeltaType)
      /\ Head(stream) = stream[1] /\ 1 \in DOMAIN stream
  BY <1>1, TailSeq
<1>3. Behind(book, stream, IdOf(sent))
  BY DEF ChainInv
<1>4. QED
  BY <1>1, <1>2, <1>3, IdFacts DEF Behind, InOrder

\* A step that takes the next event and comes to book b keeps the chain.
LEMMA ReceivedChain ==
    ASSUME ChainInv, Receive, NEW b, Shown(b), ReqTyped', FaultsTyped',
           b.requested \/ b.refreshing => waiting',
           \A m \in DOMAIN b.buf : \/ b.buf[m].u = Head(stream).u
                                   \/ \E n \in DOMAIN book.buf : b.buf[m] = book.buf[n],
           b.state = "VALID" => \/ b.seq.lastId = Head(stream).u
                                \/ book.state = "VALID" /\ b.seq.lastId = book.seq.lastId
    PROVE  ChainInv' /\ RowStep /\ DrainStep
<1>1. stream # <<>> /\ stream' = Tail(stream) /\ phase = "read" /\ phase' = "drain"
      /\ truth' = truth /\ sent' = sent /\ UNCHANGED workVars
  BY DEF Receive, Read
<1>2. stream \in Seq(DeltaType) /\ Tail(stream) \in Seq(DeltaType) /\ IdOf(sent) \in Nat
  BY <1>1, HeadFacts
<1>3. ExchTyped'
  BY <1>1, <1>2 DEF ChainInv, Typed, ExchTyped, Updates
<1>4. WorkTyped'
  BY <1>1, SameTyped DEF ChainInv, Typed
<1>5. Behind(book, stream, IdOf(sent))
  BY DEF ChainInv
<1>6. Behind(b, stream', IdOf(sent'))
  BY <1>1, <1>2, <1>5, BehindNext
<1>7. QED
  BY <1>1, <1>3, <1>4, <1>6, ShownChain

\* handleDelta in state INIT
LEMMA BufferMessageChain ==
    ASSUME ChainInv, Receive, FaultsTyped', NEW d \in DeltaType,
           d.U = Head(stream).U, d.u = Head(stream).u, BufferMessage(d)
    PROVE  ChainInv' /\ RowStep /\ DrainStep
<1> DEFINE b == BufferDelta(book, d)
           y == [b EXCEPT !.requested = TRUE]
<1>1. /\ book \in BookType /\ Len(book.buf) <= BufferCap /\ BookChain(book)
      /\ book.state = "INIT" /\ RowTyped /\ RowChain(book, last) /\ stream # <<>>
  BY DEF ChainInv, Typed, BookTyped, BufferMessage, Receive
<1>2. Chained(book.buf) /\ ~ book.refreshing /\ ~ book.shadow.pending /\ book.rangeClosed
  BY <1>1 DEF BookChain, Chained
<1>3. d.U <= d.u /\ \A m \in DOMAIN book.buf : book.buf[m].u < d.U
  BY <1>1, HeadFacts
<1>4. /\ Chained(b.buf)
      /\ \A m \in DOMAIN b.buf : b.buf[m] = d \/ \E n \in DOMAIN book.buf : b.buf[m] = book.buf[n]
  BY <1>1, <1>2, <1>3, BufferChained
<1>5. b \in BookType /\ b = [book EXCEPT !.buf = b.buf] /\ Len(b.buf) <= BufferCap
  BY <1>1, BufferDeltaTyped
<1>6. /\ \/ book' = b /\ UNCHANGED reqVars
         \/ RequestSnapshot /\ book' = y
      /\ UNCHANGED rowVars
  BY DEF BufferMessage
<1> HIDE DEF b
<1>7. /\ b.state = "INIT" /\ ~ b.refreshing /\ ~ b.shadow.pending /\ b.rangeClosed
      /\ b.requested = book.requested
  BY <1>1, <1>2, <1>5 DEF BookType
<1>8. /\ y \in BookType /\ y.buf = b.buf /\ y.state = "INIT" /\ ~ y.refreshing
      /\ ~ y.shadow.pending /\ y.rangeClosed
  BY <1>5, <1>7 DEF BookType
<1> HIDE DEF y
<1>9. ASSUME NEW x \in BookType, x.state = "INIT", ~ x.refreshing, ~ x.shadow.pending,
             x.rangeClosed, x.buf = b.buf, book' = x, ReqTyped', x.requested => waiting'
      PROVE  ChainInv' /\ RowStep /\ DrainStep
  <2>1. BookChain(x)
    BY <1>4, <1>9 DEF BookChain, Chained
  <2>2. RowChain(x, last)
    BY <1>1 DEF RowChain
  <2>3. Shown(x)
    BY <1>1, <1>5, <1>6, <1>9, <2>1, <2>2, NotPublished
  <2>4. \A m \in DOMAIN x.buf : \/ x.buf[m].u = Head(stream).u
                                \/ \E n \in DOMAIN book.buf : x.buf[m] = book.buf[n]
    BY <1>4, <1>9
  <2>5. QED
    BY <1>9, <2>3, <2>4, ReceivedChain
<1>10. CASE book' = b /\ UNCHANGED reqVars
  <2>1. ReqTyped' /\ waiting' = waiting
    BY <1>10, SameTyped DEF ChainInv, Typed, reqVars
  <2>2. b.requested => waiting'
    BY <1>7, <2>1 DEF ChainInv, RequestWatched
  <2>3. QED
    BY <1>5, <1>7, <1>9, <1>10, <2>1, <2>2
<1>11. CASE RequestSnapshot /\ book' = y
  <2>1. ReqTyped' /\ waiting'
    BY <1>11, RequestTyped
  <2>2. QED
    BY <1>8, <1>9, <1>11, <2>1
<1>12. QED
  BY <1>6, <1>10, <1>11

\* handleDelta on a gap, and in state INVALID: start over
LEMMA StartOverChain ==
    ASSUME ChainInv, Receive, FaultsTyped', UNCHANGED reqVars,
           \/ Publish(NewBook, InvalidRow)
           \/ book' = NewBook /\ UNCHANGED rowVars /\ book.state = "INVALID"
    PROVE  ChainInv' /\ RowStep /\ DrainStep
<1>1. RowTyped /\ RowChain(book, last)
  BY DEF ChainInv, Typed
<1>2. book.state = "INVALID" => ~ last.valid
  BY <1>1 DEF RowChain
<1>3. Shown(NewBook)
  BY <1>1, <1>2, NewBookShown
<1>4. NewBook.state = "INIT" /\ NewBook.buf = <<>> /\ ~ NewBook.requested /\ ~ NewBook.refreshing
  BY DEF NewBook
<1>5. \A m \in DOMAIN NewBook.buf : FALSE
  BY <1>4
<1>6. ReqTyped'
  BY SameTyped DEF ChainInv, Typed
<1>7. QED
  BY <1>3, <1>4, <1>5, <1>6, ReceivedChain

\* handleDelta of an event that fits
LEMMA ApplyMessageChain ==
    ASSUME ChainInv, Receive, FaultsTyped', NEW d \in DeltaType,
           d.U = Head(stream).U, d.u = Head(stream).u, ApplyMessage(d)
    PROVE  ChainInv' /\ RowStep /\ DrainStep
<1> DEFINE b == ApplyDelta(book, d)
           y == BeginRefresh(b)
<1>1. /\ book \in BookType /\ Len(book.buf) <= BufferCap /\ BookChain(book)
      /\ book.state \in {"SYNCING", "VALID"} /\ RowTyped /\ RowChain(book, last)
      /\ stream # <<>> /\ last \in RowType
  BY DEF ChainInv, Typed, BookTyped, RowTyped, ApplyMessage, Receive
<1>2. /\ d.U <= d.u /\ \A m \in DOMAIN book.buf : book.buf[m].u < d.U
      /\ book.state = "VALID" => book.seq.lastId < d.U
  BY <1>1, HeadFacts
<1>3. /\ b.state # "INVALID"
      /\ \/ book' = b /\ UNCHANGED <<rowVars, reqVars>>
         \/ MaybePublish(b) /\ UNCHANGED reqVars
         \/ WantsRefresh(b) /\ RequestSnapshot /\ MaybePublish(y)
  BY DEF ApplyMessage
<1>4. /\ b \in BookType /\ Len(b.buf) <= BufferCap /\ BookChain(b) /\ RowChain(b, last)
      /\ b.requested = book.requested /\ b.refreshing = book.refreshing
      /\ b.state \in {"SYNCING", "VALID"}
      /\ b.state = "VALID" => b.seq.lastId = d.u
      /\ \A m \in DOMAIN b.buf : b.buf[m] = d \/ \E n \in DOMAIN book.buf : b.buf[m] = book.buf[n]
  BY <1>1, <1>2, <1>3, EventChain
<1> HIDE DEF b
<1>5. b.requested \/ b.refreshing => waiting
  BY <1>4 DEF ChainInv, RequestWatched
<1>6. ASSUME NEW x, Shown(x), ReqTyped', x.requested \/ x.refreshing => waiting',
             x.buf = b.buf \/ x.buf = <<>>, x.state = b.state, x.seq = b.seq
      PROVE  ChainInv' /\ RowStep /\ DrainStep
  <2>1. \A m \in DOMAIN x.buf : \/ x.buf[m].u = Head(stream).u
                                \/ \E n \in DOMAIN book.buf : x.buf[m] = book.buf[n]
    BY <1>4, <1>6
  <2>2. x.state = "VALID" => x.seq.lastId = Head(stream).u
    BY <1>4, <1>6
  <2>3. QED
    BY <1>6, <2>1, <2>2, ReceivedChain
<1>7. CASE UNCHANGED reqVars /\ ((book' = b /\ UNCHANGED rowVars) \/ MaybePublish(b))
  <2>1. Shown(b)
    BY <1>1, <1>4, <1>7, NotPublished, MaybePublished
  <2>2. ReqTyped' /\ waiting' = waiting
    BY <1>7, SameTyped DEF ChainInv, Typed, reqVars
  <2>3. QED
    BY <1>5, <1>6, <2>1, <2>2
<1>8. CASE WantsRefresh(b) /\ RequestSnapshot /\ MaybePublish(y)
  <2>1. b.state = "VALID" /\ ~ b.shadow.pending
    BY <1>8 DEF WantsRefresh
  <2>2. /\ y.state = "VALID" /\ y.seq = b.seq /\ y.buf = <<>> /\ y.requested /\ y.refreshing
        /\ y.shadow = b.shadow /\ y.firstU = b.firstU /\ y.prevU = b.prevU
        /\ y.rangeClosed = b.rangeClosed
    BY <1>4, <2>1 DEF BeginRefresh, BookType
  <2>3. y \in BookType /\ Len(y.buf) <= BufferCap
    <3>1. <<>> \in Seq(DeltaType) /\ Len(<<>>) = 0 /\ 0 <= BufferCap
      BY BookAssumption DEF BookAssumption
    <3>2. y \in BookType
      BY <1>4, <3>1 DEF BeginRefresh, BookType
    <3>3. QED
      BY <2>2, <3>1, <3>2
  <2> HIDE DEF y
  <2>4. BookChain(y)
    <3>1. \A m \in DOMAIN y.buf : FALSE
      BY <2>2
    <3>2. QED
      BY <1>4, <2>1, <2>2, <3>1 DEF BookChain
  <2>5. RowChain(y, last)
    BY <1>4, <2>1, <2>2 DEF RowChain
  <2>6. Shown(y)
    BY <1>1, <1>8, <2>3, <2>4, <2>5, MaybePublished
  <2>7. ReqTyped' /\ waiting'
    BY <1>8, RequestTyped
  <2>8. QED
    BY <1>6, <2>1, <2>2, <2>6, <2>7
<1>9. QED
  BY <1>3, <1>7, <1>8

\* handleDelta
LEMMA HandleDeltaChain ==
    ASSUME ChainInv, Receive, FaultsTyped', NEW d \in DeltaType,
           d.U = Head(stream).U, d.u = Head(stream).u, HandleDelta(d)
    PROVE  ChainInv' /\ RowStep /\ DrainStep
<1>1. CASE BufferMessage(d)
  BY <1>1, BufferMessageChain
<1>2. CASE LoseSequence(d)
  BY <1>2, StartOverChain DEF LoseSequence
<1>3. CASE ApplyMessage(d)
  BY <1>3, ApplyMessageChain
<1>4. CASE DiscardMessage
  BY <1>4, StartOverChain DEF DiscardMessage, rowVars, reqVars
<1>5. QED
  BY <1>1, <1>2, <1>3, <1>4 DEF HandleDelta

\* The handler reads an event.
LEMMA ReadDeltaChain ==
    ASSUME ChainInv, ReadDelta
    PROVE  ChainInv' /\ RowStep /\ DrainStep
<1>1. stream # <<>> /\ FaultsTyped'
  BY SameTyped DEF ReadDelta, Receive, ChainInv, Typed
<1>2. Head(stream) \in DeltaType
  BY <1>1, HeadFacts
<1>3. QED
  BY <1>1, <1>2, HandleDeltaChain DEF ReadDelta

\* An event one of whose levels cannot be parsed.
LEMMA ReadDeltaBadLevelChain ==
    ASSUME ChainInv, ReadDeltaBadLevel
    PROVE  ChainInv' /\ RowStep /\ DrainStep
<1> DEFINE d == Head(stream)
           e(p) == [d EXCEPT !.gone = @ \ {p}, !.there = @ \ {p}]
<1>1. stream # <<>> /\ Receive
  BY DEF ReadDeltaBadLevel, Receive
<1>2. "level" \in FaultKinds
  BY DEF FaultKinds
<1>3. FaultsTyped'
  BY <1>2, FaultTyped DEF ReadDeltaBadLevel, ChainInv, Typed
<1>4. d \in DeltaType
  BY <1>1, HeadFacts
<1>5. PICK p : HandleDelta(e(p))
  BY DEF ReadDeltaBadLevel
<1> HIDE DEF d
<1>6. e(p) \in DeltaType /\ e(p).U = d.U /\ e(p).u = d.u
  BY <1>4 DEF DeltaType
<1> HIDE DEF e
<1>7. e(p).U = Head(stream).U /\ e(p).u = Head(stream).u
  BY <1>6 DEF d
<1>8. QED
  BY <1>1, <1>3, <1>5, <1>6, <1>7, HandleDeltaChain

\* A heartbeat shows the book as it is.
LEMMA HeartbeatShown ==
    ASSUME ChainInv, Heartbeat
    PROVE  Shown(book)
<1>1. /\ book \in BookType /\ Len(book.buf) <= BufferCap /\ BookChain(book)
      /\ RowTyped /\ RowChain(book, last)
  BY DEF ChainInv, Typed, BookTyped
<1>2. CASE UNCHANGED <<book, rowVars>>
  BY <1>1, <1>2, NotPublished
<1>3. CASE Publish(book, GetQuote(book))
  BY <1>1, <1>3, QuotePublished
<1>4. QED
  BY <1>2, <1>3 DEF Heartbeat

\* A message is lost.
LEMMA LoseMessageChain ==
    ASSUME ChainInv, LoseMessage
    PROVE  ChainInv' /\ RowStep /\ DrainStep
<1>1. "message" \in FaultKinds
  BY DEF FaultKinds
<1>2. FaultsTyped'
  BY <1>1, FaultTyped DEF LoseMessage, ChainInv, Typed
<1>3. Shown(book)
  BY HeartbeatShown DEF LoseMessage
<1>4. ReqTyped' /\ waiting' = waiting
  BY SameTyped DEF LoseMessage, ChainInv, Typed, reqVars
<1>5. book.requested \/ book.refreshing => waiting'
  BY <1>4 DEF ChainInv, RequestWatched
<1>6. QED
  BY <1>2, <1>3, <1>4, <1>5, ReceivedChain DEF LoseMessage

\* A message of another symbol.
LEMMA ReadOtherChain ==
    ASSUME ChainInv, ReadOther
    PROVE  ChainInv' /\ RowStep /\ DrainStep
<1>1. /\ UNCHANGED exchVars /\ UNCHANGED reqVars /\ UNCHANGED workVars /\ UNCHANGED faults
      /\ phase = "read" /\ phase' = "drain"
  BY DEF ReadOther, Read
<1>2. ExchTyped' /\ ReqTyped' /\ WorkTyped' /\ FaultsTyped'
  BY <1>1, SameTyped DEF ChainInv, Typed
<1>3. Shown(book)
  BY HeartbeatShown DEF ReadOther
<1>4. stream' = stream /\ sent' = sent /\ waiting' = waiting
  BY <1>1 DEF exchVars, reqVars
<1>5. Behind(book, stream', IdOf(sent'))
  BY <1>4 DEF ChainInv
<1>6. book.requested \/ book.refreshing => waiting'
  BY <1>4 DEF ChainInv, RequestWatched
<1>7. QED
  BY <1>1, <1>2, <1>3, <1>5, <1>6, ShownChain

\* The connection breaks.
LEMMA ReconnectChain ==
    ASSUME ChainInv, Reconnect
    PROVE  ChainInv' /\ RowStep /\ DrainStep
<1>1. "connection" \in FaultKinds
  BY DEF FaultKinds
<1>2. FaultsTyped'
  BY <1>1, FaultTyped DEF Reconnect, ChainInv, Typed
<1>3. RowTyped /\ ExchTyped /\ ReqTyped /\ WorkTyped
  BY DEF ChainInv, Typed
<1>4. Shown(NewBook)
  <2>1. CASE published /\ last.valid
    BY <1>3, <2>1, NewBookShown DEF Reconnect
  <2>2. CASE ~ (published /\ last.valid)
    <3>1. ~ last.valid
      BY <1>3, <2>2 DEF RowTyped
    <3>2. QED
      BY <1>3, <2>2, <3>1, NewBookShown DEF Reconnect
  <2>3. QED
    BY <2>1, <2>2
<1>5. ReqTyped'
  <2>1. waiting' = FALSE /\ latestId' = (IF waiting THEN latestId + 1 ELSE latestId)
        /\ nextId' = nextId /\ requests' = requests
    BY DEF Reconnect
  <2>2. latestId' \in 0 .. nextId + 1
    BY <2>1, HandlerGood
  <2>3. waiting' \in BOOLEAN /\ ~ waiting'
    BY <2>1
  <2>4. QED
    BY <1>3, <2>1, <2>2, <2>3 DEF ReqTyped
<1>6. WorkTyped'
  BY <1>3, SameTyped DEF Reconnect
<1>7. ExchTyped'
  <2>1. <<>> \in Seq(DeltaType)
    OBVIOUS
  <2>2. truth' = truth /\ sent' \in sent .. Updates /\ stream' = <<>>
    BY DEF Reconnect
  <2>3. sent' \in 0 .. Updates
    BY <1>3, <2>2 DEF ExchTyped
  <2>4. QED
    BY <1>3, <2>1, <2>2, <2>3 DEF ExchTyped, Updates
<1>8. Behind(NewBook, stream', IdOf(sent'))
  <2>1. DOMAIN stream' = {}
    BY DEF Reconnect
  <2>2. InOrder(stream', IdOf(sent'))
    BY <2>1 DEF InOrder
  <2>3. QED
    BY <2>2, NewBookChain
<1>9. QED
  BY <1>2, <1>4, <1>5, <1>6, <1>7, <1>8, NewBookChain, ShownChain DEF Reconnect

-----------------------------------------------------------------------------
(* What follows from the chain *)

\* Every step keeps the chain.
LEMMA ChainNext ==
    ASSUME ChainInv, [Next]_vars
    PROVE  ChainInv' /\ RowStep /\ DrainStep
<1>1. CASE UNCHANGED vars
  <2>1. UNCHANGED <<phase, book, rowVars, waiting>> /\ UNCHANGED exchVars /\ UNCHANGED reqVars
        /\ UNCHANGED workVars /\ UNCHANGED faults
    BY <1>1 DEF vars, reqVars
  <2>2. Behind(book, stream', IdOf(sent'))
    BY <2>1 DEF ChainInv, exchVars
  <2>3. QED
    BY <2>1, <2>2, SameTyped, OutsideHandler DEF ChainInv, Typed
<1>2. CASE Next
  BY <1>2, ChangeChain, EmitChain, WorkerTakesChain, WorkerAnswersChain,
     WorkerAnswersBadLevelChain, WorkerFailsChain, PushedOutChain, DrainChain,
     DrainTimeoutChain, ReadDeltaChain, ReadDeltaBadLevelChain, LoseMessageChain,
     ReadOtherChain, ReconnectChain DEF Next
<1>3. QED
  BY <1>1, <1>2

\* A quote handler is on the stream's chain at all times: its types, the order
\* of the events on their way and in the buffer, and how the last row joins the
\* book (quote_feed_handler.cpp, order_book_manager.hpp).
THEOREM QuoteChain == Spec => []ChainInv
<1>1. Init => ChainInv
  BY ChainInit
<1>2. ChainInv /\ [Next]_vars => ChainInv'
  BY ChainNext
<1>3. QED
  BY <1>1, <1>2, PTL DEF Spec

\* The variables keep their types: the buffer and the queues stay within their
\* capacities (order_book_manager.hpp:333-341, snapshot_worker.hpp:69-80), and a
\* request id is never ahead of the worker's by more than the one a timeout skips.
THEOREM QuoteTyped == Spec => []TypeOK
<1>1. ChainInv => TypeOK
  <2> SUFFICES ASSUME ChainInv PROVE TypeOK
    OBVIOUS
  <2>1. Typed
    BY DEF ChainInv
  <2>2. BookOK
    BY <2>1 DEF Typed, BookTyped, BookType, BookOK, ShadowType
  <2>3. latestId \in 0 .. MaxRequests + 1
    BY <2>1, FhAssumption DEF Typed, ReqTyped, FhAssumption
  <2>4. \A f \in FaultKinds : faults[f] \in 0 .. MaxFaults[f]
    BY <2>1, FhAssumption DEF Typed, FaultsTyped, FhAssumption
  <2>5. last \in [valid : BOOLEAN, top : SUBSET Prices, U : Ids, u : Ids, pu : Ids]
    BY <2>1 DEF Typed, RowTyped, RowType
  <2>6. QED
    BY <2>1, <2>2, <2>3, <2>4, <2>5
       DEF Typed, TypeOK, ExchTyped, BookTyped, RowTyped, ReqTyped, WorkTyped
<1>2. QED
  BY <1>1, QuoteChain, PTL

\* A symbol that waits for a snapshot or refreshes is watched by the timeout
\* (quote_feed_handler.cpp:529-531).
THEOREM RequestsWatched == Spec => []RequestWatched
<1>1. ChainInv => RequestWatched
  BY DEF ChainInv
<1>2. QED
  BY <1>1, QuoteChain, PTL

\* The worker's results never move the update id of a valid book nor end its
\* validity, so a background refresh cannot break the stored stream
\* (order_book_manager.hpp:463-465, 374-377).
THEOREM RefreshStaysOnChain == Spec => RefreshKeepsChain
<1>1. ChainInv /\ [Next]_vars => DrainStep
  BY ChainNext
<1>2. QED
  BY <1>1, QuoteChain, PTL DEF Spec, RefreshKeepsChain, DrainStep

\* Stored quotes have no unmarked break: a valid row after a valid row continues
\* its update ids or repeats them, whatever was lost on the way
\* (kdb/utils/check_quote_seq.q:13-29).
THEOREM RowsContinue == Spec => NoUnmarkedBreak
<1>1. ChainInv /\ [Next]_vars => RowStep
  BY ChainNext
<1>2. QED
  BY <1>1, QuoteChain, PTL DEF Spec, NoUnmarkedBreak, RowStep

-----------------------------------------------------------------------------
(* The book is the exchange's *)

\* The books of a history are sets of prices.
LEMMA HistoryBook ==
    ASSUME NEW tr \in Seq(Books), NEW k \in 0 .. Len(tr) - 1
    PROVE  tr[k + 1] \in SUBSET Prices
<1>1. k + 1 \in 1 .. Len(tr)
  OBVIOUS
<1>2. tr[k + 1] \in Books
  BY <1>1, ElementSeq
<1>3. QED
  BY <1>2, FhAssumption DEF FhAssumption

\* The event for updates i to j takes the book after any of them, or the one
\* before, to the book after j.
LEMMA DeltaGenuine ==
    ASSUME ExchTyped, NEW i \in 1 .. Updates, NEW j \in i .. Updates
    PROVE  Genuine(Delta(i, j), truth)
<1> DEFINE d == Delta(i, j)
           touched == {p \in Prices : \E m \in i .. j : (p \in truth[m]) # (p \in truth[m + 1])}
<1>1. truth \in Seq(Books) /\ Len(truth) \in Nat /\ Updates = Len(truth) - 1
  BY DEF ExchTyped, Updates
<1>2. d.gone = touched \ truth[j + 1] /\ d.there = touched \cap truth[j + 1]
  BY DEF Delta
<1>3. d.U = IdOf(i) /\ d.u = IdOf(j) /\ d.pu = IdOf(i - 1)
  BY DeltaTyped
<1> HIDE DEF d
<1>4. ASSUME NEW k \in i - 1 .. j
      PROVE  After(truth[k + 1], d) = truth[j + 1]
  <2>1. k \in 0 .. Len(truth) - 1 /\ j \in 0 .. Len(truth) - 1
    BY <1>1, <1>4
  <2>2. truth[k + 1] \subseteq Prices /\ truth[j + 1] \subseteq Prices
    BY <1>1, <2>1, HistoryBook
  <2>3. ASSUME NEW p \in Prices, p \notin touched
        PROVE  (p \in truth[k + 1]) = (p \in truth[j + 1])
    <3> DEFINE S == {m \in Nat : m <= j - k =>
                                  (p \in truth[j + 1 - m]) = (p \in truth[j + 1])}
    <3>1. 0 \in S
      BY <1>1
    <3>2. ASSUME NEW m \in Nat, m \in S
          PROVE  m + 1 \in S
      <4> SUFFICES ASSUME m + 1 <= j - k
                   PROVE  (p \in truth[j + 1 - (m + 1)]) = (p \in truth[j + 1])
        OBVIOUS
      <4>1. m <= j - k /\ j - m \in i .. j /\ j + 1 - m = j - m + 1 /\ j + 1 - (m + 1) = j - m
        BY <1>1, <1>4
      <4>2. (p \in truth[j - m]) = (p \in truth[j - m + 1])
        BY <2>3, <4>1
      <4>3. (p \in truth[j + 1 - m]) = (p \in truth[j + 1])
        BY <3>2, <4>1
      <4>4. QED
        BY <4>1, <4>2, <4>3
    <3> HIDE DEF S
    <3>3. Nat \subseteq S
      BY <3>1, <3>2, SetInduction
    <3>4. j - k \in Nat /\ j + 1 - (j - k) = k + 1
      BY <1>1, <1>4
    <3>5. j - k \in S
      BY <3>3, <3>4
    <3>6. QED
      BY <3>4, <3>5 DEF S
  <2> HIDE DEF touched
  <2>4. QED
    BY <1>2, <2>2, <2>3 DEF After
<1>5. Covers(d, truth, i, j)
  BY <1>3, <1>4 DEF Covers
<1>6. i \in 1 .. Len(truth) - 1 /\ j \in 1 .. Len(truth) - 1 /\ i <= j
  BY <1>1
<1>7. QED
  BY <1>5, <1>6 DEF Genuine, d

\* The history tr is a beginning of ts.
Begins(tr, ts) == Len(tr) <= Len(ts) /\ \A k \in 1 .. Len(tr) : ts[k] = tr[k]

\* What is exact for a history stays so when it goes on.
LEMMA ExactLater ==
    ASSUME NEW tr \in Seq(Books), NEW ts \in Seq(Books), Begins(tr, ts)
    PROVE  /\ \A d : Genuine(d, tr) => Genuine(d, ts)
           /\ \A s, id : SideAt(s, id, tr) => SideAt(s, id, ts)
           /\ \A b : ExactBook(b, tr) => ExactBook(b, ts)
           /\ \A r : ExactResult(r, tr) => ExactResult(r, ts)
           /\ \A r : ExactRow(r, tr) => ExactRow(r, ts)
<1>1. Len(tr) \in Nat /\ Len(ts) \in Nat /\ Len(tr) <= Len(ts)
  BY DEF Begins
<1>2. ASSUME NEW k \in 0 .. Len(tr) - 1
      PROVE  k \in 0 .. Len(ts) - 1 /\ ts[k + 1] = tr[k + 1]
  BY <1>1 DEF Begins
<1>3. ASSUME NEW d, Genuine(d, tr)
      PROVE  Genuine(d, ts)
  <2>1. PICK i \in 1 .. Len(tr) - 1, j \in 1 .. Len(tr) - 1 : i <= j /\ Covers(d, tr, i, j)
    BY <1>3 DEF Genuine
  <2>2. ASSUME NEW k \in i - 1 .. j
        PROVE  After(ts[k + 1], d) = ts[j + 1]
    <3>1. k \in 0 .. Len(tr) - 1 /\ j \in 0 .. Len(tr) - 1
      BY <1>1, <2>1
    <3>2. After(tr[k + 1], d) = tr[j + 1]
      BY <2>1 DEF Covers
    <3>3. QED
      BY <1>2, <3>1, <3>2
  <2>3. Covers(d, ts, i, j)
    BY <2>1, <2>2 DEF Covers
  <2>4. i \in 1 .. Len(ts) - 1 /\ j \in 1 .. Len(ts) - 1
    BY <1>1
  <2>5. QED
    BY <2>1, <2>3, <2>4 DEF Genuine
<1>4. ASSUME NEW s, NEW id, SideAt(s, id, tr)
      PROVE  SideAt(s, id, ts)
  BY <1>2, <1>4 DEF SideAt
<1>5. ASSUME NEW b, ExactBook(b, tr)
      PROVE  ExactBook(b, ts)
  BY <1>3, <1>4, <1>5 DEF ExactBook
<1>6. ASSUME NEW r, ExactResult(r, tr)
      PROVE  ExactResult(r, ts)
  BY <1>2, <1>6 DEF ExactResult
<1>7. ASSUME NEW r, ExactRow(r, tr)
      PROVE  ExactRow(r, ts)
  BY <1>2, <1>7 DEF ExactRow
<1>8. QED
  BY <1>3, <1>4, <1>5, <1>6, <1>7

\* An event that the sequence rule accepts takes the exchange's side at the
\* update of the sequencing state to the one at the end of the event.
LEMMA AppliesExactly ==
    ASSUME NEW tr \in Seq(Books), NEW d \in DeltaType, Genuine(d, tr),
           NEW q \in SeqType, q.needBridge => q.snapshotId = q.lastId,
           NEW s \in SideType, SideAt(s, q.lastId, tr), CheckSequence(q, d) = "apply"
    PROVE  SideAt(ApplyLevels(s, d), d.u, tr)
<1>1. PICK i \in 1 .. Len(tr) - 1, j \in 1 .. Len(tr) - 1 : i <= j /\ Covers(d, tr, i, j)
  BY DEF Genuine
<1>2. PICK k \in 0 .. Len(tr) - 1 : q.lastId = IdOf(k) /\ Exact(s, tr[k + 1])
  BY DEF SideAt
<1>3. i \in Nat /\ j \in Nat /\ k \in Nat /\ i - 1 \in Nat
  BY <1>1, <1>2
<1>4. d.U = IdOf(i) /\ d.u = IdOf(j) /\ d.pu = IdOf(i - 1)
  BY <1>1 DEF Covers
<1>5. IdOf(i) \in Nat /\ IdOf(j) \in Nat /\ IdOf(k) \in Nat
  BY <1>3, IdFacts
<1>6. k \in i - 1 .. j
  <2>1. /\ Sync = "futures" => d.pu = IdOf(k) \/ (q.needBridge /\ d.U <= IdOf(k) /\ IdOf(k) <= d.u)
        /\ Sync = "spot" => d.U <= IdOf(k) + 1 /\ IdOf(k) <= d.u
    <3>1. IdOf(k) = IF q.needBridge THEN q.snapshotId ELSE q.lastId
      BY <1>2
    <3>2. QED
      BY <1>4, <1>5, <3>1, CheckSequenceApplies
  <2>2. CASE Sync = "futures"
    BY <1>1, <1>3, <1>4, <2>1, <2>2 DEF IdOf
  <2>3. CASE Sync = "spot"
    BY <1>1, <1>3, <1>4, <2>1, <2>3 DEF IdOf
  <2>4. QED
    BY <2>2, <2>3, BookAssumption DEF BookAssumption
<1>7. After(tr[k + 1], d) = tr[j + 1]
  BY <1>1, <1>6 DEF Covers
<1>8. s \in Sides /\ d.gone \in SUBSET Prices /\ d.there \in SUBSET Prices
  BY DEF SideType, Sides, DeltaType
<1>9. tr[k + 1] \in SUBSET Prices
  BY HistoryBook
<1>10. Exact(ApplyLevels(s, d), tr[j + 1])
  BY <1>2, <1>7, <1>8, <1>9, ApplyLevelsExact
<1>11. j \in 0 .. Len(tr) - 1
  BY <1>1
<1>12. QED
  BY <1>4, <1>10, <1>11 DEF SideAt

\* A snapshot with the exchange's best levels loads as the exchange's side.
LEMMA LoadsExactly ==
    ASSUME NEW tr \in Seq(Books), NEW k \in 0 .. Len(tr) - 1,
           NEW snap \in SnapshotType, snap.id = IdOf(k),
           snap.levels = Best(tr[k + 1], SnapshotLimit)
    PROVE  SideAt(Load(snap), snap.id, tr)
<1>1. tr[k + 1] \in SUBSET Prices
  BY HistoryBook
<1>2. Exact(Load(snap), tr[k + 1])
  BY <1>1, LoadExact
<1>3. QED
  BY <1>2 DEF SideAt

\* The buffer holds what it held, and the new event.
LEMMA BufferGenuine ==
    ASSUME NEW b \in BookType, NEW d \in DeltaType, NEW tr, Genuine(d, tr),
           \A m \in DOMAIN b.buf : Genuine(b.buf[m], tr)
    PROVE  \A m \in DOMAIN BufferDelta(b, d).buf : Genuine(BufferDelta(b, d).buf[m], tr)
<1> DEFINE q == b.buf
           N == Len(q)
           a == Append(q, d)
           x == BufferDelta(b, d).buf
<1>1. q \in Seq(DeltaType) /\ N \in Nat /\ DOMAIN q = 1 .. N
  BY DEF BookType
<1>2. \A m \in 1 .. N : Genuine(q[m], tr)
  BY <1>1
<1>3. x = a \/ x = Tail(a)
  BY BufferDeltaTyped
<1> HIDE DEF q, x
<1>4. /\ a \in Seq(DeltaType) /\ Len(a) = N + 1
      /\ \A i \in 1 .. N : a[i] = q[i]
      /\ a[N + 1] = d
  BY <1>1, AppendSeq
<1> HIDE DEF a
<1>5. \A m \in 1 .. N + 1 : Genuine(a[m], tr)
  <2>1. TAKE m \in 1 .. N + 1
  <2>2. m = N + 1 \/ m \in 1 .. N
    BY <1>1
  <2>3. QED
    BY <1>2, <1>4, <2>2
<1>6. a # <<>>
  BY <1>1, <1>4
<1>7. /\ Tail(a) \in Seq(DeltaType) /\ Len(Tail(a)) = N
      /\ \A i \in 1 .. N : Tail(a)[i] = a[i + 1]
  BY <1>1, <1>4, <1>6, TailSeq
<1>8. \A m \in DOMAIN x : Genuine(x[m], tr)
  <2>1. CASE x = a
    BY <1>4, <1>5, <2>1
  <2>2. CASE x = Tail(a)
    <3>1. TAKE m \in DOMAIN x
    <3>2. m \in 1 .. N /\ m + 1 \in 1 .. N + 1
      BY <1>1, <1>7, <2>2
    <3>3. QED
      BY <1>5, <1>7, <2>2, <3>2
  <2>3. QED
    BY <1>3, <2>1, <2>2
<1>9. QED
  BY <1>8 DEF x

\* An event that applyDelta takes, skips or rejects leaves the book exact.
LEMMA EventExact ==
    ASSUME NEW b \in BookType, NEW d \in DeltaType,
           b.state = "VALID" => ~ b.seq.needBridge /\ b.seq.lastId < d.U,
           b.state = "SYNCING" => b.seq.needBridge /\ ~ b.refreshing /\ ~ b.shadow.pending,
           b.state \in {"SYNCING", "VALID"}, d.U <= d.u,
           NEW tr \in Seq(Books), Genuine(d, tr), ExactBook(b, tr)
    PROVE  ExactBook(ApplyDelta(b, d), tr)
<1> DEFINE x == ApplyDelta(b, d)
<1>1. \/ x = [b EXCEPT !.state = "INVALID"]
      \/ b.state = "SYNCING" /\ x = b
      \/ TookEvent(b, d, x)
  BY ApplyDeltaStep
<1>2. /\ b.side \in SideType /\ b.seq \in SeqType
      /\ b.shadow.side \in SideType /\ b.shadow.seq \in SeqType
  BY DEF BookType, ShadowType
<1> SUFFICES ExactBook(x, tr)
  OBVIOUS
<1> HIDE DEF x
<1>3. CASE x = [b EXCEPT !.state = "INVALID"]
  <2>1. x.state = "INVALID" /\ x.buf = b.buf /\ x.shadow = b.shadow
    BY <1>3 DEF BookType
  <2>2. QED
    BY <2>1 DEF ExactBook
<1>4. CASE x = b
  BY <1>4
<1>5. CASE TookEvent(b, d, x)
  <2>1. SideAt(x.side, d.u, tr)
    <3>1. CASE x.side = ApplyLevels(b.side, d)
      <4>1. SideAt(b.side, b.seq.lastId, tr) /\ (b.seq.needBridge => b.seq.snapshotId = b.seq.lastId)
        BY DEF ExactBook
      <4>2. CheckSequence(b.seq, d) = "apply"
        BY <1>5 DEF TookEvent
      <4>3. QED
        BY <1>2, <3>1, <4>1, <4>2, AppliesExactly
    <3>2. CASE /\ b.shadow.pending
               /\ CheckSequence(b.shadow.seq, d) = "apply"
               /\ x.side = ApplyLevels(b.shadow.side, d)
      <4>1. /\ SideAt(b.shadow.side, b.shadow.seq.lastId, tr)
            /\ b.shadow.seq.needBridge => b.shadow.seq.snapshotId = b.shadow.seq.lastId
        BY <3>2 DEF ExactBook
      <4>2. QED
        BY <1>2, <3>2, <4>1, AppliesExactly
    <3>3. QED
      BY <1>5, <3>1, <3>2 DEF TookEvent
  <2>2. x.seq.lastId = d.u /\ ~ x.seq.needBridge
    BY <1>5 DEF TookEvent
  <2>3. x.shadow.pending => b.shadow.pending /\ x.shadow = b.shadow
    BY <1>5 DEF TookEvent
  <2>4. \A m \in DOMAIN x.buf : Genuine(x.buf[m], tr)
    <3> DEFINE y == TakeEvent(b, d)
    <3>1. y \in BookType /\ y.buf = b.buf
      BY TakeEventTyped
    <3>2. x.buf = b.buf \/ x.buf = BufferDelta(y, d).buf
      BY <1>5 DEF TookEvent
    <3> HIDE DEF y
    <3>3. \A m \in DOMAIN b.buf : Genuine(b.buf[m], tr)
      BY DEF ExactBook
    <3>4. \A m \in DOMAIN BufferDelta(y, d).buf : Genuine(BufferDelta(y, d).buf[m], tr)
      BY <3>1, <3>3, BufferGenuine
    <3>5. QED
      BY <3>2, <3>3, <3>4
  <2>5. QED
    BY <2>1, <2>2, <2>3, <2>4 DEF ExactBook
<1>6. QED
  BY <1>1, <1>3, <1>4, <1>5

\* The replay of one event.
LEMMA ReplayExact ==
    ASSUME NEW q \in Seq(DeltaType), Chained(q), NEW k \in 1 .. Len(q),
           NEW x \in BookType, Replaying(x, q, k - 1),
           NEW tr \in Seq(Books), Genuine(q[k], tr), ExactBook(x, tr)
    PROVE  ExactBook(ApplyDelta(x, q[k]), tr)
<1> DEFINE d == q[k]
<1>1. d \in DeltaType /\ k \in DOMAIN q
  OBVIOUS
<1>2. d.U <= d.u
  BY <1>1 DEF Chained
<1>3. CASE x.state = "INVALID"
  <2>1. ApplyDelta(x, d) = x
    BY <1>3 DEF ApplyDelta
  <2>2. QED
    BY <2>1
<1>4. CASE x.state # "INVALID"
  <2>1. x.state \in {"SYNCING", "VALID"}
    BY <1>4 DEF Replaying
  <2>2. ASSUME x.state = "VALID"
        PROVE  ~ x.seq.needBridge /\ x.seq.lastId < d.U
    <3>1. PICK m \in 1 .. k - 1 : x.seq.lastId = q[m].u
      BY <2>2 DEF Replaying
    <3>2. m \in DOMAIN q /\ m < k
      OBVIOUS
    <3>3. q[m].u < q[k].U
      BY <1>1, <3>2 DEF Chained
    <3>4. QED
      BY <2>2, <3>1, <3>3 DEF Replaying
  <2>3. x.state = "SYNCING" => x.seq.needBridge /\ ~ x.refreshing /\ ~ x.shadow.pending
    BY DEF Replaying
  <2>4. QED
    BY <1>1, <1>2, <2>1, <2>2, <2>3, EventExact
<1>5. QED
  BY <1>3, <1>4

\* onSnapshot in state INIT makes an exact book of an exact snapshot.
LEMMA InitialSyncExact ==
    ASSUME NEW b \in BookType, b.state = "INIT", ~ b.refreshing, ~ b.requested,
           ~ b.shadow.pending, b.rangeClosed, Chained(b.buf), NEW snap \in SnapshotType,
           NEW tr \in Seq(Books), SideAt(Load(snap), snap.id, tr), ExactBook(b, tr)
    PROVE  ExactBook(InitialSync(b, snap), tr)
<1> DEFINE q == b.buf
           l == Loaded(b, snap)
           n == Len(q)
<1>1. /\ q \in Seq(DeltaType) /\ n \in Nat
      /\ \A m \in 1 .. n : Genuine(q[m], tr)
  BY DEF BookType, ExactBook
<1>2. PICK r : ApplyRun(r, l, q)
  BY <1>1, LoadedTyped, ApplyDeltaRun
<1>3. InitialSync(b, snap) = [r[n] EXCEPT !.buf = <<>>]
  BY <1>2 DEF InitialSync, ApplyRun, Loaded
<1>4. r[0] = l
  BY <1>2 DEF ApplyRun
<1>5. /\ l.state = "SYNCING" /\ l.seq = AtSnapshot(snap.id) /\ l.side = Load(snap)
      /\ ~ l.refreshing /\ ~ l.requested /\ ~ l.shadow.pending /\ l.rangeClosed
      /\ l.buf = b.buf
  BY LoadedTyped
<1>6. l.seq.needBridge /\ l.seq.lastId = snap.id /\ l.seq.snapshotId = snap.id
  BY <1>5 DEF AtSnapshot
<1> HIDE DEF l
<1>7. Replaying(l, q, 0)
  <2> HIDE DEF q
  <2>1. QED
    BY <1>5, <1>6 DEF Replaying
<1>8. ExactBook(l, tr)
  BY <1>5, <1>6 DEF ExactBook
<1> DEFINE P == {k \in Nat : k <= n => Replaying(r[k], q, k) /\ ExactBook(r[k], tr)}
<1>9. 0 \in P
  <2> HIDE DEF q
  <2>1. QED
    BY <1>4, <1>7, <1>8
<1>10. ASSUME NEW k \in Nat, k \in P
       PROVE  k + 1 \in P
  <2>1. SUFFICES ASSUME k + 1 <= n
                 PROVE  Replaying(r[k + 1], q, k + 1) /\ ExactBook(r[k + 1], tr)
    OBVIOUS
  <2> DEFINE j == k + 1
  <2>2. j \in 1 .. n /\ j - 1 = k /\ k \in 0 .. n
    BY <1>1, <2>1
  <2>3. Replaying(r[k], q, k) /\ ExactBook(r[k], tr)
    BY <1>1, <1>10, <2>1
  <2> HIDE DEF j, q
  <2>4. r[j] = ApplyDelta(r[j - 1], q[j]) /\ r[k] \in BookType
    BY <1>2, <2>2 DEF ApplyRun
  <2>5. Chained(q) /\ Replaying(r[k], q, j - 1)
    BY <2>2, <2>3 DEF q
  <2>6. Replaying(ApplyDelta(r[k], q[j]), q, j)
    BY <1>1, <2>2, <2>4, <2>5, ReplayStep
  <2>7. ExactBook(ApplyDelta(r[k], q[j]), tr)
    BY <1>1, <2>2, <2>3, <2>4, <2>5, ReplayExact
  <2>8. QED
    BY <2>2, <2>4, <2>6, <2>7 DEF j
<1> HIDE DEF P
<1>11. Nat \subseteq P
  BY <1>9, <1>10, SetInduction
<1>12. ExactBook(r[n], tr)
  <2>1. n \in P
    BY <1>1, <1>11
  <2> HIDE DEF n
  <2>2. QED
    BY <1>1, <2>1 DEF P
<1>13. r[n] \in BookType
  <2> HIDE DEF q
  <2>1. n \in 0 .. n
    BY <1>1
  <2>2. QED
    BY <1>2, <2>1 DEF ApplyRun
<1> DEFINE y == r[n]
           x == [y EXCEPT !.buf = <<>>]
<1> HIDE DEF n, y
<1>14. x.buf = <<>> /\ x.state = y.state /\ x.side = y.side /\ x.seq = y.seq /\ x.shadow = y.shadow
  BY <1>13 DEF BookType, y
<1>15. InitialSync(b, snap) = x
  BY <1>3 DEF y
<1> HIDE DEF x
<1>16. \A m \in DOMAIN x.buf : FALSE
  BY <1>14
<1>17. QED
  BY <1>12, <1>14, <1>15, <1>16 DEF ExactBook, y

\* A shadow book built from a snapshot at id is the exchange's at its update.
ExactShadow(x, id, tr) ==
    /\ SideAt(x.side, x.seq.lastId, tr)
    /\ x.seq.needBridge => x.seq.snapshotId = id /\ x.seq.lastId = id

\* A shadow book that takes one more event.
LEMMA ShadowStepExact ==
    ASSUME NEW x \in ShadowBookType, NEW d \in DeltaType, NEW id,
           NEW tr \in Seq(Books), Genuine(d, tr), ExactShadow(x, id, tr)
    PROVE  ExactShadow(ShadowStep(x, d), id, tr)
<1> DEFINE y == ShadowStep(x, d)
<1>1. CheckSequence(x.seq, d) \in {"apply", "skip", "fail"}
  BY DEF CheckSequence
<1>2. \/ y = x
      \/ y = [x EXCEPT !.failed = TRUE]
      \/ /\ CheckSequence(x.seq, d) = "apply"
         /\ y = [x EXCEPT !.side = ApplyLevels(x.side, d), !.seq = Applied(x.seq, d)]
  BY <1>1 DEF ShadowStep, ShadowBookType
<1> SUFFICES ExactShadow(y, id, tr)
  OBVIOUS
<1> HIDE DEF y
<1>3. CASE y = x
  BY <1>3
<1>4. CASE y = [x EXCEPT !.failed = TRUE]
  <2>1. y.side = x.side /\ y.seq = x.seq
    BY <1>4 DEF ShadowBookType
  <2>2. QED
    BY <2>1 DEF ExactShadow
<1>5. CASE /\ CheckSequence(x.seq, d) = "apply"
           /\ y = [x EXCEPT !.side = ApplyLevels(x.side, d), !.seq = Applied(x.seq, d)]
  <2>1. y.side = ApplyLevels(x.side, d) /\ y.seq = Applied(x.seq, d)
    BY <1>5 DEF ShadowBookType
  <2>2. x.side \in SideType /\ x.seq \in SeqType
    BY DEF ShadowBookType
  <2>3. y.seq.lastId = d.u /\ ~ y.seq.needBridge
    BY <2>1, <2>2, AppliedTyped
  <2>4. SideAt(ApplyLevels(x.side, d), d.u, tr)
    <3>1. SideAt(x.side, x.seq.lastId, tr) /\ (x.seq.needBridge => x.seq.snapshotId = x.seq.lastId)
      BY DEF ExactShadow
    <3>2. QED
      BY <1>5, <2>2, <3>1, AppliesExactly
  <2>5. QED
    BY <2>1, <2>3, <2>4 DEF ExactShadow
<1>6. QED
  BY <1>2, <1>3, <1>4, <1>5

\* A shadow book that takes all the events buffered.
LEMMA ShadowEndExact ==
    ASSUME NEW q \in Seq(DeltaType), NEW snap \in SnapshotType, NEW tr \in Seq(Books),
           \A m \in DOMAIN q : Genuine(q[m], tr), SideAt(Load(snap), snap.id, tr)
    PROVE  ExactShadow(FoldLeft(ShadowStep, Shadow(snap), q), snap.id, tr)
<1> DEFINE n == Len(q)
           l == Shadow(snap)
<1>1. n \in Nat
  OBVIOUS
<1>2. PICK r : ShadowRun(r, l, q)
  BY ShadowTyped, ShadowStepRun
<1>3. ExactShadow(l, snap.id, tr)
  BY DEF ExactShadow, Shadow, AtSnapshot
<1> DEFINE P == {k \in Nat : k <= n => ExactShadow(r[k], snap.id, tr)}
<1> HIDE DEF l
<1>4. 0 \in P
  BY <1>2, <1>3 DEF ShadowRun
<1>5. ASSUME NEW k \in Nat, k \in P
      PROVE  k + 1 \in P
  <2>1. SUFFICES ASSUME k + 1 <= n
                 PROVE  ExactShadow(r[k + 1], snap.id, tr)
    OBVIOUS
  <2> DEFINE j == k + 1
  <2>2. j \in 1 .. n /\ j - 1 = k /\ k \in 0 .. n
    BY <1>1, <2>1
  <2>3. ExactShadow(r[k], snap.id, tr)
    BY <1>1, <1>5, <2>1
  <2> HIDE DEF j
  <2>4. r[j] = ShadowStep(r[j - 1], q[j]) /\ r[k] \in ShadowBookType
    BY <1>2, <2>2 DEF ShadowRun
  <2>5. q[j] \in DeltaType /\ Genuine(q[j], tr)
    BY <2>2, ElementSeq
  <2>6. ExactShadow(ShadowStep(r[k], q[j]), snap.id, tr)
    BY <2>3, <2>4, <2>5, ShadowStepExact
  <2>7. QED
    BY <2>2, <2>4, <2>6 DEF j
<1> HIDE DEF P
<1>6. Nat \subseteq P
  BY <1>4, <1>5, SetInduction
<1>7. ExactShadow(r[n], snap.id, tr)
  <2>1. n \in P
    BY <1>1, <1>6
  <2> HIDE DEF n
  <2>2. QED
    BY <1>1, <2>1 DEF P
<1>8. QED
  BY <1>2, <1>7 DEF ShadowRun, l

\* finishRefresh drops the shadow book, swaps it in at the book's own update, or
\* holds it.
LEMMA FinishRefreshExact ==
    ASSUME NEW b \in BookType, BookChain(b), b.state = "VALID", b.refreshing,
           NEW snap \in SnapshotType, NEW tr \in Seq(Books),
           SideAt(Load(snap), snap.id, tr), ExactBook(b, tr)
    PROVE  ExactBook(FinishRefresh([b EXCEPT !.requested = FALSE], snap), tr)
<1> DEFINE c == [b EXCEPT !.requested = FALSE]
           q == b.buf
           sh == FoldLeft(ShadowStep, Shadow(snap), q)
           done == [c EXCEPT !.refreshing = FALSE, !.buf = <<>>]
           x == FinishRefresh(c, snap)
<1>1. /\ q \in Seq(DeltaType) /\ Chained(q) /\ <<>> \in Seq(DeltaType)
      /\ \A m \in DOMAIN q : Genuine(q[m], tr)
  BY DEF BookType, BookChain, Chained, ExactBook
<1>2. sh \in ShadowBookType /\ ExactShadow(sh, snap.id, tr)
  <2> HIDE DEF q
  <2>1. QED
    BY <1>1, ShadowEnd, ShadowEndExact
<1>3. c.buf = q /\ c.seq = b.seq
  BY DEF BookType
<1>4. /\ done \in BookType /\ done.state = "VALID" /\ done.seq = b.seq /\ done.buf = <<>>
      /\ done.side = b.side /\ done.shadow = b.shadow
  BY <1>1 DEF BookType
<1>5. \/ x = done
      \/ ~ sh.seq.needBridge /\ x = [done EXCEPT !.side = sh.side, !.seq = sh.seq]
      \/ sh.seq.needBridge /\ snap.id = b.seq.lastId /\ x = [done EXCEPT !.side = sh.side]
      \/ x = [done EXCEPT !.shadow = [pending |-> TRUE, side |-> sh.side, seq |-> sh.seq]]
  BY <1>3 DEF FinishRefresh, Shadow
<1> SUFFICES ExactBook(x, tr)
  OBVIOUS
<1> HIDE DEF sh, c, done, x, q
<1>6. \A m \in DOMAIN <<>> : FALSE
  OBVIOUS
<1>7. CASE x = done
  BY <1>4, <1>6, <1>7 DEF ExactBook
<1>8. CASE ~ sh.seq.needBridge /\ x = [done EXCEPT !.side = sh.side, !.seq = sh.seq]
  <2>1. /\ x.state = "VALID" /\ x.side = sh.side /\ x.seq = sh.seq /\ x.buf = <<>>
        /\ x.shadow = b.shadow
    BY <1>4, <1>8 DEF BookType
  <2>2. QED
    BY <1>2, <1>6, <1>8, <2>1 DEF ExactBook, ExactShadow
<1>9. CASE sh.seq.needBridge /\ snap.id = b.seq.lastId /\ x = [done EXCEPT !.side = sh.side]
  <2>1. /\ x.state = "VALID" /\ x.side = sh.side /\ x.seq = b.seq /\ x.buf = <<>>
        /\ x.shadow = b.shadow
    BY <1>4, <1>9 DEF BookType
  <2>2. SideAt(x.side, x.seq.lastId, tr)
    BY <1>2, <1>9, <2>1 DEF ExactShadow
  <2>3. QED
    BY <1>6, <2>1, <2>2 DEF ExactBook
<1>10. CASE x = [done EXCEPT !.shadow = [pending |-> TRUE, side |-> sh.side, seq |-> sh.seq]]
  <2>1. /\ x.state = "VALID" /\ x.side = b.side /\ x.seq = b.seq /\ x.buf = <<>>
        /\ x.shadow = [pending |-> TRUE, side |-> sh.side, seq |-> sh.seq]
    BY <1>4, <1>10 DEF BookType
  <2>2. x.shadow.side = sh.side /\ x.shadow.seq = sh.seq
    BY <2>1
  <2>3. QED
    BY <1>2, <1>6, <2>1, <2>2 DEF ExactBook, ExactShadow
<1>11. QED
  BY <1>5, <1>7, <1>8, <1>9, <1>10

\* onSnapshot
LEMMA OnSnapshotExact ==
    ASSUME NEW b \in BookType, BookChain(b), NEW snap \in SnapshotType, NEW tr \in Seq(Books),
           SideAt(Load(snap), snap.id, tr), ExactBook(b, tr)
    PROVE  ExactBook(OnSnapshot(b, snap), tr)
<1> DEFINE c == [b EXCEPT !.requested = FALSE]
           e == [c EXCEPT !.refreshing = FALSE]
           x == OnSnapshot(b, snap)
<1>1. c.state = b.state /\ c.refreshing = b.refreshing
  BY DEF BookType
<1>2. /\ e \in BookType /\ e.state = b.state /\ e.seq = b.seq /\ e.buf = b.buf
      /\ ~ e.refreshing /\ ~ e.requested /\ e.shadow = b.shadow /\ e.side = b.side
      /\ e.rangeClosed = b.rangeClosed
  BY DEF BookType
<1>3. ExactBook(e, tr)
  <2> HIDE DEF e
  <2>1. QED
    BY <1>2 DEF ExactBook
<1>4. CASE b.state = "VALID" /\ b.refreshing
  <2>1. x = FinishRefresh(c, snap)
    BY <1>1, <1>4 DEF OnSnapshot
  <2>2. QED
    BY <1>4, <2>1, FinishRefreshExact
<1>5. CASE b.state = "INIT"
  <2>1. x = InitialSync(e, snap)
    BY <1>1, <1>5 DEF OnSnapshot
  <2> HIDE DEF x, e
  <2>2. Chained(e.buf) /\ ~ e.shadow.pending /\ e.rangeClosed
    BY <1>2, <1>5 DEF BookChain, Chained
  <2>3. ExactBook(x, tr)
    BY <1>2, <1>3, <1>5, <2>1, <2>2, InitialSyncExact
  <2>4. QED
    BY <2>3 DEF x
<1>6. CASE ~ (b.state = "VALID" /\ b.refreshing) /\ b.state # "INIT"
  <2>1. x = e
    BY <1>1, <1>6 DEF OnSnapshot
  <2>2. QED
    BY <1>3, <2>1
<1>7. QED
  BY <1>4, <1>5, <1>6

\* Giving a request up changes no level.
LEMMA GivenUpExact ==
    ASSUME NEW b \in BookType, NEW tr, ExactBook(b, tr)
    PROVE  ExactBook(GivenUp(b), tr)
<1>1. <<>> \in Seq(DeltaType)
  OBVIOUS
<1> DEFINE c == CancelRefresh(b)
<1>2. /\ c \in BookType /\ c.state = b.state /\ c.side = b.side /\ c.seq = b.seq
      /\ c.shadow = b.shadow /\ (c.buf = b.buf \/ c.buf = <<>>)
  BY <1>1 DEF CancelRefresh, BookType
<1> DEFINE x == [c EXCEPT !.requested = FALSE]
<1>3. GivenUp(b) = x
  BY DEF GivenUp
<1> HIDE DEF c
<1>4. /\ x.state = c.state /\ x.side = c.side /\ x.seq = c.seq
      /\ x.shadow = c.shadow /\ x.buf = c.buf
  BY <1>2 DEF BookType
<1> HIDE DEF x
<1>5. \A m \in DOMAIN x.buf : Genuine(x.buf[m], tr)
  BY <1>2, <1>4 DEF ExactBook
<1>6. QED
  BY <1>2, <1>3, <1>4, <1>5 DEF ExactBook

\* One result.
LEMMA ApplyResultExact ==
    ASSUME NEW h \in HandlerType, GoodHandler(h), NEW r \in ResultType,
           NEW tr \in Seq(Books), ExactResult(r, tr), ExactBook(h.book, tr)
    PROVE  ExactBook(ApplyResult(h, r).book, tr)
<1> DEFINE x == ApplyResult(h, r)
           snap == [id |-> r.id, levels |-> r.levels]
<1>1. h.book \in BookType
  BY DEF HandlerType
<1>2. \/ x = h
      \/ x = [h EXCEPT !.waiting = FALSE, !.book = GivenUp(h.book)]
      \/ r.ok /\ x = [h EXCEPT !.waiting = FALSE, !.book = OnSnapshot(h.book, snap)]
  BY ApplyResultCases
<1> SUFFICES ExactBook(x.book, tr)
  OBVIOUS
<1> HIDE DEF x
<1>3. CASE x = h
  BY <1>3
<1>4. CASE x = [h EXCEPT !.waiting = FALSE, !.book = GivenUp(h.book)]
  <2>1. x.book = GivenUp(h.book)
    BY <1>4 DEF HandlerType
  <2>2. QED
    BY <1>1, <2>1, GivenUpExact
<1>5. CASE r.ok /\ x = [h EXCEPT !.waiting = FALSE, !.book = OnSnapshot(h.book, snap)]
  <2>1. x.book = OnSnapshot(h.book, snap)
    BY <1>5 DEF HandlerType
  <2>2. PICK k \in 0 .. Len(tr) - 1 : r.id = IdOf(k) /\ r.levels = Best(tr[k + 1], SnapshotLimit)
    BY <1>5 DEF ExactResult
  <2>3. r.id \in Ids /\ r.levels \in SUBSET Prices
    BY <1>5 DEF ResultType
  <2>4. snap \in SnapshotType /\ snap.id = r.id /\ snap.levels = r.levels
    BY <2>3 DEF SnapshotType
  <2> HIDE DEF snap
  <2>5. SideAt(Load(snap), snap.id, tr)
    BY <2>2, <2>4, LoadsExactly
  <2>6. BookChain(h.book)
    BY DEF GoodHandler
  <2>7. QED
    BY <1>1, <2>1, <2>4, <2>5, <2>6, OnSnapshotExact
<1>6. QED
  BY <1>2, <1>3, <1>4, <1>5

\* All results.
LEMMA ResultsExact ==
    ASSUME NEW h \in HandlerType, GoodHandler(h), NEW q \in Seq(ResultType),
           NEW tr \in Seq(Books), \A m \in DOMAIN q : ExactResult(q[m], tr),
           ExactBook(h.book, tr)
    PROVE  ExactBook(FoldLeft(ApplyResult, h, q).book, tr)
<1> DEFINE n == Len(q)
<1>1. n \in Nat
  OBVIOUS
<1>2. PICK r : ResultRun(r, h, q)
  BY ApplyResultRun
<1> DEFINE P == {k \in Nat : k <= n => GoodHandler(r[k]) /\ ExactBook(r[k].book, tr)}
<1>3. 0 \in P
  BY <1>2 DEF ResultRun
<1>4. ASSUME NEW k \in Nat, k \in P
      PROVE  k + 1 \in P
  <2>1. SUFFICES ASSUME k + 1 <= n
                 PROVE  GoodHandler(r[k + 1]) /\ ExactBook(r[k + 1].book, tr)
    OBVIOUS
  <2> DEFINE j == k + 1
  <2>2. j \in 1 .. n /\ j - 1 = k /\ k \in 0 .. n
    BY <1>1, <2>1
  <2>3. GoodHandler(r[k]) /\ ExactBook(r[k].book, tr)
    BY <1>1, <1>4, <2>1
  <2> HIDE DEF j
  <2>4. r[j] = ApplyResult(r[j - 1], q[j]) /\ r[k] \in HandlerType
    BY <1>2, <2>2 DEF ResultRun
  <2>5. q[j] \in ResultType /\ ExactResult(q[j], tr)
    BY <2>2, ElementSeq
  <2>6. GoodHandler(ApplyResult(r[k], q[j]))
    BY <2>3, <2>4, <2>5, ApplyResultDrained DEF HandlerDrained
  <2>7. ExactBook(ApplyResult(r[k], q[j]).book, tr)
    BY <2>3, <2>4, <2>5, ApplyResultExact
  <2>8. QED
    BY <2>2, <2>4, <2>6, <2>7 DEF j
<1> HIDE DEF P
<1>5. Nat \subseteq P
  BY <1>3, <1>4, SetInduction
<1>6. ExactBook(r[n].book, tr)
  <2>1. n \in P
    BY <1>1, <1>5
  <2> HIDE DEF n
  <2>2. QED
    BY <1>1, <2>1 DEF P
<1>7. QED
  BY <1>2, <1>6 DEF ResultRun

-----------------------------------------------------------------------------
(* The actions keep the book exact *)

\* It starts exact.
LEMMA ExactInit == Init => Exactly
<1> SUFFICES ASSUME Init PROVE Exactly
  OBVIOUS
<1>1. \A m \in DOMAIN <<>> : FALSE
  OBVIOUS
<1>2. NewBook.state = "INIT" /\ NewBook.buf = <<>> /\ ~ NewBook.shadow.pending
  BY DEF NewBook, NoShadow
<1>3. \A tr : ExactBook(NewBook, tr)
  BY <1>1, <1>2 DEF ExactBook
<1>4. \A tr : ExactRow(InvalidRow, tr)
  BY DEF ExactRow, InvalidRow
<1>5. QED
  BY <1>1, <1>3, <1>4 DEF Init, Exactly

\* A level that was not read is never forgotten: while all levels have been
\* read, no step was one that skips a level.
LEMMA LevelsReadBefore ==
    ASSUME ChainInv, [Next]_vars, LevelsRead'
    PROVE  LevelsRead /\ ~ WorkerAnswersBadLevel /\ ~ ReadDeltaBadLevel
<1>1. faults \in [FaultKinds -> Nat] /\ "level" \in FaultKinds
  BY DEF ChainInv, Typed, FaultsTyped, FaultKinds
<1>2. ASSUME NEW f \in FaultKinds, Fault(f)
      PROVE  LevelsRead /\ f # "level"
  <2>1. faults' = [faults EXCEPT ![f] = @ + 1] /\ faults'["level"] = 0
    BY <1>2 DEF Fault, LevelsRead
  <2>2. QED
    BY <1>1, <2>1 DEF LevelsRead
<1>3. ~ WorkerAnswersBadLevel /\ ~ ReadDeltaBadLevel
  BY <1>1, <1>2 DEF WorkerAnswersBadLevel, ReadDeltaBadLevel
<1>4. UNCHANGED faults => LevelsRead
  BY DEF LevelsRead
<1>5. \/ UNCHANGED faults
      \/ Fault("fetch") \/ Fault("overflow") \/ Fault("timeout")
      \/ Fault("message") \/ Fault("connection")
  BY <1>3 DEF Next, vars, Change, Emit, WorkerTakes, WorkerAnswers, WorkerFails, PushedOut,
              Drain, DrainTimeout, ReadDelta, LoseMessage, ReadOther, Reconnect
<1>6. {"fetch", "overflow", "timeout", "message", "connection"} \subseteq FaultKinds
  BY DEF FaultKinds
<1>7. QED
  BY <1>2, <1>3, <1>4, <1>5, <1>6

\* The history of the exchange.
LEMMA HistoryTyped ==
    ASSUME ChainInv
    PROVE  truth \in Seq(Books) /\ ExchTyped
BY DEF ChainInv, Typed, ExchTyped

\* The exchange changes its book: what was exact for the history still is.
LEMMA ChangeExact ==
    ASSUME ChainInv, Exactly, Change
    PROVE  Exactly'
<1>1. PICK b \in Books : truth' = Append(truth, b)
  BY DEF Change
<1>2. truth \in Seq(Books) /\ Len(truth) \in Nat
  BY HistoryTyped
<1>3. /\ truth' \in Seq(Books) /\ Len(truth') = Len(truth) + 1
      /\ \A k \in 1 .. Len(truth) : truth'[k] = truth[k]
  BY <1>1, <1>2, AppendSeq
<1>4. Begins(truth, truth')
  BY <1>2, <1>3 DEF Begins
<1>5. /\ \A d : Genuine(d, truth) => Genuine(d, truth')
      /\ \A b1 : ExactBook(b1, truth) => ExactBook(b1, truth')
      /\ \A r : ExactResult(r, truth) => ExactResult(r, truth')
      /\ \A r : ExactRow(r, truth) => ExactRow(r, truth')
  BY <1>2, <1>3, <1>4, ExactLater
<1>6. stream' = stream /\ book' = book /\ results' = results /\ last' = last
  BY DEF Change, rowVars, workVars
<1>7. QED
  BY <1>5, <1>6 DEF Exactly

\* The exchange sends an event.
LEMMA EmitExact ==
    ASSUME ChainInv, Exactly, Emit
    PROVE  Exactly'
<1>1. PICK j \in sent + 1 .. Updates : stream' = Append(stream, Delta(sent + 1, j))
  BY DEF Emit
<1>2. ExchTyped
  BY HistoryTyped
<1>3. sent \in Nat /\ Updates \in Nat /\ j \in Nat /\ sent + 1 \in 1 .. Updates
  BY <1>1, <1>2 DEF ExchTyped, Updates
<1> DEFINE d == Delta(sent + 1, j)
<1>4. d \in DeltaType /\ Genuine(d, truth)
  BY <1>1, <1>2, <1>3, DeltaTyped, DeltaGenuine
<1>5. stream \in Seq(DeltaType) /\ stream' = Append(stream, d)
  BY <1>1, <1>2 DEF ExchTyped
<1> HIDE DEF d
<1>6. /\ stream' \in Seq(DeltaType) /\ Len(stream') = Len(stream) + 1
      /\ \A m \in 1 .. Len(stream) : stream'[m] = stream[m]
      /\ stream'[Len(stream) + 1] = d
  BY <1>4, <1>5, AppendSeq
<1>7. ASSUME NEW m \in DOMAIN stream'
      PROVE  Genuine(stream'[m], truth)
  <2>1. m = Len(stream) + 1 \/ m \in 1 .. Len(stream)
    BY <1>5, <1>6
  <2>2. DOMAIN stream = 1 .. Len(stream)
    BY <1>5
  <2>3. QED
    BY <1>4, <1>6, <2>1, <2>2 DEF Exactly
<1>8. truth' = truth /\ book' = book /\ results' = results /\ last' = last
  BY DEF Emit, rowVars, workVars
<1>9. QED
  BY <1>7, <1>8 DEF Exactly

\* The worker pushes an answer that is exact.
LEMMA PushExact ==
    ASSUME ChainInv, Exactly, NEW r \in ResultType, ExactResult(r, truth),
           results' = Push(results, r), UNCHANGED <<truth, stream, book, last>>
    PROVE  Exactly'
<1>1. results \in Seq(ResultType) /\ Len(results) <= QueueCap
  BY DEF ChainInv, Typed, WorkTyped
<1>2. \A m \in DOMAIN results' :
          results'[m] = r \/ \E n \in DOMAIN results : results'[m] = results[n]
  BY <1>1, PushTyped
<1>3. \A m \in DOMAIN results' : ExactResult(results'[m], truth)
  BY <1>2 DEF Exactly
<1>4. QED
  BY <1>3 DEF Exactly

\* The worker's answers.
LEMMA WorkerExact ==
    ASSUME ChainInv, Exactly, WorkerTakes \/ WorkerAnswers \/ WorkerFails \/ PushedOut
    PROVE  Exactly'
<1>1. UNCHANGED <<truth, stream, book, last>>
  BY DEF WorkerTakes, WorkerAnswers, WorkerFails, PushedOut, exchVars, rowVars
<1>2. CASE UNCHANGED results
  BY <1>1, <1>2 DEF Exactly
<1>3. CASE WorkerAnswers
  <2>1. PICK k \in 0 .. Updates :
            results' = Push(results, [reqId |-> fetching, ok |-> TRUE, id |-> IdOf(k),
                                      levels |-> Best(truth[k + 1], SnapshotLimit)])
    BY <1>3 DEF WorkerAnswers
  <2> DEFINE r == [reqId |-> fetching, ok |-> TRUE, id |-> IdOf(k),
                   levels |-> Best(truth[k + 1], SnapshotLimit)]
  <2>2. r \in ResultType
    BY <1>3, AnswerTyped DEF WorkerAnswers
  <2>3. r.id = IdOf(k) /\ r.levels = Best(truth[k + 1], SnapshotLimit) /\ results' = Push(results, r)
    BY <2>1
  <2>4. k \in 0 .. Len(truth) - 1
    BY DEF Updates
  <2> HIDE DEF r
  <2>5. ExactResult(r, truth)
    BY <2>3, <2>4 DEF ExactResult
  <2>6. QED
    BY <1>1, <2>2, <2>3, <2>5, PushExact
<1>4. CASE WorkerFails
  <2> DEFINE r == [reqId |-> fetching, ok |-> FALSE]
  <2>1. r \in ResultType /\ results' = Push(results, r) /\ ~ r.ok
    BY <1>4, AnswerTyped DEF WorkerFails
  <2> HIDE DEF r
  <2>2. ExactResult(r, truth)
    BY <2>1 DEF ExactResult
  <2>3. QED
    BY <1>1, <2>1, <2>2, PushExact
<1>5. CASE results # <<>> /\ results' = Tail(results)
  <2>1. results \in Seq(ResultType) /\ Len(results) \in Nat
    BY DEF ChainInv, Typed, WorkTyped
  <2>2. /\ results' \in Seq(ResultType) /\ Len(results') = Len(results) - 1
        /\ \A i \in 1 .. Len(results) - 1 : results'[i] = results[i + 1]
    BY <1>5, <2>1, TailSeq
  <2>3. ASSUME NEW m \in DOMAIN results'
        PROVE  ExactResult(results'[m], truth)
    <3>1. m \in 1 .. Len(results) - 1 /\ m + 1 \in DOMAIN results
      BY <2>1, <2>2
    <3>2. QED
      BY <2>2, <3>1 DEF Exactly
  <2>4. QED
    BY <1>1, <2>3 DEF Exactly
<1>6. QED
  BY <1>2, <1>3, <1>4, <1>5 DEF WorkerTakes, PushedOut

\* The handler drains the results, after a timeout or not.
LEMMA DrainExact ==
    ASSUME ChainInv, Exactly, Drain \/ DrainTimeout
    PROVE  Exactly'
<1>1. PICK h \in {Handler, TimedOut(Handler)} : DrainResults(h)
  BY DEF Drain, DrainTimeout
<1>2. /\ book \in BookType /\ Len(book.buf) <= BufferCap /\ BookChain(book)
      /\ ExactBook(book, truth) /\ truth \in Seq(Books) /\ latestId \in Nat
  BY HandlerGood, HistoryTyped DEF Exactly
<1>3. h \in HandlerType /\ GoodHandler(h) /\ ExactBook(h.book, truth)
  <2>1. CASE h = Handler
    BY <1>2, <2>1, HandlerGood
  <2>2. CASE h = TimedOut(Handler)
    <3>1. /\ h.book = GivenUp(book) /\ h.waiting = FALSE
          /\ h = [book |-> GivenUp(book), waiting |-> FALSE, latestId |-> latestId + 1]
      BY <2>2 DEF TimedOut, GivenUp, Handler
    <3>2. /\ Drained(book, GivenUp(book)) /\ ~ GivenUp(book).requested
          /\ ~ GivenUp(book).refreshing
      BY <1>2, GivenUpDrained
    <3>3. h \in HandlerType
      BY <1>2, <3>1, <3>2 DEF HandlerType, Drained
    <3>4. GoodHandler(h)
      BY <3>1, <3>2 DEF GoodHandler, Drained
    <3>5. QED
      BY <1>2, <3>1, <3>3, <3>4, GivenUpExact
  <2>3. QED
    BY <1>1, <2>1, <2>2
<1>4. results \in Seq(ResultType) /\ \A m \in DOMAIN results : ExactResult(results[m], truth)
  BY DEF ChainInv, Typed, WorkTyped, Exactly
<1>5. ExactBook(FoldLeft(ApplyResult, h, results).book, truth)
  BY <1>2, <1>3, <1>4, ResultsExact
<1>6. /\ book' = FoldLeft(ApplyResult, h, results).book /\ results' = <<>>
      /\ truth' = truth /\ stream' = stream /\ last' = last
  BY <1>1 DEF DrainResults, exchVars, rowVars
<1>7. \A m \in DOMAIN results' : FALSE
  BY <1>6
<1>8. QED
  BY <1>5, <1>6, <1>7 DEF Exactly

\* The quote of an exact book is the exchange's.
LEMMA QuoteExact ==
    ASSUME NEW b \in BookType, NEW tr \in Seq(Books), ExactBook(b, tr)
    PROVE  ExactRow(GetQuote(b), tr)
<1>1. CASE b.state # "VALID" \/ DepthExhausted(b)
  BY <1>1 DEF GetQuote, ExactRow, InvalidRow
<1>2. CASE b.state = "VALID" /\ ~ DepthExhausted(b)
  <2>1. PICK k \in 0 .. Len(tr) - 1 : b.seq.lastId = IdOf(k) /\ Exact(b.side, tr[k + 1])
    BY <1>2 DEF ExactBook, SideAt
  <2>2. tr[k + 1] \in SUBSET Prices
    BY HistoryBook
  <2>3. b.side \in Sides
    BY DEF BookType, SideType, Sides
  <2>4. Best(b.side.levels, Depth) = Best(tr[k + 1], Depth)
    BY <1>2, <2>1, <2>2, <2>3, TopExact DEF DepthExhausted
  <2>5. GetQuote(b).u = IdOf(k) /\ GetQuote(b).top = Best(tr[k + 1], Depth)
    BY <1>2, <2>1, <2>4 DEF GetQuote
  <2>6. QED
    BY <2>5 DEF ExactRow
<1>3. QED
  BY <1>1, <1>2

\* The book x has the levels and the events of b.
SameLevels(b, x) ==
    /\ x.state = b.state /\ x.side = b.side /\ x.seq = b.seq
    /\ x.buf = b.buf /\ x.shadow = b.shadow

\* A step of the handler's read phase that shows the exact book b.
LEMMA ShownExact ==
    ASSUME ChainInv, Exactly, NEW b \in BookType, ExactBook(b, truth), SameLevels(b, book'),
           last' = last \/ last' = GetQuote(b) \/ last' = InvalidRow,
           \A m \in DOMAIN stream' : Genuine(stream'[m], truth),
           UNCHANGED <<truth, results>>
    PROVE  Exactly'
<1>1. ExactBook(book', truth)
  BY DEF SameLevels, ExactBook
<1>2. ExactRow(last', truth)
  <2>1. CASE last' = last
    BY <2>1 DEF Exactly
  <2>2. CASE last' = GetQuote(b)
    BY <2>2, HistoryTyped, QuoteExact
  <2>3. CASE last' = InvalidRow
    BY <2>3 DEF ExactRow, InvalidRow
  <2>4. QED
    BY <2>1, <2>2, <2>3
<1>3. QED
  BY <1>1, <1>2 DEF Exactly

\* Publishing changes no level.
LEMMA PublishSame ==
    ASSUME NEW b \in BookType
    PROVE  /\ \A quote : Publish(b, quote) => SameLevels(b, book') /\ last' = quote
           /\ MaybePublish(b) => SameLevels(b, book') /\ (last' = last \/ last' = GetQuote(b))
           /\ book' = b /\ UNCHANGED rowVars => SameLevels(b, book') /\ last' = last
<1>1. ASSUME NEW quote, Publish(b, quote)
      PROVE  SameLevels(b, book') /\ last' = quote
  BY <1>1 DEF Publish, SameLevels, BookType
<1>2. book' = b /\ UNCHANGED rowVars => SameLevels(b, book') /\ last' = last
  BY DEF SameLevels, rowVars
<1>3. MaybePublish(b) => Publish(b, GetQuote(b)) \/ (book' = b /\ UNCHANGED rowVars)
  BY DEF MaybePublish
<1>4. QED
  BY <1>1, <1>2, <1>3

\* The events behind the next one.
LEMMA ReceivedGenuine ==
    ASSUME ChainInv, Exactly, Receive
    PROVE  /\ Head(stream) \in DeltaType /\ Genuine(Head(stream), truth)
           /\ \A m \in DOMAIN stream' : Genuine(stream'[m], truth)
           /\ UNCHANGED <<truth, results>> /\ stream # <<>>
<1>1. stream # <<>> /\ stream' = Tail(stream) /\ truth' = truth /\ results' = results
  BY DEF Receive, workVars
<1>2. stream \in Seq(DeltaType) /\ Len(stream) \in Nat
  BY HistoryTyped DEF ExchTyped
<1>3. /\ Head(stream) \in DeltaType /\ Head(stream) = stream[1] /\ Len(stream) >= 1
      /\ stream' \in Seq(DeltaType) /\ Len(stream') = Len(stream) - 1
      /\ \A i \in 1 .. Len(stream) - 1 : stream'[i] = stream[i + 1]
  BY <1>1, <1>2, TailSeq
<1>4. ASSUME NEW m \in DOMAIN stream'
      PROVE  Genuine(stream'[m], truth)
  <2>1. m \in 1 .. Len(stream) - 1 /\ m + 1 \in DOMAIN stream
    BY <1>2, <1>3
  <2>2. QED
    BY <1>3, <2>1 DEF Exactly
<1>5. 1 \in DOMAIN stream
  BY <1>2, <1>3
<1>6. QED
  BY <1>1, <1>3, <1>4, <1>5 DEF Exactly

\* A new book claims nothing.
LEMMA NewBookExact ==
    ASSUME NEW tr
    PROVE  ExactBook(NewBook, tr) /\ NewBook \in BookType
<1>1. NewBook.state = "INIT" /\ NewBook.buf = <<>> /\ ~ NewBook.shadow.pending
  BY DEF NewBook, NoShadow
<1>2. \A m \in DOMAIN NewBook.buf : FALSE
  BY <1>1
<1>3. QED
  BY <1>1, <1>2, NewBookTyped DEF ExactBook

\* The handler reads an event.
LEMMA ReadDeltaExact ==
    ASSUME ChainInv, Exactly, ReadDelta
    PROVE  Exactly'
<1> DEFINE d == Head(stream)
<1>1. Receive /\ HandleDelta(d)
  BY DEF ReadDelta
<1>2. /\ d \in DeltaType /\ Genuine(d, truth)
      /\ \A m \in DOMAIN stream' : Genuine(stream'[m], truth)
      /\ UNCHANGED <<truth, results>> /\ stream # <<>>
  BY <1>1, ReceivedGenuine
<1>3. /\ d.U <= d.u
      /\ book.state = "VALID" => book.seq.lastId < d.U
  BY <1>2, HeadFacts
<1>4. /\ book \in BookType /\ BookChain(book) /\ ExactBook(book, truth)
      /\ truth \in Seq(Books)
  BY HandlerGood, HistoryTyped DEF Exactly
<1> HIDE DEF d
<1>5. ASSUME NEW b \in BookType, ExactBook(b, truth), SameLevels(b, book'),
             last' = last \/ last' = GetQuote(b) \/ last' = InvalidRow
      PROVE  Exactly'
  BY <1>2, <1>5, ShownExact
<1>6. CASE BufferMessage(d)
  <2> DEFINE b == BufferDelta(book, d)
             y == [b EXCEPT !.requested = TRUE]
  <2>1. b \in BookType /\ b = [book EXCEPT !.buf = b.buf]
    BY <1>2, <1>4, BufferDeltaTyped
  <2>2. \A m \in DOMAIN b.buf : Genuine(b.buf[m], truth)
    BY <1>2, <1>4, BufferGenuine DEF ExactBook
  <2>3. (book' = b \/ book' = y) /\ UNCHANGED rowVars /\ book.state = "INIT"
    BY <1>6 DEF BufferMessage
  <2> HIDE DEF b
  <2>4. b.state = "INIT" /\ b.shadow = book.shadow
    BY <1>4, <2>1, <2>3 DEF BookType
  <2>5. ExactBook(b, truth)
    BY <1>4, <2>2, <2>4 DEF ExactBook
  <2>6. SameLevels(b, b) /\ SameLevels(b, y)
    BY <2>1 DEF SameLevels, BookType
  <2>7. SameLevels(b, book') /\ last' = last
    BY <2>3, <2>6 DEF rowVars
  <2>8. QED
    BY <1>5, <2>1, <2>5, <2>7
<1>7. CASE LoseSequence(d)
  <2>1. SameLevels(NewBook, book') /\ last' = InvalidRow
    BY <1>7, NewBookTyped, PublishSame DEF LoseSequence
  <2>2. QED
    BY <1>5, <2>1, NewBookExact
<1>8. CASE ApplyMessage(d)
  <2> DEFINE b == ApplyDelta(book, d)
             y == BeginRefresh(b)
  <2>1. book.state \in {"SYNCING", "VALID"}
    BY <1>8 DEF ApplyMessage
  <2>2. b \in BookType
    BY <1>2, <1>4, ApplyDeltaTyped
  <2>3. ExactBook(b, truth)
    <3>1. book.state = "VALID" => ~ book.seq.needBridge /\ book.seq.lastId < d.U
      BY <1>3, <1>4 DEF BookChain
    <3>2. book.state = "SYNCING" =>
              book.seq.needBridge /\ ~ book.refreshing /\ ~ book.shadow.pending
      BY <1>4 DEF BookChain
    <3>3. QED
      BY <1>2, <1>3, <1>4, <2>1, <3>1, <3>2, EventExact
  <2>4. \/ book' = b /\ UNCHANGED rowVars
        \/ MaybePublish(b)
        \/ MaybePublish(y)
    BY <1>8 DEF ApplyMessage
  <2> HIDE DEF b
  <2>5. <<>> \in Seq(DeltaType)
    OBVIOUS
  <2>6. /\ y \in BookType /\ y.buf = <<>> /\ y.state = b.state /\ y.side = b.side
        /\ y.seq = b.seq /\ y.shadow = b.shadow
    BY <2>2, <2>5 DEF BeginRefresh, BookType
  <2> HIDE DEF y
  <2>7. ExactBook(y, truth)
    <3>1. \A m \in DOMAIN y.buf : FALSE
      BY <2>6
    <3>2. QED
      BY <2>3, <2>6, <3>1 DEF ExactBook
  <2>8. CASE (book' = b /\ UNCHANGED rowVars) \/ MaybePublish(b)
    <3>1. SameLevels(b, book') /\ (last' = last \/ last' = GetQuote(b))
      BY <2>2, <2>8, PublishSame
    <3>2. QED
      BY <1>5, <2>2, <2>3, <3>1
  <2>9. CASE MaybePublish(y)
    <3>1. SameLevels(y, book') /\ (last' = last \/ last' = GetQuote(y))
      BY <2>6, <2>9, PublishSame
    <3>2. QED
      BY <1>5, <2>6, <2>7, <3>1
  <2>10. QED
    BY <2>4, <2>8, <2>9
<1>9. CASE DiscardMessage
  <2>1. SameLevels(NewBook, book') /\ last' = last
    BY <1>9, NewBookTyped, PublishSame DEF DiscardMessage
  <2>2. QED
    BY <1>5, <2>1, NewBookExact
<1>10. QED
  BY <1>1, <1>6, <1>7, <1>8, <1>9 DEF HandleDelta

\* A heartbeat shows the book as it is.
LEMMA HeartbeatSame ==
    ASSUME ChainInv, Heartbeat
    PROVE  /\ book \in BookType /\ SameLevels(book, book')
           /\ last' = last \/ last' = GetQuote(book)
<1>1. book \in BookType
  BY HandlerGood
<1>2. (book' = book /\ UNCHANGED rowVars) \/ Publish(book, GetQuote(book))
  BY DEF Heartbeat
<1>3. QED
  BY <1>1, <1>2, PublishSame

\* The handler reads a message that changes nothing in the book, or starts over.
LEMMA ReadNothingExact ==
    ASSUME ChainInv, Exactly, LoseMessage \/ ReadOther \/ Reconnect
    PROVE  Exactly'
<1>1. ExactBook(book, truth)
  BY DEF Exactly
<1>2. CASE LoseMessage
  <2>1. /\ book \in BookType /\ SameLevels(book, book')
        /\ last' = last \/ last' = GetQuote(book)
    BY <1>2, HeartbeatSame DEF LoseMessage
  <2>2. /\ \A m \in DOMAIN stream' : Genuine(stream'[m], truth)
        /\ UNCHANGED <<truth, results>>
    BY <1>2, ReceivedGenuine DEF LoseMessage
  <2>3. QED
    BY <1>1, <2>1, <2>2, ShownExact
<1>3. CASE ReadOther
  <2>1. /\ book \in BookType /\ SameLevels(book, book')
        /\ last' = last \/ last' = GetQuote(book)
    BY <1>3, HeartbeatSame DEF ReadOther
  <2>2. UNCHANGED <<truth, results>> /\ stream' = stream
    BY <1>3 DEF ReadOther, exchVars, workVars
  <2>3. \A m \in DOMAIN stream' : Genuine(stream'[m], truth)
    BY <2>2 DEF Exactly
  <2>4. QED
    BY <1>1, <2>1, <2>2, <2>3, ShownExact
<1>4. CASE Reconnect
  <2>1. Publish(NewBook, InvalidRow) \/ (book' = NewBook /\ UNCHANGED rowVars)
    BY <1>4 DEF Reconnect
  <2>2. SameLevels(NewBook, book') /\ (last' = InvalidRow \/ last' = last)
    BY <2>1, NewBookTyped, PublishSame
  <2>3. UNCHANGED <<truth, results>> /\ stream' = <<>>
    BY <1>4 DEF Reconnect, workVars
  <2>4. \A m \in DOMAIN stream' : Genuine(stream'[m], truth)
    BY <2>3
  <2>5. QED
    BY <2>2, <2>3, <2>4, NewBookExact, ShownExact
<1>5. QED
  BY <1>2, <1>3, <1>4

\* Every step keeps the book exact while all levels can be read.
LEMMA ExactNext ==
    ASSUME ChainInv, ExactInv, [Next]_vars
    PROVE  ExactInv'
<1> SUFFICES ASSUME LevelsRead' PROVE Exactly'
  BY DEF ExactInv
<1>1. LevelsRead /\ ~ WorkerAnswersBadLevel /\ ~ ReadDeltaBadLevel
  BY LevelsReadBefore
<1>2. Exactly
  BY <1>1 DEF ExactInv
<1>3. CASE UNCHANGED vars
  <2>1. UNCHANGED <<truth, stream, book, results, last>>
    BY <1>3 DEF vars, exchVars, workVars, rowVars
  <2>2. QED
    BY <1>2, <2>1 DEF Exactly
<1>4. CASE Next
  BY <1>1, <1>2, <1>4, ChangeExact, EmitExact, WorkerExact, DrainExact, ReadDeltaExact,
     ReadNothingExact DEF Next
<1>5. QED
  BY <1>3, <1>4

\* While every level could be read, the events, the snapshots, the book and the
\* last row are the exchange's at their update ids.
THEOREM QuotesExact == Spec => [](ChainInv /\ ExactInv)
<1>1. Init => ChainInv /\ ExactInv
  BY ChainInit, ExactInit DEF ExactInv
<1>2. ChainInv /\ ExactInv /\ [Next]_vars => (ChainInv /\ ExactInv)'
  BY ChainNext, ExactNext
<1>3. QED
  BY <1>1, <1>2, PTL DEF Spec

\* The exchange's book at an update id.
LEMMA TruthAtId ==
    ASSUME NEW k \in Nat
    PROVE  TruthAt(IdOf(k)) = truth[k + 1]
<1>1. CASE Sync = "spot"
  BY <1>1 DEF TruthAt, IdOf
<1>2. CASE Sync # "spot"
  <2>1. (2 * k) \div 2 = k
    OBVIOUS
  <2>2. QED
    BY <1>2, <2>1 DEF TruthAt, IdOf
<1>3. QED
  BY <1>1, <1>2

\* A side that is the exchange's at an update is exact at its id.
LEMMA SideExactAt ==
    ASSUME ChainInv, NEW s \in SideType, NEW id, SideAt(s, id, truth)
    PROVE  ExactAt(s, id)
<1>1. PICK k \in 0 .. Len(truth) - 1 : id = IdOf(k) /\ Exact(s, truth[k + 1])
  BY DEF SideAt
<1>2. truth[k + 1] \subseteq Nat
  <2>1. truth[k + 1] \in SUBSET Prices
    BY HistoryTyped, HistoryBook
  <2>2. QED
    BY <2>1, FinitePrices
<1>3. TruthAt(id) = truth[k + 1]
  <2>1. k \in Nat
    BY <1>1
  <2>2. QED
    BY <1>1, <2>1, TruthAtId
<1>4. \A p \in truth[k + 1] : p >= 0
  BY <1>2
<1>5. QED
  BY <1>1, <1>3, <1>4 DEF Exact, ExactAt, NoHorizon

\* A book that claims to be in sequence has, inside its horizon, exactly the
\* levels the exchange had at the update the book is at, and so has a refresh
\* snapshot that waits for its event (order_book_manager.hpp:9-17).
THEOREM BookIsExact == Spec => []BookExact
<1>1. ChainInv /\ ExactInv => BookExact
  <2> SUFFICES ASSUME ChainInv, ExactInv, LevelsRead
               PROVE  /\ book.state = "VALID" => ExactAt(book.side, book.seq.lastId)
                      /\ book.shadow.pending => ExactAt(book.shadow.side, book.shadow.seq.lastId)
    BY DEF BookExact
  <2>1. ExactBook(book, truth)
    BY DEF ExactInv, Exactly
  <2>2. book.side \in SideType /\ book.shadow.side \in SideType
    BY HandlerGood DEF BookType, ShadowType
  <2>3. QED
    BY <2>1, <2>2, SideExactAt DEF ExactBook
<1>2. QED
  BY <1>1, QuotesExact, PTL

\* A valid row shows the best Depth levels the exchange had at the row's update
\* id (tests/test_order_book.cpp:794).
THEOREM RowsAreExact == Spec => []PublishedExact
<1>1. ChainInv /\ ExactInv => PublishedExact
  <2> SUFFICES ASSUME ChainInv, ExactInv, LevelsRead, last.valid
               PROVE  last.top = Best(TruthAt(last.u), Depth)
    BY DEF PublishedExact
  <2>1. PICK k \in 0 .. Len(truth) - 1 : last.u = IdOf(k) /\ last.top = Best(truth[k + 1], Depth)
    BY DEF ExactInv, Exactly, ExactRow
  <2>2. k \in Nat
    BY <2>1
  <2>3. QED
    BY <2>1, <2>2, TruthAtId
<1>2. QED
  BY <1>1, QuotesExact, PTL

=============================================================================
