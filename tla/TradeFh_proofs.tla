--------------------------- MODULE TradeFh_proofs ---------------------------
(***************************************************************************)
(* Proofs about TradeFh: the types, what an answer in flight belongs to,   *)
(* that no progress is claimed that is not in the log, that no gap is      *)
(* forgotten, and that no trade is logged twice, for every number of       *)
(* trades, pages, gaps, faults and kills.                                  *)
(***************************************************************************)
EXTENDS TradeFh, NatLemmas, FiniteSetTheorems, TLAPS

-----------------------------------------------------------------------------
(* Types *)

\* A gap, or what is left of it, among the first s trades.
Spans(g, s) ==
    /\ g.first <= g.last /\ g.last <= s
    /\ g.through = 0 \/ (g.first <= g.through /\ g.through <= g.last)

GapType(s) ==
    {g \in [first : Ids, last : Ids, through : 0 .. MaxTrades, status : Statuses] : Spans(g, s)}

JobType(s) ==
    {g \in [first : Ids, last : Ids, through : 0 .. MaxTrades, failures : Nat] : Spans(g, s)}

RowType(s) == [do : {"row"}, id : 1 .. s, back : BOOLEAN]

CommandType(s) ==
    [do : {"row"}, id : 0 .. s, back : BOOLEAN] \cup [do : {"event"}, event : GapType(s)]
        \cup {Flush, Pump}

PageType == [ok : BOOLEAN, tooOld : BOOLEAN, ids : SUBSET Nat]

FetchType ==
    {NoFetch} \cup [st : {"asked"}, from : Nat, limit : Nat]
        \cup [st : {"page"}, from : Nat, page : PageType]

\* The log and the gaps of TP, as LogRow takes them.
TpType == [logged : [Ids -> Nat], gaps : SUBSET GapType(MaxTrades)]

TpNow == [logged |-> logged, gaps |-> gaps]

\* TP knows a gap by its first id, and has logged no trade that was not made.
TpTyped(t, s) ==
    /\ t \in TpType
    /\ LoggedIds(t.logged) \subseteq 1 .. s
    /\ t.gaps \subseteq GapType(s)
    /\ IsFiniteSet(t.gaps)
    /\ \A g, h \in t.gaps : g.first = h.first => g = h

\* Ids of the rows n + 1 .. m of a channel.
ChanIds(q, n, m) == {q[k].id : k \in n + 1 .. m}

Sending == {"flush", "event"}

\* The pump is the last command, and a row is followed by a flush.
Ordered(td) ==
    \A k \in 1 .. Len(td) :
        /\ td[k].do = "pump" => k = Len(td)
        /\ td[k].do = "row" => \E m \in k + 1 .. Len(td) : td[m].do \in Sending

Sends(td) == \E k \in 1 .. Len(td) : td[k].do \in Sending

\* Events wait for a flush that will come, or for a connection.
EventsWait == events # <<>> /\ conn # "closed" => Sends(todo)

Nothing == todo = <<>> /\ events = <<>> /\ jobs = <<>> /\ chan = <<>> /\ fetch = NoFetch

TypedInv ==
    /\ sent \in 0 .. MaxTrades
    /\ up \in BOOLEAN
    /\ conn \in {"up", "broken", "closed"}
    /\ last \in 0 .. sent
    /\ jobs \in Seq(JobType(sent))
    /\ fetch \in FetchType
    /\ events \in Seq(GapType(sent))
    /\ todo \in Seq(CommandType(sent))
    /\ chan \in Seq(RowType(sent))
    /\ TpTyped(TpNow, sent)
    /\ left \in [FaultKinds -> Nat]
    /\ Ordered(todo)
    /\ EventsWait
    /\ ~up => Nothing
    /\ AnswerFitsGap

-----------------------------------------------------------------------------
(* Types that grow with the trades *)

\* What is among the first s trades is among more of them.
LEMMA TypesGrow ==
    ASSUME NEW s \in Nat, NEW u \in Nat, s <= u
    PROVE  /\ GapType(s) \subseteq GapType(u) /\ JobType(s) \subseteq JobType(u)
           /\ RowType(s) \subseteq RowType(u) /\ CommandType(s) \subseteq CommandType(u)
<1>1. GapType(s) \subseteq GapType(u)
  BY DEF GapType, Spans, Ids
<1>2. JobType(s) \subseteq JobType(u)
  BY DEF JobType, Spans, Ids
<1>3. RowType(s) \subseteq RowType(u)
  BY DEF RowType
<1>4. CommandType(s) \subseteq CommandType(u)
  <2>1. [do : {"row"}, id : 0 .. s, back : BOOLEAN] \subseteq [do : {"row"}, id : 0 .. u, back : BOOLEAN]
    OBVIOUS
  <2>2. [do : {"event"}, event : GapType(s)] \subseteq [do : {"event"}, event : GapType(u)]
    BY <1>1
  <2>3. QED
    BY <2>1, <2>2 DEF CommandType
<1>5. QED
  BY <1>1, <1>2, <1>3, <1>4

\* Sequences of a smaller type.
LEMMA SeqGrows ==
    ASSUME NEW S, NEW T, S \subseteq T
    PROVE  Seq(S) \subseteq Seq(T)
OBVIOUS

\* The queues keep their types as trades are made.
LEMMA QueuesGrow ==
    ASSUME NEW s \in Nat, NEW u \in Nat, s <= u
    PROVE  /\ Seq(GapType(s)) \subseteq Seq(GapType(u)) /\ Seq(JobType(s)) \subseteq Seq(JobType(u))
           /\ Seq(RowType(s)) \subseteq Seq(RowType(u))
           /\ Seq(CommandType(s)) \subseteq Seq(CommandType(u))
BY TypesGrow, SeqGrows

\* The fields of a gap.
LEMMA GapFields ==
    ASSUME NEW s \in Nat, NEW g \in GapType(s)
    PROVE  /\ g.first \in 1 .. s /\ g.last \in g.first .. s /\ g.status \in Statuses
           /\ g.through \in Nat /\ g.through <= g.last
           /\ g.through = 0 \/ g.through >= g.first
           /\ g.first \in Ids /\ g.last \in Ids /\ g.through \in 0 .. MaxTrades
BY TradeConstants DEF GapType, Spans, Ids

\* The fields of a job.
LEMMA JobFields ==
    ASSUME NEW s \in Nat, NEW g \in JobType(s)
    PROVE  /\ g.first \in 1 .. s /\ g.last \in g.first .. s /\ g.failures \in Nat
           /\ g.through \in Nat /\ g.through <= g.last
           /\ g.through = 0 \/ g.through >= g.first
           /\ g.first \in Ids /\ g.last \in Ids /\ g.through \in 0 .. MaxTrades
BY TradeConstants DEF JobType, Spans, Ids

-----------------------------------------------------------------------------
(* TP's rows and events *)

\* A backfilled row leaves a gap a gap, and its bounds and status alone.
Moved(g, i) == IF g.first <= i /\ i <= g.last THEN [g EXCEPT !.through = Max({i, @})] ELSE g

\* A gap moved on by a row inside it is still a gap, with the same bounds.
LEMMA MovedGap ==
    ASSUME NEW s \in Nat, NEW g \in GapType(s), NEW i \in Nat
    PROVE  /\ Moved(g, i) \in GapType(s)
           /\ Moved(g, i).first = g.first /\ Moved(g, i).last = g.last
           /\ Moved(g, i).status = g.status
           /\ Moved(g, i).through = IF Covers(g, i) /\ i > g.through THEN i ELSE g.through
<1> USE GapFields
<1>1. CASE ~ Covers(g, i)
  BY <1>1 DEF Moved, Covers
<1>2. CASE Covers(g, i)
  <2>1. Max({i, g.through}) = IF i >= g.through THEN i ELSE g.through
    BY MaxOfTwo
  <2>2. Moved(g, i) = [g EXCEPT !.through = Max({i, g.through})]
    BY <1>2 DEF Moved, Covers
  <2>3. Max({i, g.through}) \in 0 .. MaxTrades
    <3>1. g.last \in 1 .. MaxTrades /\ g.first \in 1 .. MaxTrades /\ g.through \in 0 .. MaxTrades
      BY DEF Ids
    <3>2. i \in 0 .. MaxTrades
      BY <1>2, <3>1, TradeConstants DEF Covers
    <3>3. QED
      BY <2>1, <3>1, <3>2
  <2> DEFINE m == Max({i, g.through})
             x == [g EXCEPT !.through = m]
  <2>4. x.first = g.first /\ x.last = g.last /\ x.status = g.status /\ x.through = m
    BY DEF GapType
  <2>5. x \in [first : Ids, last : Ids, through : 0 .. MaxTrades, status : Statuses]
    <3> HIDE DEF m
    <3>1. QED
      BY <2>3 DEF GapType, m
  <2>6. Spans(x, s)
    <3>1. Spans(g, s)
      BY DEF GapType
    <3> HIDE DEF x, m
    <3>2. m = IF i >= g.through THEN i ELSE g.through
      BY <2>1 DEF m
    <3>3. g.first <= i /\ i <= g.last /\ g.first \in Nat /\ g.last \in Nat /\ g.through \in Nat
      BY <1>2 DEF Covers
    <3>4. QED
      BY <2>4, <3>1, <3>2, <3>3 DEF Spans
  <2>7. x \in GapType(s)
    BY <2>5, <2>6 DEF GapType
  <2>8. m = IF i > g.through THEN i ELSE g.through
    <3> HIDE DEF m
    <3>1. QED
      BY <2>1 DEF m
  <2>9. QED
    BY <1>2, <2>2, <2>4, <2>7, <2>8
<1>3. QED
  BY <1>1, <1>2

\* NoteBackfill moves each gap for itself.
LEMMA NoteBackfillMoves ==
    ASSUME NEW gs, NEW i
    PROVE  NoteBackfill(gs, i) = {Moved(g, i) : g \in gs}
BY DEF NoteBackfill, Moved

\* LogRow maps states of TP to states of TP.
LEMMA LogRowTyped ==
    ASSUME NEW t \in TpType, NEW c \in RowType(MaxTrades)
    PROVE  LogRow(t, c) \in TpType
<1>1. c.id \in Ids /\ c.id \in Nat /\ MaxTrades \in Nat
  BY TradeConstants DEF RowType, Ids
<1>2. [t.logged EXCEPT ![c.id] = @ + 1] \in [Ids -> Nat]
  BY <1>1 DEF TpType
<1>3. t.gaps \subseteq GapType(MaxTrades)
  BY DEF TpType
<1>4. NoteBackfill(t.gaps, c.id) \subseteq GapType(MaxTrades)
  BY <1>1, <1>3, MovedGap, NoteBackfillMoves
<1>5. QED
  BY <1>2, <1>3, <1>4 DEF LogRow, TpType

\* r is what TP becomes as it logs the rows of q, one after the other.
LogRun(r, t, q) ==
    /\ r \in [0 .. Len(q) -> TpType]
    /\ r[0] = t
    /\ \A k \in 1 .. Len(q) : r[k] = LogRow(r[k - 1], q[k])
    /\ FoldLeft(LogRow, t, q) = r[Len(q)]

\* Rows can be logged one after the other.
LEMMA LogRowRun ==
    ASSUME NEW t \in TpType, NEW q \in Seq(RowType(MaxTrades))
    PROVE  \E r : LogRun(r, t, q)
<1> DEFINE n == Len(q)
           h == [k \in 1 .. n |-> [y \in TpType |-> LogRow(y, q[k])]]
           Is(g) == g = [s \in SUBSET (DOMAIN q) |->
                           IF s = {} THEN t ELSE LogRow(g[s \ {Max(s)}], q[Max(s)])]
           f == CHOOSE g : Is(g)
<1>1. n \in Nat /\ DOMAIN q = 1 .. n /\ \A k \in 1 .. n : q[k] \in RowType(MaxTrades)
  OBVIOUS
<1>2. h \in [1 .. n -> [TpType -> TpType]]
  <2>1. \A k \in 1 .. n : \A y \in TpType : LogRow(y, q[k]) \in TpType
    BY <1>1, LogRowTyped
  <2> HIDE DEF n
  <2>2. QED
    BY <2>1
<1>3. Picks(LastOf(n), 1 .. n) /\ IsFiniteSet(1 .. n)
  BY <1>1, LastOfPicks
<1>4. PICK g \in [SUBSET (1 .. n) -> TpType] : Folds(g, 1 .. n, LastOf(n), t, h)
  <2> HIDE DEF n, h
  <2>1. QED
    BY <1>1, <1>2, <1>3, FoldExists
<1>5. ASSUME NEW s \in SUBSET (1 .. n), s # {}
      PROVE  Max(s) \in 1 .. n /\ s \ {Max(s)} \in SUBSET (1 .. n) /\ LastOf(n)[s] = Max(s)
  <2> HIDE DEF n
  <2>1. LastOf(n)[s] = Max(s)
    BY DEF LastOf
  <2>2. Max(s) \in s
    BY <1>3, <1>5, <2>1 DEF Picks
  <2>3. QED
    BY <2>1, <2>2
<1>6. ASSUME NEW s \in SUBSET (1 .. n), s # {}
      PROVE  g[s] = LogRow(g[s \ {Max(s)}], q[Max(s)])
  <2>1. g[s] = h[Max(s)][g[s \ {Max(s)}]]
    <3> HIDE DEF n, h
    <3>1. QED
      BY <1>4, <1>5, <1>6 DEF Folds
  <2>2. Max(s) \in 1 .. n /\ g[s \ {Max(s)}] \in TpType
    <3> HIDE DEF n, h
    <3>1. QED
      BY <1>4, <1>5, <1>6
  <2> HIDE DEF n
  <2>3. QED
    BY <2>1, <2>2
<1>7. g[{}] = t
  <2> HIDE DEF n, h
  <2>1. QED
    BY <1>4 DEF Folds
<1>8. Is(g)
  <2> HIDE DEF n, h
  <2>1. QED
    BY <1>1, <1>4, <1>6, <1>7
<1>9. Is(f)
  <2> HIDE DEF Is
  <2>1. QED
    BY <1>8
<1>10. FoldLeft(LogRow, t, q) = f[DOMAIN q]
  BY DEF FoldLeft, MapThenFoldSet
<1> HIDE DEF f
<1>11. FoldsIn(f, n, t, h, TpType)
  <2>1. f[{}] = t
    BY <1>9
  <2>2. ASSUME NEW s \in SUBSET (1 .. n), s # {}, f[s \ {Max(s)}] \in TpType
        PROVE  f[s] = h[Max(s)][f[s \ {Max(s)}]]
    <3>1. f[s] = LogRow(f[s \ {Max(s)}], q[Max(s)])
      BY <1>1, <1>9, <2>2
    <3>2. Max(s) \in 1 .. n
      BY <1>5, <2>2
    <3> HIDE DEF n
    <3>3. QED
      BY <2>2, <3>1, <3>2
  <2> HIDE DEF n, h
  <2>3. QED
    BY <2>1, <2>2 DEF FoldsIn
<1>12. PICK r : StepsThrough(r, n, t, h, TpType) /\ f[1 .. n] = r[n]
  <2> HIDE DEF n, h, Is
  <2>1. QED
    BY <1>1, <1>2, <1>11, RunOfFold
<1>13. ASSUME NEW k \in 1 .. n
       PROVE  r[k] = LogRow(r[k - 1], q[k])
  <2>1. r \in [0 .. n -> TpType] /\ r[k] = h[k][r[k - 1]]
    <3> HIDE DEF n, h
    <3>1. QED
      BY <1>12 DEF StepsThrough
  <2>2. k - 1 \in 0 .. n
    <3> HIDE DEF n
    <3>1. QED
      BY <1>1
  <2>3. r[k - 1] \in TpType
    <3> HIDE DEF n, h
    <3>1. QED
      BY <2>1, <2>2
  <2> HIDE DEF n
  <2>4. QED
    BY <2>1, <2>3
<1>14. r \in [0 .. n -> TpType] /\ r[0] = t
  <2> HIDE DEF n, h
  <2>1. QED
    BY <1>12 DEF StepsThrough
<1>15. FoldLeft(LogRow, t, q) = r[n]
  BY <1>1, <1>10, <1>12
<1>16. LogRun(r, t, q)
  <2> HIDE DEF h, Is
  <2>1. QED
    BY <1>13, <1>14, <1>15 DEF LogRun
<1>17. QED
  BY <1>16

\* What a logged row makes of TP.
LEMMA LogRowEffect ==
    ASSUME NEW t \in TpType, NEW c \in RowType(MaxTrades)
    PROVE  /\ LoggedIds(LogRow(t, c).logged) = LoggedIds(t.logged) \cup {c.id}
           /\ LogRow(t, c).gaps = IF c.back THEN {Moved(g, c.id) : g \in t.gaps} ELSE t.gaps
<1>1. c.id \in Ids
  BY TradeConstants DEF RowType, Ids
<1>2. t.logged \in [Ids -> Nat]
  BY DEF TpType
<1>3. LogRow(t, c).logged = [t.logged EXCEPT ![c.id] = @ + 1]
  BY DEF LogRow
<1>4. \A i \in Ids : [t.logged EXCEPT ![c.id] = @ + 1][i] > 0 <=> (t.logged[i] > 0 \/ i = c.id)
  BY <1>1, <1>2
<1>5. LoggedIds(LogRow(t, c).logged) = LoggedIds(t.logged) \cup {c.id}
  BY <1>1, <1>3, <1>4 DEF LoggedIds
<1>6. LogRow(t, c).gaps = IF c.back THEN NoteBackfill(t.gaps, c.id) ELSE t.gaps
  BY DEF LogRow
<1>7. QED
  BY <1>5, <1>6, NoteBackfillMoves

\* A row of a trade that was made leaves TP typed.
LEMMA LogRowKeepsTyped ==
    ASSUME NEW s \in 0 .. MaxTrades, NEW t, TpTyped(t, s), NEW c \in RowType(s)
    PROVE  TpTyped(LogRow(t, c), s)
<1>1. s \in Nat /\ MaxTrades \in Nat /\ c \in RowType(MaxTrades) /\ t \in TpType
  BY TypesGrow, TradeConstants DEF TpTyped
<1>2. c.id \in 1 .. s /\ c.id \in Nat
  BY DEF RowType
<1>3. LoggedIds(LogRow(t, c).logged) \subseteq 1 .. s
  <2>1. LoggedIds(t.logged) \subseteq 1 .. s
    BY DEF TpTyped
  <2>2. LoggedIds(LogRow(t, c).logged) = LoggedIds(t.logged) \cup {c.id}
    BY <1>1, LogRowEffect
  <2>3. QED
    BY <1>2, <2>1, <2>2
<1>4. LogRow(t, c).gaps = t.gaps \/ LogRow(t, c).gaps = {Moved(g, c.id) : g \in t.gaps}
  BY <1>1, LogRowEffect
<1>5. CASE LogRow(t, c).gaps = t.gaps
  BY <1>1, <1>3, <1>5, LogRowTyped DEF TpTyped
<1>6. CASE LogRow(t, c).gaps = {Moved(g, c.id) : g \in t.gaps}
  <2> DEFINE M == {Moved(g, c.id) : g \in t.gaps}
  <2>1. t.gaps \subseteq GapType(s)
    BY DEF TpTyped
  <2>2. M \subseteq GapType(s)
    BY <1>1, <1>2, <2>1, MovedGap
  <2>3. IsFiniteSet(M)
    <3>1. IsFiniteSet(t.gaps)
      BY DEF TpTyped
    <3> DEFINE f == [g \in t.gaps |-> Moved(g, c.id)]
    <3>2. f \in Surjection(t.gaps, M)
      BY DEF Surjection
    <3>3. QED
      BY <3>1, <3>2, FS_Surjection
  <2>4. \A g, h \in M : g.first = h.first => g = h
    <3>1. SUFFICES ASSUME NEW a \in t.gaps, NEW b \in t.gaps,
                          Moved(a, c.id).first = Moved(b, c.id).first
                   PROVE  Moved(a, c.id) = Moved(b, c.id)
      OBVIOUS
    <3>2. a.first = b.first
      <4>1. a \in GapType(s) /\ b \in GapType(s)
        BY <2>1
      <4>2. Moved(a, c.id).first = a.first
        BY <1>1, <1>2, <4>1, MovedGap
      <4>3. Moved(b, c.id).first = b.first
        BY <1>1, <1>2, <4>1, MovedGap
      <4>4. QED
        BY <3>1, <4>2, <4>3
    <3>3. QED
      BY <3>2 DEF TpTyped
  <2> HIDE DEF M
  <2>5. QED
    BY <1>1, <1>3, <1>6, <2>2, <2>3, <2>4, LogRowTyped DEF TpTyped, M
<1>7. QED
  BY <1>4, <1>5, <1>6

\* An event of a gap that was seen leaves TP typed.
LEMMA NoteGapKeepsTyped ==
    ASSUME NEW s \in 0 .. MaxTrades, NEW t, TpTyped(t, s), NEW ev \in GapType(s)
    PROVE  TpTyped([logged |-> t.logged, gaps |-> NoteGap(t.gaps, ev)], s)
<1> DEFINE G == {g \in t.gaps : g.first # ev.first}
<1>1. s \in Nat /\ MaxTrades \in Nat /\ ev \in GapType(MaxTrades) /\ t \in TpType
  BY TypesGrow, TradeConstants DEF TpTyped
<1>2. IsFiniteSet(G)
  BY FS_Subset DEF TpTyped
<1>3. IsFiniteSet(G \cup {ev})
  BY <1>2, FS_AddElement
<1>4. NoteGap(t.gaps, ev) = G \cup {ev}
  BY DEF NoteGap
<1>5. G \cup {ev} \subseteq GapType(s)
  BY DEF TpTyped
<1>6. \A g, h \in G \cup {ev} : g.first = h.first => g = h
  BY DEF TpTyped
<1>7. [logged |-> t.logged, gaps |-> G \cup {ev}] \in TpType
  BY <1>1 DEF TpType
<1> HIDE DEF G
<1>8. QED
  BY <1>3, <1>4, <1>5, <1>6, <1>7 DEF TpTyped

\* LogRows runs LogRow over the rows.
LEMMA LogRowsRun ==
    ASSUME NEW s \in 0 .. MaxTrades, TpTyped(TpNow, s), NEW q \in Seq(RowType(s))
    PROVE  \E r : LogRun(r, TpNow, q) /\ LogRows(q) = r[Len(q)]
<1>1. q \in Seq(RowType(MaxTrades)) /\ TpNow \in TpType
  BY TradeConstants, QueuesGrow DEF TpTyped
<1>2. PICK r : LogRun(r, TpNow, q)
  BY <1>1, LogRowRun
<1>3. LogRows(q) = FoldLeft(LogRow, TpNow, q)
  BY DEF LogRows, TpNow
<1>4. QED
  BY <1>2, <1>3 DEF LogRun

\* Along a run TP stays typed, and has logged what was logged and the rows so far.
LEMMA RunTyped ==
    ASSUME NEW s \in 0 .. MaxTrades, NEW t, TpTyped(t, s), NEW q \in Seq(RowType(s)),
           NEW r, LogRun(r, t, q)
    PROVE  \A n \in 0 .. Len(q) :
                /\ TpTyped(r[n], s)
                /\ LoggedIds(r[n].logged) = LoggedIds(t.logged) \cup ChanIds(q, 0, n)
<1> DEFINE Q(n) == /\ TpTyped(r[n], s)
                   /\ LoggedIds(r[n].logged) = LoggedIds(t.logged) \cup ChanIds(q, 0, n)
           P == {n \in Nat : n <= Len(q) => Q(n)}
<1>1. 0 \in P
  <2>1. r[0] = t /\ ChanIds(q, 0, 0) = {}
    BY DEF LogRun, ChanIds
  <2>2. QED
    BY <2>1
<1>2. ASSUME NEW n \in Nat, n \in P
      PROVE  n + 1 \in P
  <2>1. SUFFICES ASSUME n + 1 <= Len(q)
                 PROVE  Q(n + 1)
    OBVIOUS
  <2>2. Q(n) /\ n + 1 \in 1 .. Len(q)
    BY <1>2, <2>1
  <2>3. r[n + 1] = LogRow(r[n], q[n + 1])
    BY <2>2 DEF LogRun
  <2>4. q[n + 1] \in RowType(s) /\ q[n + 1] \in RowType(MaxTrades) /\ r[n] \in TpType
    BY <2>2, TypesGrow, TradeConstants DEF TpTyped
  <2>5. TpTyped(r[n + 1], s)
    BY <2>2, <2>3, <2>4, LogRowKeepsTyped
  <2>6. LoggedIds(r[n + 1].logged) = LoggedIds(r[n].logged) \cup {q[n + 1].id}
    <3>1. LoggedIds(LogRow(r[n], q[n + 1]).logged) = LoggedIds(r[n].logged) \cup {q[n + 1].id}
      BY <2>4, LogRowEffect
    <3>2. QED
      BY <2>3, <3>1
  <2>7. ChanIds(q, 0, n + 1) = ChanIds(q, 0, n) \cup {q[n + 1].id}
    BY DEF ChanIds
  <2>8. QED
    BY <2>2, <2>5, <2>6, <2>7
<1> HIDE DEF Q
<1>3. Nat \subseteq P
  <2> HIDE DEF P
  <2>1. QED
    BY <1>1, <1>2, SetInduction
<1>4. ASSUME NEW n \in 0 .. Len(q)
      PROVE  Q(n)
  BY <1>3
<1>5. QED
  BY <1>4 DEF Q

\* TP logs rows and stays typed.
LEMMA LogRowsTyped ==
    ASSUME NEW s \in 0 .. MaxTrades, TpTyped(TpNow, s), NEW q \in Seq(RowType(s))
    PROVE  /\ TpTyped(LogRows(q), s)
           /\ LoggedIds(LogRows(q).logged) = LoggedIds(logged) \cup ChanIds(q, 0, Len(q))
<1>1. PICK r : LogRun(r, TpNow, q) /\ LogRows(q) = r[Len(q)]
  BY LogRowsRun
<1>2. Len(q) \in 0 .. Len(q) /\ TpNow.logged = logged
  BY DEF TpNow
<1>3. QED
  BY <1>1, <1>2, RunTyped

-----------------------------------------------------------------------------
(* What is left to do *)

\* The rest of an ordered list of commands is ordered.
LEMMA OrderedTail ==
    ASSUME NEW T, NEW td \in Seq(T), td # <<>>, Ordered(td)
    PROVE  Ordered(Tail(td))
<1> DEFINE n == Len(td)
           u == Tail(td)
<1>1. n \in Nat /\ Len(u) = n - 1 /\ \A i \in 1 .. n - 1 : u[i] = td[i + 1]
  BY TailSeq
<1>2. \A k \in 1 .. n : /\ td[k].do = "pump" => k = n
                        /\ td[k].do = "row" => \E m \in k + 1 .. n : td[m].do \in Sending
  BY DEF Ordered
<1> SUFFICES Ordered(u)
  OBVIOUS
<1> HIDE DEF n, u
<1>3. ASSUME NEW k \in 1 .. n - 1
      PROVE  /\ u[k].do = "pump" => k = n - 1
             /\ u[k].do = "row" => \E m \in k + 1 .. n - 1 : u[m].do \in Sending
  <2>1. k + 1 \in 1 .. n /\ u[k] = td[k + 1]
    BY <1>1
  <2>2. u[k].do = "pump" => k = n - 1
    BY <1>1, <1>2, <2>1
  <2>3. ASSUME u[k].do = "row"
        PROVE  \E m \in k + 1 .. n - 1 : u[m].do \in Sending
    <3>1. PICK m \in (k + 1) + 1 .. n : td[m].do \in Sending
      BY <1>2, <2>1, <2>3
    <3>2. m - 1 \in k + 1 .. n - 1 /\ u[m - 1] = td[m - 1 + 1] /\ m - 1 + 1 = m
      BY <1>1, <3>1
    <3>3. QED
      BY <3>1, <3>2
  <2>4. QED
    BY <2>2, <2>3
<1>4. QED
  BY <1>1, <1>3 DEF Ordered

\* After a row something is still sent.
LEMMA RowThenSends ==
    ASSUME NEW T, NEW td \in Seq(T), td # <<>>, Ordered(td), Head(td).do = "row"
    PROVE  Sends(Tail(td))
<1>1. /\ Len(Tail(td)) = Len(td) - 1 /\ Len(td) \in Nat /\ Len(td) >= 1 /\ Head(td) = td[1]
      /\ \A i \in 1 .. Len(td) - 1 : Tail(td)[i] = td[i + 1]
  BY TailSeq
<1>2. PICK m \in 1 + 1 .. Len(td) : td[m].do \in Sending
  <2>1. 1 \in 1 .. Len(td) /\ td[1].do = "row"
    BY <1>1
  <2>2. QED
    BY <2>1 DEF Ordered
<1>3. m - 1 \in 1 .. Len(Tail(td)) /\ Tail(td)[m - 1] = td[m - 1 + 1] /\ m - 1 + 1 = m
  BY <1>1, <1>2
<1>4. QED
  BY <1>2, <1>3 DEF Sends

\* Rest leaves out a command, or that and a flush.
LEMMA RestTyped ==
    ASSUME NEW s, NEW evs, todo \in Seq(CommandType(s)), todo # <<>>, Ordered(todo)
    PROVE  /\ Rest(evs) \in Seq(CommandType(s)) /\ Ordered(Rest(evs))
           /\ evs # <<>> => Rest(evs) = Tail(todo)
<1>1. Tail(todo) \in Seq(CommandType(s)) /\ Ordered(Tail(todo))
  BY OrderedTail
<1>2. CASE Tail(todo) = <<>>
  BY <1>1, <1>2 DEF Rest
<1>3. CASE Tail(todo) # <<>>
  <2>1. Tail(Tail(todo)) \in Seq(CommandType(s)) /\ Ordered(Tail(Tail(todo)))
    <3> DEFINE u == Tail(todo)
    <3>1. u \in Seq(CommandType(s)) /\ Ordered(u) /\ u # <<>>
      BY <1>1, <1>3
    <3> HIDE DEF u
    <3>2. Ordered(Tail(u)) /\ Tail(u) \in Seq(CommandType(s))
      BY <3>1, OrderedTail
    <3>3. QED
      BY <3>2 DEF u
  <2>2. Rest(evs) \in {Tail(todo), Tail(Tail(todo))}
    BY Zenon DEF Rest
  <2>3. evs # <<>> => Rest(evs) = Tail(todo)
    BY DEF Rest
  <2>4. QED
    BY <1>1, <2>1, <2>2, <2>3
<1>4. QED
  BY <1>2, <1>3

\* The commands of a message are in order.
LEMMA MessageOrdered ==
    ASSUME NEW a, NEW b, a.do = "event", b.do = "row"
    PROVE  /\ Ordered(<<a, b, Flush, Pump>>) /\ Sends(<<a, b, Flush, Pump>>)
           /\ Ordered(<<b, Flush, Pump>>) /\ Sends(<<b, Flush, Pump>>)
           /\ Ordered(<<Pump>>)
<1>1. Flush.do = "flush" /\ Pump.do = "pump"
  BY DEF Flush, Pump
<1>2. Ordered(<<a, b, Flush, Pump>>) /\ Sends(<<a, b, Flush, Pump>>)
  <2> DEFINE q == <<a, b, Flush, Pump>>
  <2>1. Len(q) = 4 /\ q[1] = a /\ q[2] = b /\ q[3] = Flush /\ q[4] = Pump
    OBVIOUS
  <2> HIDE DEF q
  <2>2. Ordered(q)
    <3>1. 3 \in 2 + 1 .. Len(q) /\ q[3].do \in Sending
      BY <1>1, <2>1 DEF Sending
    <3>2. QED
      BY <1>1, <2>1, <3>1 DEF Ordered
  <2>3. Sends(q)
    BY <1>1, <2>1 DEF Sends, Sending
  <2>4. QED
    BY <2>2, <2>3 DEF q
<1>3. Ordered(<<b, Flush, Pump>>) /\ Sends(<<b, Flush, Pump>>)
  <2> DEFINE q == <<b, Flush, Pump>>
  <2>1. Len(q) = 3 /\ q[1] = b /\ q[2] = Flush /\ q[3] = Pump
    OBVIOUS
  <2> HIDE DEF q
  <2>2. Ordered(q)
    <3>1. 2 \in 1 + 1 .. Len(q) /\ q[2].do \in Sending
      BY <1>1, <2>1 DEF Sending
    <3>2. QED
      BY <1>1, <2>1, <3>1 DEF Ordered
  <2>3. Sends(q)
    BY <1>1, <2>1 DEF Sends, Sending
  <2>4. QED
    BY <2>2, <2>3 DEF q
<1>4. Ordered(<<Pump>>)
  BY <1>1 DEF Ordered
<1>5. QED
  BY <1>2, <1>3, <1>4

\* The last id that TP has logged.
LEMMA LastIdIs ==
    ASSUME NEW s \in Nat, NEW lg, LoggedIds(lg) \subseteq 1 .. s
    PROVE  /\ Max(LoggedIds(lg) \cup {0}) \in 0 .. s
           /\ Max(LoggedIds(lg) \cup {0}) # 0 => Max(LoggedIds(lg) \cup {0}) \in LoggedIds(lg)
           /\ \A i \in LoggedIds(lg) : i <= Max(LoggedIds(lg) \cup {0})
<1> DEFINE S == LoggedIds(lg) \cup {0}
<1>1. S \subseteq Nat /\ S # {} /\ \A n \in S : n <= s
  <2>1. \A n \in 1 .. s : n \in Nat /\ n <= s
    OBVIOUS
  <2>2. 0 \in Nat /\ 0 <= s
    OBVIOUS
  <2>3. QED
    BY <2>1, <2>2
<1>2. Max(S) \in S /\ \A n \in S : n <= Max(S)
  <2> HIDE DEF S
  <2>1. QED
    BY <1>1, MaxOfSet
<1>3. QED
  BY <1>2

\* A fault leaves the counts of faults natural.
LEMMA FaultTyped ==
    ASSUME left \in [FaultKinds -> Nat], NEW kind \in FaultKinds \ {"any"}, Fault(kind)
    PROVE  left' \in [FaultKinds -> Nat]
<1>1. left[kind] \in Nat /\ left["any"] \in Nat /\ left[kind] > 0 /\ left["any"] > 0
  BY DEF Fault, FaultKinds
<1> DEFINE f == [left EXCEPT ![kind] = @ - 1]
<1>2. f \in [FaultKinds -> Nat] /\ f["any"] = left["any"] /\ "any" \in FaultKinds
  BY <1>1 DEF FaultKinds
<1>3. left' = [f EXCEPT !["any"] = @ - 1]
  BY DEF Fault
<1> HIDE DEF f
<1>4. QED
  BY <1>1, <1>2, <1>3

-----------------------------------------------------------------------------
(* Types: one lemma per action *)

\* TP's types hold with more trades made.
LEMMA TpGrows ==
    ASSUME NEW s \in Nat, NEW u \in Nat, s <= u, NEW t, TpTyped(t, s)
    PROVE  TpTyped(t, u)
<1>1. 1 .. s \subseteq 1 .. u
  OBVIOUS
<1>2. QED
  BY <1>1, TypesGrow DEF TpTyped

\* TP logs the first row of the channel.
LEMMA TpLogsTyped ==
    ASSUME TypedInv, TpLogs
    PROVE  TypedInv'
<1>1. /\ chan \in Seq(RowType(sent)) /\ chan # <<>> /\ TpTyped(TpNow, sent)
      /\ sent \in 0 .. MaxTrades
  BY DEF TypedInv, TpLogs
<1>2. Head(chan) \in RowType(sent) /\ Tail(chan) \in Seq(RowType(sent))
  BY <1>1, TailSeq
<1>3. <<Head(chan)>> \in Seq(RowType(sent))
  BY <1>2
<1>4. TpTyped(LogRows(<<Head(chan)>>), sent)
  BY <1>1, <1>3, LogRowsTyped
<1>5. /\ logged' = LogRows(<<Head(chan)>>).logged /\ gaps' = LogRows(<<Head(chan)>>).gaps
      /\ chan' = Tail(chan)
      /\ UNCHANGED <<sent, up, conn, last, jobs, fetch, events, todo, left>>
  BY DEF TpLogs, handler
<1>6. TpTyped(TpNow, sent)'
  BY <1>4, <1>5 DEF TpTyped, TpNow, TpType
<1>7. up
  BY <1>1 DEF TypedInv, Nothing
<1>8. QED
  BY <1>2, <1>5, <1>6, <1>7 DEF TypedInv, EventsWait, AnswerFitsGap

\* A handler starts with TP's trade state.
LEMMA StartTyped ==
    ASSUME TypedInv, Start
    PROVE  TypedInv'
<1>1. /\ Nothing /\ TpTyped(TpNow, sent) /\ sent \in 0 .. MaxTrades /\ up' = TRUE
      /\ conn' = "up" /\ last' = LastId /\ jobs' \in ByFirstId({Job(g) : g \in OpenGaps})
      /\ UNCHANGED <<sent, fetch, events, todo, chan, logged, gaps, left>>
  BY DEF Start, TypedInv, tp
<1>2. last' \in 0 .. sent
  BY <1>1, LastIdIs DEF TpTyped, TpNow, LastId
<1>3. jobs' \in Seq(JobType(sent))
  <2> DEFINE S == {Job(g) : g \in OpenGaps}
  <2>1. S \subseteq JobType(sent)
    <3>1. SUFFICES ASSUME NEW g \in gaps
                   PROVE  Job(g) \in JobType(sent)
      BY DEF OpenGaps
    <3>2. g \in GapType(sent)
      BY <1>1 DEF TpTyped, TpNow
    <3>3. QED
      BY <3>2 DEF GapType, JobType, Job, Spans
  <2>2. IsFiniteSet(S)
    <3>1. IsFiniteSet(OpenGaps)
      BY <1>1, FS_Subset DEF OpenGaps, TpTyped, TpNow
    <3> DEFINE f == [g \in OpenGaps |-> Job(g)]
    <3>2. f \in Surjection(OpenGaps, S)
      BY DEF Surjection
    <3>3. QED
      BY <3>1, <3>2, FS_Surjection
  <2>3. jobs' \in [1 .. Cardinality(S) -> S] /\ Cardinality(S) \in Nat
    BY <1>1, <2>2, FS_CardinalityType DEF ByFirstId
  <2> HIDE DEF S
  <2>4. QED
    BY <2>1, <2>3
<1>4. EventsWait' /\ AnswerFitsGap'
  BY <1>1 DEF EventsWait, AnswerFitsGap, Nothing, NoFetch
<1>5. TpTyped(TpNow, sent)'
  BY <1>1 DEF TpNow, TpTyped, TpType
<1>6. QED
  BY <1>1, <1>2, <1>3, <1>4, <1>5 DEF TypedInv

\* A handler starts without it.
LEMMA StartBlindTyped ==
    ASSUME TypedInv, StartBlind
    PROVE  TypedInv'
<1>1. /\ up' = TRUE /\ conn' \in {"closed", "up"}
      /\ UNCHANGED <<sent, last, jobs, fetch, events, todo, chan, logged, gaps>>
  BY DEF StartBlind, handler, tp
<1>2. left' \in [FaultKinds -> Nat]
  BY FaultTyped DEF StartBlind, TypedInv, FaultKinds
<1>3. TpTyped(TpNow, sent)'
  BY <1>1 DEF TypedInv, TpNow, TpTyped, TpType
<1>4. EventsWait' /\ AnswerFitsGap'
  <2>1. events = <<>>
    BY DEF StartBlind, TypedInv, Nothing
  <2>2. QED
    BY <1>1, <2>1 DEF TypedInv, EventsWait, AnswerFitsGap
<1>5. QED
  BY <1>1, <1>2, <1>3, <1>4 DEF TypedInv

\* A kill leaves TP with some of the rows, and nothing of the handler.
LEMMA KilledTyped ==
    ASSUME TypedInv, Killed
    PROVE  TypedInv'
<1>1. PICK n \in 0 .. Len(chan) : /\ logged' = LogRows(SubSeq(chan, 1, n)).logged
                                  /\ gaps' = LogRows(SubSeq(chan, 1, n)).gaps
  BY DEF Killed
<1>2. /\ chan' = <<>> /\ up' = FALSE /\ conn' = "closed" /\ last' = 0 /\ jobs' = <<>>
      /\ fetch' = NoFetch /\ events' = <<>> /\ todo' = <<>> /\ sent' = sent
  BY DEF Killed
<1>3. left' \in [FaultKinds -> Nat]
  BY FaultTyped DEF Killed, TypedInv, FaultKinds
<1>4. TpTyped(LogRows(SubSeq(chan, 1, n)), sent)
  <2>1. SubSeq(chan, 1, n) \in Seq(RowType(sent))
    BY PrefixSeq DEF TypedInv
  <2>2. QED
    BY <2>1, LogRowsTyped DEF TypedInv
<1>5. TpTyped(TpNow, sent)'
  BY <1>1, <1>2, <1>4 DEF TpTyped, TpNow, TpType
<1>6. /\ <<>> \in Seq(JobType(sent)) /\ <<>> \in Seq(GapType(sent))
      /\ <<>> \in Seq(CommandType(sent)) /\ <<>> \in Seq(RowType(sent))
  OBVIOUS
<1>7. Ordered(<<>>) /\ Nothing' /\ EventsWait' /\ AnswerFitsGap' /\ NoFetch \in FetchType
  BY <1>2 DEF Ordered, Nothing, EventsWait, AnswerFitsGap, NoFetch, FetchType
<1>8. sent \in 0 .. MaxTrades /\ 0 \in 0 .. sent
  BY TradeConstants DEF TypedInv
<1>9. QED
  BY <1>2, <1>3, <1>5, <1>6, <1>7, <1>8 DEF TypedInv

\* What a message leaves in memory.
LEMMA MessageTyped ==
    ASSUME TypedInv, NEW i \in Nat, NEW s \in 0 .. MaxTrades, sent <= s, i >= 1, i <= s,
           ValidateTradeId(i)
    PROVE  /\ last' \in 0 .. s /\ last' >= i
           /\ jobs' \in Seq(JobType(s))
           /\ jobs # <<>> => jobs' # <<>> /\ Head(jobs') = Head(jobs)
           /\ todo' \in Seq(CommandType(s)) /\ Ordered(todo') /\ Sends(todo')
<1> DEFINE gap == [first |-> last + 1, last |-> i - 1, through |-> 0]
           a == Record(GapEvent(gap, "detected"))
           b == Row(i, FALSE)
<1>1. sent \in Nat /\ s \in Nat /\ last \in 0 .. sent /\ last \in Nat /\ MaxTrades \in Nat
  BY TradeConstants DEF TypedInv
<1>2. last' \in 0 .. s /\ last' >= i
  <2>1. last' = IF last >= i THEN last ELSE i
    BY <1>1, MaxOfTwo DEF ValidateTradeId
  <2>2. QED
    BY <1>1, <2>1
<1>3. jobs \in Seq(JobType(s))
  BY <1>1, QueuesGrow DEF TypedInv
<1>4. b \in CommandType(s) /\ Flush \in CommandType(s) /\ Pump \in CommandType(s) /\ b.do = "row"
  BY <1>1 DEF CommandType, Row
<1>5. CASE IsGap(i)
  <2>1. last + 1 \in Ids /\ i - 1 \in Ids /\ last + 1 <= i - 1 /\ i - 1 <= s
    BY <1>1, <1>5 DEF IsGap, Ids
  <2>2. Job(gap) \in JobType(s)
    BY <1>1, <2>1 DEF Job, JobType, Spans
  <2>3. GapEvent(gap, "detected") \in GapType(s)
    BY <1>1, <2>1 DEF GapEvent, GapType, Spans, Statuses, OpenStatuses
  <2>4. a \in CommandType(s) /\ a.do = "event"
    BY <2>3 DEF CommandType, Record
  <2>5. jobs' = Append(jobs, Job(gap))
    BY <1>5 DEF ValidateTradeId
  <2>6. todo' = <<a, b, Flush, Pump>>
    BY <1>5 DEF ValidateTradeId
  <2> HIDE DEF gap, a, b
  <2>7. todo' \in Seq(CommandType(s))
    BY <1>4, <2>4, <2>6
  <2>8. Ordered(todo') /\ Sends(todo')
    BY <1>4, <2>4, <2>6, MessageOrdered
  <2>9. jobs' \in Seq(JobType(s)) /\ (jobs # <<>> => jobs' # <<>> /\ Head(jobs') = Head(jobs))
    <3>1. /\ jobs' \in Seq(JobType(s)) /\ Len(jobs') = Len(jobs) + 1
          /\ \A k \in 1 .. Len(jobs) : jobs'[k] = jobs[k]
      BY <1>3, <2>2, <2>5, AppendSeq
    <3>2. jobs # <<>> => 1 \in 1 .. Len(jobs) /\ Head(jobs) = jobs[1]
      BY <1>3
    <3>3. Len(jobs) \in Nat
      BY <1>3
    <3>4. jobs' # <<>> /\ Head(jobs') = jobs'[1]
      BY <3>1, <3>3
    <3>5. QED
      BY <3>1, <3>2, <3>4
  <2>10. QED
    BY <1>2, <2>7, <2>8, <2>9
<1>6. CASE ~ IsGap(i)
  <2>1. jobs' = jobs
    BY <1>6 DEF ValidateTradeId
  <2>2. todo' = <<b, Flush, Pump>>
    BY <1>6 DEF ValidateTradeId
  <2> HIDE DEF b
  <2>3. todo' \in Seq(CommandType(s))
    BY <1>4, <2>2
  <2>4. Ordered(todo') /\ Sends(todo')
    <3>1. PICK e : e = [do |-> "event"]
      OBVIOUS
    <3>2. e.do = "event"
      BY <3>1
    <3>3. QED
      BY <1>4, <2>2, <3>2, MessageOrdered
  <2>5. QED
    BY <1>2, <1>3, <2>1, <2>3, <2>4
<1>7. QED
  BY <1>5, <1>6

\* A message was handled: what it does to the invariant.
LEMMA HandledTyped ==
    ASSUME TypedInv, up, NEW i \in Nat, sent' \in 0 .. MaxTrades, sent <= sent', i >= 1,
           i <= sent', ValidateTradeId(i), UNCHANGED <<up, conn, fetch, events, chan, tp>>,
           left' \in [FaultKinds -> Nat]
    PROVE  TypedInv'
<1>1. sent \in Nat /\ sent' \in Nat
  BY TradeConstants DEF TypedInv
<1>2. /\ last' \in 0 .. sent'
      /\ jobs' \in Seq(JobType(sent'))
      /\ jobs # <<>> => jobs' # <<>> /\ Head(jobs') = Head(jobs)
      /\ todo' \in Seq(CommandType(sent')) /\ Ordered(todo') /\ Sends(todo')
  BY MessageTyped
<1>3. events' \in Seq(GapType(sent')) /\ chan' \in Seq(RowType(sent'))
  BY <1>1, QueuesGrow DEF TypedInv
<1>4. TpTyped(TpNow, sent')
  BY <1>1, TpGrows DEF TypedInv
<1>5. TpTyped(TpNow, sent)'
  BY <1>4 DEF TpTyped, TpNow, tp, TpType
<1>6. AnswerFitsGap'
  <2>1. AnswerFitsGap /\ fetch' = fetch
    BY DEF TypedInv
  <2>2. CASE fetch.st = "none"
    BY <2>1, <2>2 DEF AnswerFitsGap
  <2>3. CASE fetch.st # "none"
    <3>1. jobs # <<>> /\ jobs' # <<>> /\ Head(jobs') = Head(jobs)
      BY <1>2, <2>1, <2>3 DEF AnswerFitsGap
    <3>2. QED
      BY <2>1, <3>1 DEF AnswerFitsGap
  <2>4. QED
    BY <2>2, <2>3
<1>7. EventsWait'
  BY <1>2 DEF EventsWait
<1>8. QED
  BY <1>2, <1>3, <1>5, <1>6, <1>7 DEF TypedInv

\* The next trade is read.
LEMMA ReadTyped ==
    ASSUME TypedInv, Read
    PROVE  TypedInv'
<1>1. /\ sent \in Nat /\ sent' = sent + 1 /\ sent' \in 0 .. MaxTrades /\ MaxTrades \in Nat
      /\ left' \in [FaultKinds -> Nat]
  BY TradeConstants DEF TypedInv, Read, Trade
<1>2. /\ up /\ ValidateTradeId(sent + 1) /\ UNCHANGED <<up, conn, fetch, events, chan, tp>>
  BY DEF Read, ProcessMessage, Idle
<1>3. sent + 1 \in Nat /\ sent <= sent' /\ sent + 1 >= 1 /\ sent + 1 <= sent'
  BY <1>1
<1>4. QED
  BY <1>1, <1>2, <1>3, HandledTyped

\* An old trade is read again.
LEMMA ReadOldTyped ==
    ASSUME TypedInv, ReadOld
    PROVE  TypedInv'
<1>1. PICK i \in 1 .. last : ProcessMessage(i)
  BY DEF ReadOld
<1>2. left' \in [FaultKinds -> Nat]
  BY FaultTyped DEF ReadOld, TypedInv, FaultKinds
<1>3. up /\ ValidateTradeId(i) /\ UNCHANGED <<up, conn, fetch, events, chan, tp>> /\ sent' = sent
  BY <1>1 DEF ReadOld, ProcessMessage, Idle
<1>4. /\ i \in Nat /\ i >= 1 /\ i <= sent' /\ sent <= sent' /\ sent' \in 0 .. MaxTrades
  BY <1>1, <1>3, TradeConstants DEF TypedInv
<1>5. QED
  BY <1>2, <1>3, <1>4, HandledTyped

\* Only the trades, the list of commands and the faults change.
LEMMA CommandsTyped ==
    ASSUME TypedInv, sent' \in 0 .. MaxTrades, sent <= sent', up \/ todo' = <<>>,
           todo' \in Seq(CommandType(sent')), Ordered(todo'), EventsWait',
           UNCHANGED <<up, conn, last, jobs, fetch, events, chan, tp>>,
           left' \in [FaultKinds -> Nat]
    PROVE  TypedInv'
<1>1. sent \in Nat /\ sent' \in Nat
  BY TradeConstants DEF TypedInv
<1>2. /\ events' \in Seq(GapType(sent')) /\ chan' \in Seq(RowType(sent'))
      /\ jobs' \in Seq(JobType(sent'))
  BY <1>1, QueuesGrow DEF TypedInv
<1>3. TpTyped(TpNow, sent')
  BY <1>1, TpGrows DEF TypedInv
<1>4. TpTyped(TpNow, sent)'
  BY <1>3 DEF TpTyped, TpNow, tp, TpType
<1>5. AnswerFitsGap' /\ last' \in 0 .. sent'
  BY <1>1 DEF TypedInv, AnswerFitsGap
<1>6. ~up' => Nothing'
  BY DEF TypedInv, Nothing
<1>7. QED
  BY <1>2, <1>4, <1>5, <1>6 DEF TypedInv

\* A message that cannot be read.
LEMMA ReadUnreadableTyped ==
    ASSUME TypedInv, ReadUnreadable
    PROVE  TypedInv'
<1>1. /\ sent' \in 0 .. MaxTrades /\ sent <= sent' /\ up /\ todo = <<>> /\ todo' = <<Pump>>
      /\ UNCHANGED <<up, conn, last, jobs, fetch, events, chan, tp>>
  BY TradeConstants DEF TypedInv, ReadUnreadable, Trade, Idle
<1>2. left' \in [FaultKinds -> Nat]
  BY FaultTyped DEF ReadUnreadable, TypedInv, FaultKinds
<1>3. <<Pump>> \in Seq(CommandType(sent'))
  BY DEF CommandType
<1>4. Ordered(<<Pump>>)
  BY DEF Ordered, Pump
<1>5. EventsWait'
  BY <1>1 DEF TypedInv, EventsWait, Sends
<1>6. QED
  BY <1>1, <1>2, <1>3, <1>4, <1>5, CommandsTyped

\* A trade of another symbol.
LEMMA ReadOtherTyped ==
    ASSUME TypedInv, ReadOther
    PROVE  TypedInv'
<1>1. /\ sent' \in 0 .. MaxTrades /\ sent <= sent' /\ up /\ todo' = <<Row(0, FALSE), Flush, Pump>>
      /\ UNCHANGED <<up, conn, last, jobs, fetch, events, chan, tp>> /\ left' \in [FaultKinds -> Nat]
  BY TradeConstants DEF TypedInv, ReadOther, Idle
<1>2. Row(0, FALSE).do = "row" /\ Row(0, FALSE) \in CommandType(sent')
  <2>1. 0 \in 0 .. sent'
    BY <1>1, TradeConstants
  <2>2. [do |-> "row", id |-> 0, back |-> FALSE] \in [do : {"row"}, id : 0 .. sent', back : BOOLEAN]
    BY <2>1
  <2>3. QED
    BY <2>2 DEF Row, CommandType
<1>3. todo' \in Seq(CommandType(sent'))
  <2>1. Flush \in CommandType(sent') /\ Pump \in CommandType(sent')
    BY DEF CommandType
  <2>2. <<Row(0, FALSE), Flush, Pump>> \in Seq(CommandType(sent'))
    <3> DEFINE T == CommandType(sent')
               a == Row(0, FALSE)
    <3>1. a \in T /\ Flush \in T /\ Pump \in T
      BY <1>2, <2>1
    <3> HIDE DEF T, a
    <3>2. <<a, Flush, Pump>> \in Seq(T)
      BY <3>1
    <3>3. QED
      BY <3>2 DEF T, a
  <2>3. QED
    BY <1>1, <2>2
<1>4. Ordered(todo') /\ Sends(todo')
  <2>1. PICK e : e = [do |-> "event"]
    OBVIOUS
  <2>2. e.do = "event"
    BY <2>1
  <2>3. QED
    BY <1>1, <1>2, <2>2, MessageOrdered
<1>5. EventsWait'
  BY <1>4 DEF EventsWait
<1>6. QED
  BY <1>1, <1>3, <1>4, <1>5, CommandsTyped

\* A trade that no handler sees.
LEMMA MissedTyped ==
    ASSUME TypedInv, Missed
    PROVE  TypedInv'
<1>1. /\ sent' \in 0 .. MaxTrades /\ sent <= sent' /\ todo = <<>> /\ todo' = <<>>
      /\ UNCHANGED <<up, conn, last, jobs, fetch, events, chan, tp>>
  BY TradeConstants DEF TypedInv, Missed, Trade, handler
<1>2. left' \in [FaultKinds -> Nat]
  <2>1. CASE up
    BY <2>1, FaultTyped DEF Missed, TypedInv, FaultKinds
  <2>2. CASE ~up
    BY <2>2 DEF Missed, TypedInv
  <2>3. QED
    BY <2>1, <2>2
<1>3. <<>> \in Seq(CommandType(sent')) /\ Ordered(<<>>)
  BY DEF Ordered
<1>4. EventsWait'
  BY <1>1 DEF TypedInv, EventsWait
<1>5. QED
  BY <1>1, <1>2, <1>3, <1>4, CommandsTyped

\* A row goes to the connection.
LEMMA PublishRowTyped ==
    ASSUME TypedInv, PublishRow
    PROVE  TypedInv'
<1>1. /\ todo # <<>> /\ Head(todo).do = "row" /\ todo' = Rest(events)
      /\ chan' = IF Head(todo).id = 0 THEN chan ELSE Append(chan, Head(todo))
      /\ UNCHANGED <<sent, up, last, jobs, fetch, events, tp, left>>
  BY DEF PublishRow
<1>2. conn' \in {"up", "broken", "closed"}
  BY DEF PublishRow
<1>3. /\ todo' \in Seq(CommandType(sent)) /\ Ordered(todo')
      /\ events # <<>> => todo' = Tail(todo)
  BY <1>1, RestTyped DEF TypedInv
<1>4. chan' \in Seq(RowType(sent))
  <2>1. Head(todo) \in CommandType(sent)
    BY <1>1, TailSeq DEF TypedInv
  <2>2. Head(todo) \in [do : {"row"}, id : 0 .. sent, back : BOOLEAN]
    BY <1>1, <2>1 DEF CommandType, Flush, Pump
  <2>3. Head(todo).id # 0 => Head(todo) \in RowType(sent)
    BY <2>2 DEF RowType
  <2>4. QED
    BY <1>1, <2>3, AppendSeq DEF TypedInv
<1>5. EventsWait'
  <2>1. Sends(Tail(todo))
    BY <1>1, RowThenSends DEF TypedInv
  <2>2. QED
    BY <1>1, <1>3, <2>1 DEF EventsWait
<1>6. TpTyped(TpNow, sent)'
  BY <1>1 DEF TypedInv, TpTyped, TpNow, tp, TpType
<1>7. AnswerFitsGap' /\ up'
  BY <1>1 DEF TypedInv, AnswerFitsGap, Nothing
<1>8. QED
  BY <1>1, <1>2, <1>3, <1>4, <1>5, <1>6, <1>7 DEF TypedInv

\* A flush before the other commands.
LEMMA FlushFirst ==
    ASSUME NEW s, NEW q \in Seq(CommandType(s)), Ordered(q)
    PROVE  /\ <<Flush>> \o q \in Seq(CommandType(s)) /\ Ordered(<<Flush>> \o q)
           /\ Sends(<<Flush>> \o q)
<1> DEFINE u == <<Flush>> \o q
           n == Len(q)
<1>1. Flush \in CommandType(s) /\ Flush.do = "flush"
  BY DEF CommandType, Flush
<1>2. <<Flush>> \in Seq(CommandType(s)) /\ Len(<<Flush>>) = 1 /\ <<Flush>>[1] = Flush
  BY <1>1
<1>3. /\ u \in Seq(CommandType(s)) /\ n \in Nat /\ Len(u) = n + 1 /\ u[1] = Flush
      /\ \A k \in 1 .. n : u[k + 1] = q[k]
  BY <1>2
<1>4. \A k \in 1 .. n : /\ q[k].do = "pump" => k = n
                        /\ q[k].do = "row" => \E m \in k + 1 .. n : q[m].do \in Sending
  BY DEF Ordered
<1> SUFFICES u \in Seq(CommandType(s)) /\ Ordered(u) /\ Sends(u)
  OBVIOUS
<1> HIDE DEF u, n
<1>5. ASSUME NEW k \in 1 .. n + 1
      PROVE  /\ u[k].do = "pump" => k = n + 1
             /\ u[k].do = "row" => \E m \in k + 1 .. n + 1 : u[m].do \in Sending
  <2>1. CASE k = 1
    BY <1>1, <1>3, <2>1
  <2>2. CASE k # 1
    <3>1. k - 1 \in 1 .. n /\ u[k] = q[k - 1]
      <4>1. k - 1 \in 1 .. n /\ k - 1 + 1 = k
        BY <1>3, <2>2
      <4>2. QED
        BY <1>3, <4>1
    <3>2. u[k].do = "pump" => k = n + 1
      BY <1>3, <1>4, <3>1
    <3>3. ASSUME u[k].do = "row"
          PROVE  \E m \in k + 1 .. n + 1 : u[m].do \in Sending
      <4>1. PICK m \in k - 1 + 1 .. n : q[m].do \in Sending
        BY <1>4, <3>1, <3>3
      <4>2. m + 1 \in k + 1 .. n + 1 /\ m \in 1 .. n
        BY <1>3, <4>1
      <4>3. QED
        BY <1>3, <4>1, <4>2
    <3>4. QED
      BY <3>2, <3>3
  <2>3. QED
    BY <2>1, <2>2
<1>6. Ordered(u)
  BY <1>3, <1>5 DEF Ordered
<1>7. Sends(u)
  BY <1>1, <1>3 DEF Sends, Sending
<1>8. QED
  BY <1>3, <1>6, <1>7

\* An event joins the queue and is flushed.
LEMMA RecordGapTyped ==
    ASSUME TypedInv, RecordGap
    PROVE  TypedInv'
<1>1. /\ todo # <<>> /\ Head(todo).do = "event" /\ events' = Append(events, Head(todo).event)
      /\ todo' = <<Flush>> \o Tail(todo)
      /\ UNCHANGED <<sent, up, conn, last, jobs, fetch, chan, tp, left>>
  BY DEF RecordGap
<1>2. Tail(todo) \in Seq(CommandType(sent)) /\ Ordered(Tail(todo)) /\ Head(todo) \in CommandType(sent)
  BY <1>1, TailSeq, OrderedTail DEF TypedInv
<1>3. todo' \in Seq(CommandType(sent)) /\ Ordered(todo') /\ Sends(todo')
  BY <1>1, <1>2, FlushFirst
<1>4. Head(todo).event \in GapType(sent)
  BY <1>1, <1>2 DEF CommandType, Flush, Pump
<1>5. events' \in Seq(GapType(sent))
  BY <1>1, <1>4, AppendSeq DEF TypedInv
<1>6. TpTyped(TpNow, sent)'
  BY <1>1 DEF TypedInv, TpTyped, TpNow, tp, TpType
<1>7. AnswerFitsGap' /\ up' /\ EventsWait'
  BY <1>1, <1>3 DEF TypedInv, AnswerFitsGap, Nothing, EventsWait
<1>8. QED
  BY <1>1, <1>3, <1>5, <1>6, <1>7 DEF TypedInv

\* TP logs the rows before an event, and the event.
LEMMA TpEventTyped ==
    ASSUME TypedInv, events # <<>>
    PROVE  /\ TpTyped(LogRows(chan), sent)
           /\ TpTyped([logged |-> LogRows(chan).logged,
                       gaps |-> NoteGap(LogRows(chan).gaps, Head(events))], sent)
<1>1. sent \in 0 .. MaxTrades /\ TpTyped(LogRows(chan), sent)
  BY LogRowsTyped DEF TypedInv
<1>2. Head(events) \in GapType(sent)
  BY TailSeq DEF TypedInv
<1>3. QED
  BY <1>1, <1>2, NoteGapKeepsTyped

\* What flush does to memory when an event is out of the queue.
LEMMA SentTyped ==
    ASSUME TypedInv, Flushing, Sent, conn' \in {"up", "broken", "closed"}
    PROVE  /\ events' \in Seq(GapType(sent)) /\ todo' \in Seq(CommandType(sent))
           /\ Ordered(todo') /\ (events' # <<>> => Sends(todo'))
<1>1. /\ todo # <<>> /\ Head(todo).do = "flush" /\ events # <<>> /\ events' = Tail(events)
      /\ todo' = IF Len(events) = 1 THEN Rest(<<>>) ELSE todo
  BY DEF Flushing, Sent
<1>2. events' \in Seq(GapType(sent)) /\ Len(events') = Len(events) - 1
  BY <1>1, TailSeq DEF TypedInv
<1>3. Rest(<<>>) \in Seq(CommandType(sent)) /\ Ordered(Rest(<<>>))
  BY <1>1, RestTyped DEF TypedInv
<1>4. todo' \in Seq(CommandType(sent)) /\ Ordered(todo')
  BY <1>1, <1>3 DEF TypedInv
<1>5. events' # <<>> => todo' = todo
  <2>1. Len(events) = 1 => events' = <<>>
    BY <1>2
  <2>2. QED
    BY <1>1, <2>1
<1>6. Sends(todo)
  <2>1. 1 \in 1 .. Len(todo) /\ todo[1].do = "flush"
    BY <1>1, TailSeq DEF TypedInv
  <2>2. QED
    BY <2>1 DEF Sends, Sending
<1>7. QED
  BY <1>2, <1>4, <1>5, <1>6

\* TP acknowledges an event.
LEMMA EventAckedTyped ==
    ASSUME TypedInv, EventAcked
    PROVE  TypedInv'
<1>1. /\ Flushing /\ Sent /\ conn' = conn /\ conn = "up" /\ chan' = <<>>
      /\ logged' = LogRows(chan).logged /\ gaps' = NoteGap(LogRows(chan).gaps, Head(events))
      /\ UNCHANGED <<sent, up, last, jobs, fetch, left>>
  BY DEF EventAcked, TpEvent
<1>2. /\ events' \in Seq(GapType(sent)) /\ todo' \in Seq(CommandType(sent))
      /\ Ordered(todo') /\ (events' # <<>> => Sends(todo'))
  BY <1>1, SentTyped
<1>3. TpTyped(TpNow, sent)'
  BY <1>1, TpEventTyped DEF Flushing, TpTyped, TpNow, TpType
<1>4. <<>> \in Seq(RowType(sent))
  OBVIOUS
<1>5. AnswerFitsGap' /\ up' /\ EventsWait'
  BY <1>1, <1>2 DEF TypedInv, AnswerFitsGap, Nothing, EventsWait, Flushing
<1>6. QED
  BY <1>1, <1>2, <1>3, <1>4, <1>5 DEF TypedInv

\* The acknowledgement is lost and the event stays.
LEMMA EventUnackedTyped ==
    ASSUME TypedInv, EventUnacked
    PROVE  TypedInv'
<1>1. /\ Flushing /\ conn' = "closed" /\ todo' = Tail(todo)
      /\ UNCHANGED <<sent, up, last, jobs, fetch, events>>
  BY DEF EventUnacked
<1>2. todo' \in Seq(CommandType(sent)) /\ Ordered(todo')
  BY <1>1, TailSeq, OrderedTail DEF TypedInv, Flushing
<1>3. AnswerFitsGap' /\ up' /\ EventsWait'
  BY <1>1 DEF TypedInv, AnswerFitsGap, Nothing, EventsWait, Flushing
<1>4. /\ TpTyped(TpNow, sent)' /\ chan' \in Seq(RowType(sent))
      /\ left' \in [FaultKinds -> Nat]
  <2>1. CASE UNCHANGED <<chan, tp, left>>
    BY <1>1, <2>1 DEF TypedInv, TpTyped, TpNow, tp, TpType
  <2>2. CASE Fault("break") /\ TpEvent
    <3>1. TpTyped(TpNow, sent)'
      BY <1>1, <2>2, TpEventTyped DEF Flushing, TpEvent, TpTyped, TpNow, TpType
    <3>2. chan' = <<>> /\ <<>> \in Seq(RowType(sent))
      BY <2>2 DEF TpEvent
    <3>3. left' \in [FaultKinds -> Nat]
      BY <2>2, FaultTyped DEF TypedInv, FaultKinds
    <3>4. QED
      BY <3>1, <3>2, <3>3
  <2>3. QED
    BY <2>1, <2>2 DEF EventUnacked
<1>5. QED
  BY <1>1, <1>2, <1>3, <1>4 DEF TypedInv

\* TP rejects an event.
LEMMA EventRejectedTyped ==
    ASSUME TypedInv, EventRejected
    PROVE  TypedInv'
<1>1. /\ Flushing /\ Sent /\ conn' = conn /\ conn = "up" /\ chan' = <<>>
      /\ logged' = LogRows(chan).logged /\ gaps' = LogRows(chan).gaps
      /\ UNCHANGED <<sent, up, last, jobs, fetch>>
  BY DEF EventRejected
<1>2. /\ events' \in Seq(GapType(sent)) /\ todo' \in Seq(CommandType(sent))
      /\ Ordered(todo') /\ (events' # <<>> => Sends(todo'))
  BY <1>1, SentTyped
<1>3. TpTyped(TpNow, sent)'
  BY <1>1, TpEventTyped DEF Flushing, TpTyped, TpNow, TpType
<1>4. <<>> \in Seq(RowType(sent))
  OBVIOUS
<1>5. AnswerFitsGap' /\ up' /\ EventsWait'
  BY <1>1, <1>2 DEF TypedInv, AnswerFitsGap, Nothing, EventsWait, Flushing
<1>6. left' \in [FaultKinds -> Nat]
  BY FaultTyped DEF EventRejected, TypedInv, FaultKinds
<1>7. QED
  BY <1>1, <1>2, <1>3, <1>4, <1>5, <1>6 DEF TypedInv

\* The connection breaks unnoticed.
LEMMA BreakTyped ==
    ASSUME TypedInv, Break
    PROVE  TypedInv'
<1>1. /\ conn = "up" /\ conn' = "broken"
      /\ UNCHANGED <<sent, up, last, jobs, fetch, events, todo, chan, logged, gaps>>
  BY DEF Break, handler, tp
<1>2. left' \in [FaultKinds -> Nat]
  BY FaultTyped DEF Break, TypedInv, FaultKinds
<1>3. TpTyped(TpNow, sent)'
  BY <1>1 DEF TypedInv, TpNow, TpTyped, TpType
<1>4. EventsWait' /\ AnswerFitsGap' /\ (~up' => Nothing')
  BY <1>1 DEF TypedInv, EventsWait, AnswerFitsGap, Nothing
<1>5. QED
  BY <1>1, <1>2, <1>3, <1>4 DEF TypedInv

-----------------------------------------------------------------------------
(* The pump *)

\* Commands the backfill leaves: rows and events, each row before an event.
Outs(td, s) ==
    /\ td \in Seq(CommandType(s))
    /\ \A k \in 1 .. Len(td) : td[k].do \in {"row", "event"}
    /\ \A k \in 1 .. Len(td) : td[k].do = "row" =>
            \E m \in k + 1 .. Len(td) : td[m].do = "event"

\* Commands that are rows and events, an event last, are in order.
LEMMA OutsOrdered ==
    ASSUME NEW td, NEW s, Outs(td, s)
    PROVE  Ordered(td)
BY DEF Outs, Ordered, Sending

\* Two lists of such commands, one after the other.
LEMMA OutsConcat ==
    ASSUME NEW s, NEW a, NEW b, Outs(a, s), Outs(b, s)
    PROVE  Outs(a \o b, s)
<1> DEFINE c == a \o b
           n == Len(a)
           m == Len(b)
<1>1. a \in Seq(CommandType(s)) /\ b \in Seq(CommandType(s))
  BY DEF Outs
<1>2. /\ c \in Seq(CommandType(s)) /\ n \in Nat /\ m \in Nat /\ Len(c) = n + m
      /\ \A k \in 1 .. n : c[k] = a[k]
      /\ \A k \in 1 .. m : c[n + k] = b[k]
  BY <1>1
<1>3. /\ \A k \in 1 .. n : a[k].do \in {"row", "event"}
      /\ \A k \in 1 .. n : a[k].do = "row" => \E l \in k + 1 .. n : a[l].do = "event"
      /\ \A k \in 1 .. m : b[k].do \in {"row", "event"}
      /\ \A k \in 1 .. m : b[k].do = "row" => \E l \in k + 1 .. m : b[l].do = "event"
  BY DEF Outs
<1> SUFFICES Outs(c, s)
  OBVIOUS
<1> HIDE DEF c, n, m
<1>4. ASSUME NEW k \in 1 .. n + m
      PROVE  /\ c[k].do \in {"row", "event"}
             /\ c[k].do = "row" => \E l \in k + 1 .. n + m : c[l].do = "event"
  <2>1. CASE k <= n
    <3>1. k \in 1 .. n /\ c[k] = a[k]
      BY <1>2, <2>1
    <3>2. ASSUME a[k].do = "row"
          PROVE  \E l \in k + 1 .. n + m : c[l].do = "event"
      <4>1. PICK l \in k + 1 .. n : a[l].do = "event"
        BY <1>3, <3>1, <3>2
      <4>2. l \in 1 .. n /\ l \in k + 1 .. n + m
        BY <1>2, <3>1, <4>1
      <4>3. QED
        BY <1>2, <4>1, <4>2
    <3>3. QED
      BY <1>3, <3>1, <3>2
  <2>2. CASE k > n
    <3>1. k - n \in 1 .. m /\ n + (k - n) = k
      BY <1>2, <2>2
    <3>2. c[k] = b[k - n]
      BY <1>2, <3>1
    <3>3. ASSUME b[k - n].do = "row"
          PROVE  \E l \in k + 1 .. n + m : c[l].do = "event"
      <4>1. PICK l \in (k - n) + 1 .. m : b[l].do = "event"
        BY <1>3, <3>1, <3>3
      <4>2. l \in 1 .. m /\ n + l \in k + 1 .. n + m
        BY <1>2, <3>1, <4>1
      <4>3. QED
        BY <1>2, <4>1, <4>2
    <3>4. QED
      BY <1>3, <3>1, <3>2, <3>3
  <2>3. QED
    BY <1>2, <2>1, <2>2
<1>5. QED
  BY <1>2, <1>4 DEF Outs

\* The event of a job, closed or in part.
LEMMA GapEventTyped ==
    ASSUME NEW s \in Nat, NEW g \in JobType(s), NEW status \in Statuses
    PROVE  /\ GapEvent(g, status) \in GapType(s)
           /\ Record(GapEvent(g, status)) \in CommandType(s)
           /\ Record(GapEvent(g, status)).do = "event"
<1>1. GapEvent(g, status) \in GapType(s)
  BY DEF GapEvent, JobType, GapType, Spans
<1>2. QED
  BY <1>1 DEF Record, CommandType

\* One event alone.
LEMMA OneEventOuts ==
    ASSUME NEW s \in Nat, NEW g \in JobType(s), NEW status \in Statuses
    PROVE  Outs(<<Record(GapEvent(g, status))>>, s)
<1> DEFINE e == Record(GapEvent(g, status))
<1>1. e \in CommandType(s) /\ e.do = "event"
  BY GapEventTyped
<1> HIDE DEF e
<1>2. <<e>> \in Seq(CommandType(s)) /\ Len(<<e>>) = 1 /\ <<e>>[1] = e
  BY <1>1
<1>3. Outs(<<e>>, s)
  BY <1>1, <1>2 DEF Outs
<1>4. QED
  BY <1>3 DEF e

\* A function on 1..n is a sequence.
LEMMA FunSeq ==
    ASSUME NEW T, NEW n \in Nat, NEW f \in [1 .. n -> T]
    PROVE  f \in Seq(T) /\ Len(f) = n
OBVIOUS

\* The first n jobs need no request and are closed; the next one needs one.
Settles(q, n) ==
    /\ n \in 0 .. Len(q)
    /\ \A k \in 1 .. n : NeedsNoRequest(q[k])
    /\ n < Len(q) => ~ NeedsNoRequest(q[n + 1])
    /\ Settle(q) = [jobs |-> SubSeq(q, n + 1, Len(q)),
                    out |-> [k \in 1 .. n |-> Record(GapEvent(q[k],
                                IF OutOfReach(q[k]) THEN "unrecoverable" ELSE "recovered"))]]

\* The number of jobs that Settle closes.
LEMMA SettleIs ==
    ASSUME NEW T, NEW q \in Seq(T)
    PROVE  \E n : Settles(q, n)
<1> DEFINE S == {k \in 0 .. Len(q) : \A i \in 1 .. k : NeedsNoRequest(q[i])}
           n == Max(S)
<1>1. 0 \in S /\ S \subseteq Nat /\ Len(q) \in Nat /\ \A k \in S : k <= Len(q)
  OBVIOUS
<1>2. n \in S /\ \A k \in S : k <= n
  <2> HIDE DEF S
  <2>1. S # {}
    BY <1>1
  <2>2. QED
    BY <1>1, <2>1, MaxOfSet
<1>3. ASSUME n < Len(q), NeedsNoRequest(q[n + 1])
      PROVE  FALSE
  <2> HIDE DEF n
  <2>1. n + 1 \in 0 .. Len(q)
    BY <1>1, <1>2, <1>3
  <2>2. \A i \in 1 .. n + 1 : i \in 1 .. n \/ i = n + 1
    BY <1>2
  <2>3. n + 1 \in S
    BY <1>2, <1>3, <2>1, <2>2
  <2>4. n + 1 <= n /\ n \in Nat
    BY <1>1, <1>2, <2>3
  <2>5. QED
    BY <2>4
<1>4. Settle(q) = [jobs |-> SubSeq(q, n + 1, Len(q)),
                   out |-> [k \in 1 .. n |-> Record(GapEvent(q[k],
                                IF OutOfReach(q[k]) THEN "unrecoverable" ELSE "recovered"))]]
  BY DEF Settle
<1>5. n \in 0 .. Len(q) /\ \A k \in 1 .. n : NeedsNoRequest(q[k])
  BY <1>2
<1> HIDE DEF n
<1>6. Settles(q, n)
  BY <1>3, <1>4, <1>5 DEF Settles
<1>7. QED
  BY <1>6

\* What Settle leaves, and what it has to say of the jobs it closes.
LEMMA SettleTyped ==
    ASSUME NEW s \in Nat, NEW q \in Seq(JobType(s))
    PROVE  /\ Settle(q).jobs \in Seq(JobType(s)) /\ Outs(Settle(q).out, s)
           /\ Settle(q).jobs # <<>> => ~ NeedsNoRequest(Head(Settle(q).jobs))
<1>1. PICK n : Settles(q, n)
  BY SettleIs
<1>2. /\ n \in 0 .. Len(q) /\ n \in Nat /\ Len(q) \in Nat
      /\ Settle(q).jobs = SubSeq(q, n + 1, Len(q))
      /\ Settle(q).out = [k \in 1 .. n |-> Record(GapEvent(q[k],
                                IF OutOfReach(q[k]) THEN "unrecoverable" ELSE "recovered"))]
  BY <1>1 DEF Settles
<1>3. /\ Settle(q).jobs \in Seq(JobType(s)) /\ Len(Settle(q).jobs) = Len(q) - n
      /\ \A k \in 1 .. Len(q) - n : Settle(q).jobs[k] = q[n + k]
  BY <1>2, SuffixSeq
<1>4. ASSUME Settle(q).jobs # <<>>
      PROVE  ~ NeedsNoRequest(Head(Settle(q).jobs))
  <2>1. 1 \in 1 .. Len(q) - n /\ Head(Settle(q).jobs) = Settle(q).jobs[1]
    BY <1>2, <1>3, <1>4
  <2>2. Head(Settle(q).jobs) = q[n + 1] /\ n < Len(q)
    BY <1>2, <1>3, <2>1
  <2>3. QED
    BY <1>1, <2>2 DEF Settles
<1>5. Outs(Settle(q).out, s)
  <2> DEFINE u == Settle(q).out
  <2>1. ASSUME NEW k \in 1 .. n
        PROVE  u[k] \in CommandType(s) /\ u[k].do = "event"
    <3>1. q[k] \in JobType(s)
      BY <1>2
    <3>2. \E st \in Statuses : u[k] = Record(GapEvent(q[k], st))
      BY <1>2, <2>1 DEF Statuses
    <3>3. QED
      BY <3>1, <3>2, GapEventTyped
  <2>2. DOMAIN u = 1 .. n /\ u = [k \in 1 .. n |-> u[k]]
    BY <1>2
  <2> HIDE DEF u
  <2>3. u \in Seq(CommandType(s)) /\ Len(u) = n
    <3>1. u \in [1 .. n -> CommandType(s)]
      BY <2>1, <2>2
    <3>2. QED
      BY <1>2, <3>1, FunSeq
  <2>4. Outs(u, s)
    BY <2>1, <2>3 DEF Outs
  <2>5. QED
    BY <2>4 DEF u
<1>6. QED
  BY <1>3, <1>4, <1>5

\* The page's usable ids are some of those still needed.
LEMMA UsableCount ==
    ASSUME NEW s \in Nat, NEW g \in JobType(s), NEW ids, Usable(g, ids) # {}
    PROVE  /\ NextNeeded(g) \in Nat /\ Cardinality(Usable(g, ids)) \in Nat \ {0}
           /\ NextNeeded(g) + Cardinality(Usable(g, ids)) - 1 <= g.last
<1> DEFINE U == Usable(g, ids)
           from == NextNeeded(g)
<1>1. /\ g.first \in Nat /\ g.last \in Nat /\ g.through \in Nat
  BY JobFields
<1>2. from \in Nat
  BY <1>1 DEF NextNeeded
<1>3. U \subseteq from .. g.last
  BY DEF Usable
<1> HIDE DEF U, from
<1>4. IsFiniteSet(from .. g.last)
  <2>1. from \in Int /\ g.last \in Int
    BY <1>1, <1>2
  <2>2. QED
    BY <2>1, FS_Interval
<1>5. from <= g.last
  BY <1>1, <1>2, <1>3 DEF U
<1>6. Cardinality(from .. g.last) = g.last - from + 1
  BY <1>1, <1>2, <1>5, FS_Interval
<1>7. IsFiniteSet(U) /\ Cardinality(U) <= Cardinality(from .. g.last)
  BY <1>3, <1>4, FS_Subset
<1>8. Cardinality(U) \in Nat /\ Cardinality(U) # 0
  BY <1>7, FS_CardinalityType, FS_EmptySet DEF U
<1>9. QED
  BY <1>1, <1>2, <1>6, <1>7, <1>8 DEF U, from

\* The rows of a page and the event after them.
RowsThen(from, n, e) == [k \in 1 .. n |-> Row(from + k - 1, TRUE)] \o <<e>>

HasRowsThen(u, s, from, n, e) ==
    /\ u \in Seq(CommandType(s)) /\ Len(u) = n + 1
    /\ \A k \in 1 .. n : u[k] = Row(from + k - 1, TRUE)
    /\ u[n + 1] = e

\* A page's rows and their event, by index.
LEMMA RowsThenIs ==
    ASSUME NEW s \in Nat, NEW from \in Nat, NEW n \in Nat, from + n - 1 <= s, NEW e \in CommandType(s)
    PROVE  HasRowsThen(RowsThen(from, n, e), s, from, n, e)
<1> DEFINE r == [k \in 1 .. n |-> Row(from + k - 1, TRUE)]
<1>1. ASSUME NEW k \in 1 .. n
      PROVE  Row(from + k - 1, TRUE) \in CommandType(s)
  <2>1. from + k - 1 \in 0 .. s
    OBVIOUS
  <2>2. QED
    BY <2>1 DEF Row, CommandType
<1>2. r \in Seq(CommandType(s)) /\ Len(r) = n /\ \A k \in 1 .. n : r[k] = Row(from + k - 1, TRUE)
  <2>1. r \in [1 .. n -> CommandType(s)] /\ \A k \in 1 .. n : r[k] = Row(from + k - 1, TRUE)
    BY <1>1
  <2> HIDE DEF r
  <2>2. QED
    BY <2>1, FunSeq
<1>3. <<e>> \in Seq(CommandType(s)) /\ Len(<<e>>) = 1 /\ <<e>>[1] = e
  OBVIOUS
<1> HIDE DEF r
<1>4. /\ r \o <<e>> \in Seq(CommandType(s)) /\ Len(r \o <<e>>) = n + 1
      /\ \A k \in 1 .. n : (r \o <<e>>)[k] = r[k]
      /\ (r \o <<e>>)[n + 1] = e
  BY <1>2, <1>3
<1>5. HasRowsThen(r \o <<e>>, s, from, n, e)
  BY <1>2, <1>4 DEF HasRowsThen
<1>6. QED
  BY <1>5 DEF RowsThen, r

\* They are commands of the pump.
LEMMA RowsThenOuts ==
    ASSUME NEW s \in Nat, NEW from \in Nat, NEW n \in Nat, from + n - 1 <= s, NEW e \in CommandType(s),
           e.do = "event"
    PROVE  Outs(RowsThen(from, n, e), s)
<1> DEFINE u == RowsThen(from, n, e)
<1>0. HasRowsThen(u, s, from, n, e)
  BY RowsThenIs
<1> HIDE DEF u
<1>1. /\ u \in Seq(CommandType(s)) /\ Len(u) = n + 1
      /\ \A k \in 1 .. n : u[k] = Row(from + k - 1, TRUE)
      /\ u[n + 1] = e
  BY <1>0 DEF HasRowsThen
<1>2. \A k \in 1 .. n : u[k].do = "row"
  <2>1. \A i : Row(i, TRUE).do = "row"
    BY DEF Row
  <2>2. QED
    BY <1>1, <2>1
<1>3. ASSUME NEW k \in 1 .. n + 1
      PROVE  /\ u[k].do \in {"row", "event"}
             /\ u[k].do = "row" => \E l \in k + 1 .. n + 1 : u[l].do = "event"
  <2>1. CASE k = n + 1
    BY <1>1, <2>1
  <2>2. CASE k # n + 1
    <3>1. k \in 1 .. n /\ n + 1 \in k + 1 .. n + 1
      BY <2>2
    <3>2. QED
      BY <1>1, <1>2, <3>1
  <2>3. QED
    BY <2>1, <2>2
<1>4. Outs(u, s)
  BY <1>1, <1>3 DEF Outs
<1>5. QED
  BY <1>4 DEF u

\* The queue q with another record of its first gap.
Replaced(u, q, g, s) ==
    /\ u \in Seq(JobType(s)) /\ Len(u) = Len(q) /\ u[1] = g
    /\ \A k \in 2 .. Len(q) : u[k] = q[k]

GivenUp(res, q) ==
    res.jobs = Tail(q) /\ res.out = <<Record(GapEvent(Head(q), "unrecoverable"))>>

Retried(res, q, s) ==
    \E g \in JobType(s) :
        /\ g.first = q[1].first /\ g.last = q[1].last /\ g.through = q[1].through
        /\ Replaced(res.jobs, q, g, s)
        /\ res.out = <<>>

\* n rows were usable, and g is what the gap becomes.
Gained(res, q, s, n, g, status) ==
    /\ g.first = q[1].first /\ g.last = q[1].last /\ g.through = NextNeeded(q[1]) + n - 1
    /\ g.through <= g.last
    /\ res.out = RowsThen(NextNeeded(q[1]), n, Record(GapEvent(g, status)))
    /\ \/ status = "recovered" /\ g.through = g.last /\ res.jobs = Tail(q)
       \/ status = "partial" /\ Replaced(res.jobs, q, g, s)

\* A page gives the gap up, counts a failure, or moves it on.
Outcome(res, q, s) ==
    \/ GivenUp(res, q)
    \/ Retried(res, q, s)
    \/ \E n \in Nat \ {0} : \E g \in JobType(s) : \E status \in Statuses :
            Gained(res, q, s, n, g, status)

\* A failed request gives the gap up or is counted.
LEMMA FailOutcome ==
    ASSUME NEW s \in Nat, NEW q \in Seq(JobType(s)), q # <<>>
    PROVE  Outcome(Fail(q), q, s)
<1>1. 1 \in 1 .. Len(q) /\ q[1] = Head(q) /\ q[1] \in JobType(s)
  BY TailSeq
<1>2. CASE Head(q).failures + 1 >= MaxFailures
  BY <1>2 DEF Fail, Finish, GivenUp, Outcome
<1>3. CASE ~ (Head(q).failures + 1 >= MaxFailures)
  <2> DEFINE g == [q[1] EXCEPT !.failures = @ + 1]
  <2>1. /\ g \in JobType(s) /\ g.first = q[1].first /\ g.last = q[1].last
        /\ g.through = q[1].through
    <3>1. \A x \in JobType(s) :
            /\ [x EXCEPT !.failures = @ + 1] \in JobType(s)
            /\ [x EXCEPT !.failures = @ + 1].first = x.first
            /\ [x EXCEPT !.failures = @ + 1].last = x.last
            /\ [x EXCEPT !.failures = @ + 1].through = x.through
      BY DEF JobType, Spans
    <3>2. QED
      BY <1>1, <3>1
  <2>2. Fail(q) = [jobs |-> [q EXCEPT ![1] = g], out |-> <<>>]
    BY <1>3 DEF Fail
  <2> HIDE DEF g
  <2>3. Replaced([q EXCEPT ![1] = g], q, g, s)
    BY <1>1, <2>1, ReplaceSeq DEF Replaced
  <2>4. Retried(Fail(q), q, s)
    BY <2>1, <2>2, <2>3 DEF Retried
  <2>5. QED
    BY <2>4 DEF Outcome
<1>4. QED
  BY <1>2, <1>3

\* Usable trades move the gap on.
LEMMA AdvanceOutcome ==
    ASSUME NEW s \in Nat, NEW q \in Seq(JobType(s)), q # <<>>, NEW ids,
           Usable(Head(q), ids) # {}
    PROVE  Outcome(Advance(q, Usable(Head(q), ids)), q, s)
<1> DEFINE U == Usable(Head(q), ids)
           n == Cardinality(U)
           from == NextNeeded(Head(q))
           g == [Head(q) EXCEPT !.through = from + n - 1, !.failures = 0]
           res == Advance(q, U)
<1>1. 1 \in 1 .. Len(q) /\ q[1] = Head(q) /\ Head(q) \in JobType(s) /\ Tail(q) \in Seq(JobType(s))
  BY TailSeq
<1>2. n \in Nat \ {0} /\ from \in Nat /\ from + n - 1 <= Head(q).last
  BY <1>1, UsableCount
<1>3. /\ g.first = q[1].first /\ g.last = q[1].last /\ g.through = from + n - 1
  <2> HIDE DEF n, from
  <2>1. \A x \in JobType(s) : \A t :
            /\ [x EXCEPT !.through = t, !.failures = 0].first = x.first
            /\ [x EXCEPT !.through = t, !.failures = 0].last = x.last
            /\ [x EXCEPT !.through = t, !.failures = 0].through = t
    BY DEF JobType
  <2>2. QED
    BY <1>1, <2>1
<1>4. g \in JobType(s)
  <2>1. /\ Head(q).first \in Nat /\ Head(q).last \in Nat /\ Head(q).last <= s
        /\ Head(q).last \in Ids /\ Head(q).through \in Nat
        /\ Head(q).through = 0 \/ Head(q).through >= Head(q).first
        /\ Head(q).first <= Head(q).last /\ Head(q).first >= 1
    BY <1>1, JobFields
  <2>2. from >= Head(q).first
    BY <2>1 DEF NextNeeded
  <2>3. from + n - 1 \in 0 .. MaxTrades /\ from + n - 1 >= Head(q).first
    <3> HIDE DEF n, from
    <3>1. QED
      BY <1>2, <2>1, <2>2, TradeConstants DEF Ids
  <2>4. \A x \in JobType(s) : \A t \in 0 .. MaxTrades :
            [x EXCEPT !.through = t, !.failures = 0]
                \in [first : Ids, last : Ids, through : 0 .. MaxTrades, failures : Nat]
    BY DEF JobType
  <2>5. g \in [first : Ids, last : Ids, through : 0 .. MaxTrades, failures : Nat]
    BY <1>1, <2>3, <2>4
  <2>6. Spans(g, s)
    <3> HIDE DEF g, n, from
    <3>1. QED
      BY <1>1, <1>2, <1>3, <2>1, <2>3 DEF Spans
  <2>7. QED
    BY <2>5, <2>6 DEF JobType
<1>5. /\ g.through >= g.last =>
            res = [jobs |-> Tail(q), out |-> RowsThen(from, n, Record(GapEvent(g, "recovered")))]
      /\ ~ (g.through >= g.last) =>
            res = [jobs |-> <<g>> \o Tail(q), out |-> RowsThen(from, n, Record(GapEvent(g, "partial")))]
  BY DEF Advance, RowsThen
<1> HIDE DEF U, n, from, g, res
<1>6. g.through <= g.last /\ g.through \in Nat /\ g.last \in Nat
  BY <1>4, JobFields
<1>7. CASE g.through >= g.last
  <2>1. Gained(res, q, s, n, g, "recovered")
    BY <1>1, <1>3, <1>5, <1>6, <1>7 DEF Gained, from
  <2>2. QED
    BY <1>2, <1>4, <2>1 DEF Outcome, Statuses, res, U
<1>8. CASE ~ (g.through >= g.last)
  <2>1. Replaced(<<g>> \o Tail(q), q, g, s)
    <3>1. /\ <<g>> \in Seq(JobType(s)) /\ Len(<<g>>) = 1 /\ <<g>>[1] = g
      BY <1>4
    <3>2. Len(Tail(q)) = Len(q) - 1 /\ \A k \in 1 .. Len(q) - 1 : Tail(q)[k] = q[k + 1]
      BY TailSeq
    <3>3. <<g>> \o Tail(q) \in Seq(JobType(s)) /\ Len(<<g>> \o Tail(q)) = Len(q)
      BY <1>1, <3>1, <3>2
    <3>4. (<<g>> \o Tail(q))[1] = g
      BY <1>1, <3>1, <3>3
    <3>5. ASSUME NEW k \in 2 .. Len(q)
          PROVE  (<<g>> \o Tail(q))[k] = q[k]
      <4>1. k - 1 \in 1 .. Len(q) - 1 /\ k - 1 + 1 = k
        OBVIOUS
      <4>2. (<<g>> \o Tail(q))[k] = Tail(q)[k - 1]
        BY <1>1, <3>1, <3>2, <3>3, <4>1
      <4>3. QED
        BY <3>2, <4>1, <4>2
    <3>6. QED
      BY <3>3, <3>4, <3>5 DEF Replaced
  <2>2. res.jobs = <<g>> \o Tail(q) /\ res.out = RowsThen(from, n, Record(GapEvent(g, "partial")))
    BY <1>5, <1>8
  <2>3. Replaced(res.jobs, q, g, s)
    BY <2>1, <2>2
  <2>4. from = NextNeeded(q[1])
    BY <1>1 DEF from
  <2>5. Gained(res, q, s, n, g, "partial")
    BY <1>3, <1>6, <2>2, <2>3, <2>4 DEF Gained
  <2>6. QED
    BY <1>2, <1>4, <2>5 DEF Outcome, Statuses, OpenStatuses, res, U
<1>9. QED
  BY <1>7, <1>8

\* Whatever the page, it does one of the three.
LEMMA PageOutcome ==
    ASSUME NEW s \in Nat, NEW q \in Seq(JobType(s)), q # <<>>, NEW page
    PROVE  Outcome(OnPage(q, page), q, s)
<1> DEFINE U == Usable(Head(q), page.ids)
<1>1. OnPage(q, page) \in {Finish(q, "unrecoverable"), Fail(q)}
        \/ (U # {} /\ OnPage(q, page) = Advance(q, U))
  BY Zenon DEF OnPage
<1>2. CASE OnPage(q, page) = Finish(q, "unrecoverable")
  BY <1>2 DEF Finish, GivenUp, Outcome
<1>3. CASE OnPage(q, page) = Fail(q)
  BY <1>3, FailOutcome
<1>4. CASE U # {} /\ OnPage(q, page) = Advance(q, U)
  BY <1>4, AdvanceOutcome
<1>5. QED
  BY <1>1, <1>2, <1>3, <1>4

\* And the queue and the commands keep their types.
LEMMA OutcomeTyped ==
    ASSUME NEW s \in Nat, NEW q \in Seq(JobType(s)), q # <<>>, NEW res, Outcome(res, q, s)
    PROVE  res.jobs \in Seq(JobType(s)) /\ Outs(res.out, s)
<1>1. q[1] \in JobType(s) /\ q[1] = Head(q) /\ Tail(q) \in Seq(JobType(s))
  BY TailSeq
<1>2. CASE GivenUp(res, q)
  <2>1. "unrecoverable" \in Statuses
    BY DEF Statuses
  <2>2. Outs(<<Record(GapEvent(Head(q), "unrecoverable"))>>, s)
    BY <1>1, <2>1, OneEventOuts
  <2>3. QED
    BY <1>1, <1>2, <2>2 DEF GivenUp
<1>3. CASE Retried(res, q, s)
  <2>1. <<>> \in Seq(CommandType(s))
    OBVIOUS
  <2>2. Outs(<<>>, s)
    BY <2>1 DEF Outs
  <2>3. QED
    BY <1>3, <2>2 DEF Retried, Replaced
<1>4. ASSUME NEW n \in Nat \ {0}, NEW g \in JobType(s), NEW status \in Statuses,
             Gained(res, q, s, n, g, status)
      PROVE  res.jobs \in Seq(JobType(s)) /\ Outs(res.out, s)
  <2> DEFINE e == Record(GapEvent(g, status))
             from == NextNeeded(q[1])
  <2>1. e \in CommandType(s) /\ e.do = "event"
    BY GapEventTyped
  <2>2. from \in Nat /\ from + n - 1 <= s
    <3>1. q[1].first \in Nat /\ q[1].through \in Nat /\ g.last \in Nat /\ g.last <= s
      BY <1>1, JobFields
    <3>2. from \in Nat
      BY <3>1 DEF NextNeeded
    <3>3. from + n - 1 <= g.last
      BY <1>4 DEF Gained
    <3> HIDE DEF from
    <3>4. QED
      BY <3>1, <3>2, <3>3
  <2>3. res.out = RowsThen(from, n, e)
    BY <1>4 DEF Gained
  <2> HIDE DEF e, from
  <2>4. Outs(res.out, s)
    BY <2>1, <2>2, <2>3, RowsThenOuts
  <2>5. res.jobs \in Seq(JobType(s))
    BY <1>1, <1>4 DEF Gained, Replaced
  <2>6. QED
    BY <2>4, <2>5
<1>5. QED
  BY <1>2, <1>3, <1>4 DEF Outcome

\* The first part of the pump: the answer, if there is one, is used.
Taken == IF fetch.st = "page" THEN OnPage(jobs, fetch.page) ELSE [jobs |-> jobs, out |-> <<>>]

\* The second part: gaps that need no request are closed.
Settled ==
    IF fetch.st = "asked" THEN [jobs |-> jobs, out |-> <<>>] ELSE Settle(Taken.jobs)

\* The pump in two parts.
LEMMA PumpParts ==
    ASSUME NEW granted, PumpBackfill(granted)
    PROVE  /\ todo # <<>> /\ Head(todo).do = "pump"
           /\ jobs' = Settled.jobs /\ todo' = Taken.out \o Settled.out
           /\ fetch' = IF fetch.st = "asked" THEN fetch
                         ELSE IF granted /\ Settled.jobs # <<>> THEN Ask(Head(Settled.jobs))
                         ELSE NoFetch
           /\ UNCHANGED <<sent, up, conn, last, events, chan, tp, ghosts, left>>
<1>1. fetch' = IF fetch.st = "asked" THEN fetch
                 ELSE IF granted /\ Settled.jobs # <<>> THEN Ask(Head(Settled.jobs))
                 ELSE NoFetch
  <2>1. CASE fetch.st = "asked"
    BY <2>1 DEF PumpBackfill, Taken, Settled
  <2>2. CASE fetch.st # "asked"
    BY <2>2 DEF PumpBackfill, Taken, Settled
  <2>3. QED
    BY <2>1, <2>2
<1>2. QED
  BY <1>1 DEF PumpBackfill, Taken, Settled

\* The types after the first part.
LEMMA TakenTyped ==
    ASSUME TypedInv
    PROVE  Taken.jobs \in Seq(JobType(sent)) /\ Outs(Taken.out, sent)
<1>1. sent \in Nat /\ jobs \in Seq(JobType(sent))
  BY TradeConstants DEF TypedInv
<1>2. CASE fetch.st = "page"
  <2>1. jobs # <<>>
    BY <1>2 DEF TypedInv, AnswerFitsGap
  <2>2. Outcome(OnPage(jobs, fetch.page), jobs, sent)
    BY <1>1, <2>1, PageOutcome
  <2>3. QED
    BY <1>1, <1>2, <2>1, <2>2, OutcomeTyped DEF Taken
<1>3. CASE fetch.st # "page"
  <2>1. <<>> \in Seq(CommandType(sent))
    OBVIOUS
  <2>2. Outs(<<>>, sent)
    BY <2>1 DEF Outs
  <2>3. QED
    BY <1>1, <1>3, <2>2 DEF Taken
<1>4. QED
  BY <1>2, <1>3

\* The types after the second, and that the job then at the head needs a request.
LEMMA SettledTyped ==
    ASSUME TypedInv
    PROVE  /\ Settled.jobs \in Seq(JobType(sent)) /\ Outs(Settled.out, sent)
           /\ fetch.st # "asked" /\ Settled.jobs # <<>> => ~ NeedsNoRequest(Head(Settled.jobs))
<1>1. sent \in Nat /\ jobs \in Seq(JobType(sent)) /\ Taken.jobs \in Seq(JobType(sent))
  BY TradeConstants, TakenTyped DEF TypedInv
<1>2. CASE fetch.st = "asked"
  <2>1. <<>> \in Seq(CommandType(sent))
    OBVIOUS
  <2>2. Outs(<<>>, sent)
    BY <2>1 DEF Outs
  <2>3. QED
    BY <1>1, <1>2, <2>2 DEF Settled
<1>3. CASE fetch.st # "asked"
  BY <1>1, <1>3, SettleTyped DEF Settled
<1>4. QED
  BY <1>2, <1>3

\* A request is for a gap that needs it and is in reach.
LEMMA AskFits ==
    ASSUME NEW s \in Nat, NEW g \in JobType(s), ~ NeedsNoRequest(g)
    PROVE  /\ Ask(g) \in FetchType /\ Ask(g).st = "asked" /\ Ask(g).from = NextNeeded(g)
           /\ NextNeeded(g) <= g.last /\ Missing(g) <= MaxGapIds /\ BackfillEnabled
<1>1. /\ g.first \in Nat /\ g.last \in Nat /\ g.through \in Nat
      /\ PageLimit \in Nat /\ MaxGapIds \in Nat /\ BackfillEnabled \in BOOLEAN
  BY JobFields, TradeConstants
<1>2. NextNeeded(g) \in Nat /\ Missing(g) \in Int
  BY <1>1 DEF NextNeeded, Missing
<1>3. NextNeeded(g) <= g.last /\ Missing(g) <= MaxGapIds /\ BackfillEnabled
  BY <1>1, <1>2 DEF NeedsNoRequest, OutOfReach
<1> DEFINE k == g.last - NextNeeded(g) + 1
<1>4. k \in Nat
  BY <1>1, <1>2, <1>3
<1>5. Min({PageLimit, k}) \in Nat
  <2> HIDE DEF k
  <2>1. QED
    BY <1>1, <1>4, MinOfTwo
<1>6. QED
  BY <1>2, <1>3, <1>5 DEF Ask, FetchType

\* The pump.
LEMMA PumpTyped ==
    ASSUME TypedInv, NEW granted \in BOOLEAN, PumpBackfill(granted)
    PROVE  TypedInv'
<1>1. /\ todo # <<>> /\ Head(todo).do = "pump"
      /\ jobs' = Settled.jobs /\ todo' = Taken.out \o Settled.out
      /\ fetch' = IF fetch.st = "asked" THEN fetch
                    ELSE IF granted /\ Settled.jobs # <<>> THEN Ask(Head(Settled.jobs))
                    ELSE NoFetch
      /\ UNCHANGED <<sent, up, conn, last, events, chan, tp, left>>
  BY PumpParts
<1>2. /\ Settled.jobs \in Seq(JobType(sent)) /\ Outs(Settled.out, sent) /\ Outs(Taken.out, sent)
      /\ fetch.st # "asked" /\ Settled.jobs # <<>> => ~ NeedsNoRequest(Head(Settled.jobs))
  BY SettledTyped, TakenTyped
<1>3. todo' \in Seq(CommandType(sent)) /\ Ordered(todo')
  <2>1. Outs(todo', sent)
    BY <1>1, <1>2, OutsConcat
  <2>2. QED
    BY <2>1, OutsOrdered DEF Outs
<1>4. up' /\ sent \in Nat
  BY <1>1, TradeConstants DEF TypedInv, Nothing
<1>5. fetch' \in FetchType /\ AnswerFitsGap'
  <2>1. CASE fetch.st = "asked"
    <3>1. fetch' = fetch /\ jobs' = jobs
      BY <1>1, <2>1 DEF Settled
    <3>2. QED
      BY <3>1 DEF TypedInv, AnswerFitsGap
  <2>2. CASE fetch.st # "asked" /\ granted /\ Settled.jobs # <<>>
    <3>1. Head(Settled.jobs) \in JobType(sent) /\ ~ NeedsNoRequest(Head(Settled.jobs))
      BY <1>2, <2>2, TailSeq
    <3>2. fetch' = Ask(Head(Settled.jobs))
      BY <1>1, <2>2
    <3>3. QED
      BY <1>1, <1>4, <2>2, <3>1, <3>2, AskFits DEF AnswerFitsGap
  <2>3. CASE fetch.st # "asked" /\ ~ (granted /\ Settled.jobs # <<>>)
    BY <1>1, <2>3 DEF AnswerFitsGap, NoFetch, FetchType
  <2>4. QED
    BY <2>1, <2>2, <2>3
<1>6. EventsWait'
  <2>1. ~ Sends(todo)
    <3>1. todo \in Seq(CommandType(sent)) /\ Ordered(todo)
      BY DEF TypedInv
    <3>2. 1 \in 1 .. Len(todo) /\ todo[1].do = "pump"
      BY <1>1, <3>1, TailSeq
    <3>3. Len(todo) = 1
      BY <3>1, <3>2 DEF Ordered
    <3>4. QED
      BY <3>2, <3>3 DEF Sends, Sending
  <2>2. QED
    BY <1>1, <2>1 DEF TypedInv, EventsWait
<1>7. TpTyped(TpNow, sent)'
  BY <1>1 DEF TypedInv, TpTyped, TpNow, tp, TpType
<1>8. jobs' \in Seq(JobType(sent))
  BY <1>1, <1>2
<1> HIDE DEF AnswerFitsGap, EventsWait
<1>9. QED
  BY <1>1, <1>3, <1>4, <1>5, <1>6, <1>7, <1>8 DEF TypedInv

\* The worker answers the request in flight.
LEMMA WorkerFetchesTyped ==
    ASSUME TypedInv, WorkerFetches
    PROVE  TypedInv'
<1>1. PICK page \in Pages(fetch) : fetch' = [st |-> "page", from |-> fetch.from, page |-> page]
  BY DEF WorkerFetches
<1>2. /\ up /\ fetch.st = "asked"
      /\ UNCHANGED <<sent, up, conn, last, jobs, events, todo, chan, tp, left>>
  BY DEF WorkerFetches
<1>3. fetch.from \in Nat /\ fetch.limit \in Nat
  BY <1>2 DEF TypedInv, FetchType, NoFetch
<1>4. fetch.from >= 1
  <2>1. fetch.from = NextNeeded(Head(jobs)) /\ Head(jobs) \in JobType(sent) /\ sent \in Nat
    BY <1>2, TailSeq, TradeConstants DEF TypedInv, AnswerFitsGap
  <2>2. Head(jobs).first \in Nat /\ Head(jobs).first >= 1 /\ Head(jobs).through \in Nat
    BY <2>1, JobFields
  <2>3. QED
    BY <2>1, <2>2 DEF NextNeeded
<1>5. page \in PageType
  <2>1. \A k \in Nat : fetch.from .. k \subseteq Nat
    BY <1>3
  <2>2. /\ \A k \in fetch.from .. (fetch.from + fetch.limit - 1) : fetch.from .. k \in SUBSET Nat
        /\ {fetch.from + 1} \in SUBSET Nat /\ {fetch.from - 1} \in SUBSET Nat
        /\ {} \in SUBSET Nat
    BY <1>3, <1>4, <2>1
  <2>3. QED
    BY <1>1, <2>2 DEF Pages, PageType
<1>6. fetch' \in FetchType /\ fetch'.st = "page" /\ fetch'.from = fetch.from
  BY <1>1, <1>3, <1>5 DEF FetchType
<1>7. AnswerFitsGap' /\ EventsWait'
  BY <1>2, <1>6 DEF TypedInv, AnswerFitsGap, EventsWait
<1>8. TpTyped(TpNow, sent)'
  BY <1>2 DEF TypedInv, TpTyped, TpNow, tp, TpType
<1>9. QED
  BY <1>2, <1>6, <1>7, <1>8 DEF TypedInv

-----------------------------------------------------------------------------
(* The types of the variables *)

\* Nothing is there at first.
LEMMA TypedInit ==
    ASSUME Init
    PROVE  TypedInv
<1>1. /\ <<>> \in Seq(JobType(0)) /\ <<>> \in Seq(GapType(0)) /\ <<>> \in Seq(CommandType(0))
      /\ <<>> \in Seq(RowType(0))
  OBVIOUS
<1>2. Ordered(<<>>) /\ Nothing /\ EventsWait /\ AnswerFitsGap /\ NoFetch \in FetchType
  BY DEF Init, Ordered, Nothing, EventsWait, AnswerFitsGap, NoFetch, FetchType
<1>3. TpTyped(TpNow, 0)
  <2>1. [i \in Ids |-> 0] \in [Ids -> Nat] /\ LoggedIds([i \in Ids |-> 0]) = {}
    BY DEF LoggedIds
  <2>2. IsFiniteSet({})
    BY FS_EmptySet
  <2>3. TpNow.logged = [i \in Ids |-> 0] /\ TpNow.gaps = {} /\ TpNow \in TpType
    BY <2>1 DEF Init, TpNow, TpType
  <2>4. QED
    BY <2>1, <2>2, <2>3 DEF TpTyped
<1>4. 0 \in 0 .. MaxTrades /\ MaxFaults \in [FaultKinds -> Nat]
  BY TradeConstants
<1>5. /\ sent = 0 /\ up = FALSE /\ conn = "closed" /\ last = 0 /\ jobs = <<>> /\ fetch = NoFetch
      /\ events = <<>> /\ todo = <<>> /\ chan = <<>> /\ left = MaxFaults
  BY DEF Init
<1>6. sent \in 0 .. MaxTrades /\ up \in BOOLEAN /\ conn \in {"up", "broken", "closed"} /\ last \in 0 .. sent
  <2>1. 0 \in 0 .. 0
    OBVIOUS
  <2>2. last \in 0 .. sent
    BY <1>5, <2>1
  <2>3. sent \in 0 .. MaxTrades
    BY <1>4, <1>5
  <2>4. QED
    BY <1>5, <2>2, <2>3
<1>7. /\ jobs \in Seq(JobType(sent)) /\ events \in Seq(GapType(sent))
      /\ todo \in Seq(CommandType(sent)) /\ chan \in Seq(RowType(sent)) /\ Ordered(todo)
  BY <1>1, <1>2, <1>5
<1>8. fetch \in FetchType /\ TpTyped(TpNow, sent) /\ left \in [FaultKinds -> Nat]
  BY <1>2, <1>3, <1>4, <1>5
<1>9. QED
  BY <1>2, <1>6, <1>7, <1>8 DEF TypedInv

\* Every step keeps TypedInv.
LEMMA TypedNext ==
    ASSUME TypedInv, [Next]_vars
    PROVE  TypedInv'
<1>1. CASE UNCHANGED vars
  <2>1. UNCHANGED <<sent, up, conn, last, jobs, fetch, events, todo, chan, logged, gaps, left>>
    BY <1>1 DEF vars, handler, tp
  <2>2. TpTyped(TpNow, sent)'
    BY <2>1 DEF TypedInv, TpTyped, TpType, TpNow
  <2>3. AnswerFitsGap' /\ EventsWait' /\ (~up' => Nothing')
    BY <2>1 DEF TypedInv, AnswerFitsGap, EventsWait, Nothing
  <2>4. QED
    BY <2>1, <2>2, <2>3 DEF TypedInv
<1>2. CASE Next
  BY <1>2, TpLogsTyped, StartTyped, StartBlindTyped, KilledTyped, ReadTyped, ReadOldTyped,
     ReadUnreadableTyped, ReadOtherTyped, MissedTyped, PublishRowTyped, RecordGapTyped,
     EventAckedTyped, EventUnackedTyped, EventRejectedTyped, BreakTyped, PumpTyped,
     WorkerFetchesTyped DEF Next
<1>3. QED
  BY <1>1, <1>2

\* TypedInv contains the types the runs check.
LEMMA TypedIsTypeOK ==
    ASSUME TypedInv
    PROVE  TypeOK
<1>1. sent \in Nat /\ sent \in 0 .. MaxTrades
  BY TradeConstants DEF TypedInv
<1>2. \A g \in GapType(sent) : g \in Gaps /\ g.first <= g.last /\ g.through <= g.last
  BY <1>1, GapFields DEF GapType, Gaps
<1>3. Range(events) \subseteq Gaps
  BY <1>2 DEF TypedInv, Range
<1>4. \A c \in Range(chan) : c.id \in Ids /\ c.back \in BOOLEAN
  <2>1. \A c \in RowType(sent) : c.id \in Ids /\ c.back \in BOOLEAN
    BY <1>1, TradeConstants DEF RowType, Ids
  <2>2. QED
    BY <2>1 DEF TypedInv, Range
<1>5. /\ gaps \subseteq Gaps
      /\ \A g \in gaps : g.first <= g.last /\ g.through <= g.last
      /\ \A g, h \in gaps : g.first = h.first => g = h
      /\ logged \in [Ids -> Nat]
  BY <1>2 DEF TypedInv, TpTyped, TpNow, TpType
<1>6. fetch.st \in {"none", "asked", "page"}
  BY DEF TypedInv, FetchType, NoFetch
<1>7. IdleIsClosed
  BY DEF TypedInv, EventsWait, Sends, IdleIsClosed
<1>8. QED
  BY <1>1, <1>3, <1>4, <1>5, <1>6, <1>7 DEF TypedInv, TypeOK, Nothing

\* TypedInv always holds, whatever the constants, faults and kills.
THEOREM TradeFhTyped == Spec => []TypedInv
<1>1. Init => TypedInv
  BY TypedInit
<1>2. TypedInv /\ [Next]_vars => TypedInv'
  BY TypedNext
<1>3. QED
  BY <1>1, <1>2, PTL DEF Spec

\* The types, and with them: the tracker of TradeIdTracker never runs ahead of
\* the exchange, TP keeps one record per gap, and events that wait while the
\* loop is idle wait for a connection (trade_gap.hpp:131-144,
\* trade_feed_handler.cpp:446-447).
THEOREM TradesTyped == Spec => []TypeOK
<1>1. TypedInv => TypeOK
  BY TypedIsTypeOK
<1>2. QED
  BY <1>1, TradeFhTyped, PTL

\* An answer in flight belongs to the gap at the head of the queue, which is in
\* reach and needs it (TradeBackfill::pump, trade_backfill.hpp:194-245).
THEOREM AnswersFit == Spec => []AnswerFitsGap
<1>1. TypedInv => AnswerFitsGap
  BY DEF TypedInv
<1>2. QED
  BY <1>1, TradeFhTyped, PTL

-----------------------------------------------------------------------------
(***************************************************************************)
(* Progress.  Ids travel to TP in an order: the log, the channel, the rows *)
(* among the commands left to do.  What is said of a gap comes after the   *)
(* rows it is said of, and a backfilled row after the ids of its gap       *)
(* before it.  A kill may leave gaps that overlap: a gap whose following   *)
(* row was lost is found again, and larger.                                *)
(***************************************************************************)

\* What a gap or the record of one says is true of the ids L: those up to its
\* progress are among them; the handler had come to its first id; an id inside it
\* comes after all before it, or after one beyond it; and what an earlier gap of G
\* has below it is there.
Sound(g, L, G) ==
    /\ g.through > 0 => g.first .. g.through \subseteq L
    /\ \E j \in L : j >= g.first - 1
    /\ \A j \in L : Covers(g, j) => g.first .. j \subseteq L \/ \E i \in L : i > g.last
    /\ \A h \in G : h.first < g.first /\ g.first <= h.last => h.first .. (g.first - 1) \subseteq L

\* The same of a record, which may call the gap recovered.
Good(g, L, G) == Sound(g, L, G) /\ (g.status = "recovered" => g.first .. g.last \subseteq L)

\* A row comes after the ids before it in each gap of G; a live row may come after
\* an id beyond the gap instead.
Fits(c, L, G) ==
    \A g \in G : Covers(g, c.id) =>
        \/ g.first .. (c.id - 1) \subseteq L
        \/ ~c.back /\ \E i \in L : i > g.last

\* TP with the first n rows of the channel logged.
TpGood(t, q, n, G) ==
    /\ \A g \in t.gaps : Good(g, LoggedIds(t.logged), G)
    /\ \A k \in n + 1 .. Len(q) : Fits(q[k], LoggedIds(t.logged) \cup ChanIds(q, n, k - 1), t.gaps)

EventsGood(evs, D, G) == \A k \in 1 .. Len(evs) : Good(evs[k], D, G)

\* Ids of the rows before the k-th command.
RowIds(td, k) == {td[m].id : m \in {n \in 1 .. k - 1 : td[n].do = "row" /\ td[n].id > 0}}

AllRowIds(td) == RowIds(td, Len(td) + 1)

\* The commands left to do, with the ids D delivered.
CommandGood(c, L, G) ==
    /\ c.do = "row" => Fits(c, L, G)
    /\ c.do = "event" => Good(c.event, L, G)

ListGood(td, D, G) == \A k \in 1 .. Len(td) : CommandGood(td[k], D \cup RowIds(td, k), G)

JobsGood(q, A, G) == \A k \in 1 .. Len(q) : Sound(q[k], A, G)

\* The ids that TP has, or has on its connection.
Delivered == LoggedIds(logged) \cup ChanIds(chan, 0, Len(chan))

\* These, and the ids on the way to it.
OnTheWay == Delivered \cup AllRowIds(todo)

\* Every record of a gap there is, and what is still to be backfilled.
AllGaps == gaps \cup Held \cup Range(jobs)

\* The tracker's id m: it is on the way, ids beyond it are without a hole, no gap
\* begins further on, and of a gap that reaches it all is there up to it.
TrackerGood(m, A, G) ==
    m > 0 =>
        /\ \E j \in A : j >= m
        /\ \A j \in A : j > m => m + 1 .. j \subseteq A
        /\ \A g \in G : g.first <= m + 1 /\ (m <= g.last => g.first .. m \subseteq A)

ProgressInv ==
    /\ TypedInv
    /\ TpGood(TpNow, chan, 0, AllGaps)
    /\ EventsGood(events, Delivered, AllGaps)
    /\ ListGood(todo, Delivered, AllGaps)
    /\ JobsGood(jobs, OnTheWay, AllGaps)
    /\ TrackerGood(last, OnTheWay, AllGaps)

-----------------------------------------------------------------------------
(* More ids and fewer gaps *)

\* Every gap of G has the bounds of one of H.
SpansIn(G, H) == \A g \in G : \E h \in H : g.first = h.first /\ g.last = h.last

\* The ids that M has beyond L do not come too early in the gap g.
NotEarly(g, L, M) ==
    \A j \in M \ L : Covers(g, j) => g.first .. j \subseteq M \/ \E i \in M : i > g.last

\* A gap stays sound with ids that do not come too early, and fewer gaps.
LEMMA SoundMore ==
    ASSUME NEW L, NEW M, L \subseteq M, NEW G, NEW H, SpansIn(G, H), NEW g, Sound(g, L, H),
           NotEarly(g, L, M)
    PROVE  Sound(g, M, G)
<1>1. g.through > 0 => g.first .. g.through \subseteq M
  BY DEF Sound
<1>2. \E j \in M : j >= g.first - 1
  BY DEF Sound
<1>3. ASSUME NEW j \in M, Covers(g, j)
      PROVE  g.first .. j \subseteq M \/ \E i \in M : i > g.last
  BY <1>3 DEF Sound, NotEarly
<1>4. ASSUME NEW h \in G, h.first < g.first, g.first <= h.last
      PROVE  h.first .. (g.first - 1) \subseteq M
  <2>1. PICK x \in H : h.first = x.first /\ h.last = x.last
    BY DEF SpansIn
  <2>2. x.first .. (g.first - 1) \subseteq L
    BY <1>4, <2>1 DEF Sound
  <2>3. QED
    BY <2>1, <2>2
<1>5. QED
  BY <1>1, <1>2, <1>3, <1>4 DEF Sound

\* And so does the record of one.
LEMMA GoodMore ==
    ASSUME NEW L, NEW M, L \subseteq M, NEW G, NEW H, SpansIn(G, H), NEW g, Good(g, L, H),
           NotEarly(g, L, M)
    PROVE  Good(g, M, G)
<1>1. Sound(g, M, G)
  BY SoundMore DEF Good
<1>2. QED
  BY <1>1 DEF Good

\* With the same ids nothing comes too early.
LEMMA SameNotEarly ==
    ASSUME NEW L, NEW g
    PROVE  NotEarly(g, L, L)
BY DEF NotEarly

\* A row that fits does not come too early.
LEMMA FitsNotEarly ==
    ASSUME NEW L, NEW G, NEW g \in G, g.first \in Nat, NEW c, c.id \in Nat, Fits(c, L, G)
    PROVE  NotEarly(g, L, L \cup {c.id})
<1>1. ASSUME Covers(g, c.id), g.first .. (c.id - 1) \subseteq L
      PROVE  g.first .. c.id \subseteq L \cup {c.id}
  BY <1>1
<1>2. QED
  BY <1>1 DEF Fits, NotEarly

\* A row fits with more ids before it, and fewer gaps.
LEMMA FitsMore ==
    ASSUME NEW L, NEW M, L \subseteq M, NEW G, NEW H, SpansIn(G, H), NEW c, Fits(c, L, H)
    PROVE  Fits(c, M, G)
<1>1. ASSUME NEW g \in G, Covers(g, c.id)
      PROVE  g.first .. (c.id - 1) \subseteq M \/ (~c.back /\ \E i \in M : i > g.last)
  <2>1. PICK h \in H : g.first = h.first /\ g.last = h.last
    BY DEF SpansIn
  <2>2. Covers(h, c.id)
    BY <1>1, <2>1 DEF Covers
  <2>3. h.first .. (c.id - 1) \subseteq L \/ (~c.back /\ \E i \in L : i > h.last)
    BY <2>2 DEF Fits
  <2>4. QED
    BY <2>1, <2>3
<1>2. QED
  BY <1>1 DEF Fits

\* Fewer gaps leave the commands good.
LEMMA ListGoodFewer ==
    ASSUME NEW D, NEW G, NEW H, SpansIn(G, H), NEW td, ListGood(td, D, H)
    PROVE  ListGood(td, D, G)
<1>1. ASSUME NEW k \in 1 .. Len(td)
      PROVE  CommandGood(td[k], D \cup RowIds(td, k), G)
  <2> DEFINE L == D \cup RowIds(td, k)
  <2>1. CommandGood(td[k], L, H)
    BY DEF ListGood
  <2> HIDE DEF L
  <2>2. td[k].do = "row" => Fits(td[k], L, G)
    BY <2>1, FitsMore DEF CommandGood
  <2>3. td[k].do = "event" => Good(td[k].event, L, G)
    BY <2>1, GoodMore, SameNotEarly DEF CommandGood
  <2>4. QED
    BY <2>2, <2>3 DEF CommandGood, L
<1>2. QED
  BY <1>1 DEF ListGood

\* Fewer gaps leave the events good, and the jobs.
LEMMA QueuesGoodFewer ==
    ASSUME NEW L, NEW G, NEW H, SpansIn(G, H), NEW q
    PROVE  /\ EventsGood(q, L, H) => EventsGood(q, L, G)
           /\ JobsGood(q, L, H) => JobsGood(q, L, G)
BY GoodMore, SoundMore, SameNotEarly DEF EventsGood, JobsGood

\* Fewer gaps leave the tracker good.
LEMMA TrackerGoodFewer ==
    ASSUME NEW m, NEW A, NEW G, NEW H, SpansIn(G, H), TrackerGood(m, A, H)
    PROVE  TrackerGood(m, A, G)
<1>1. ASSUME m > 0, NEW g \in G
      PROVE  g.first <= m + 1 /\ (m <= g.last => g.first .. m \subseteq A)
  <2>1. PICK h \in H : g.first = h.first /\ g.last = h.last
    BY DEF SpansIn
  <2>2. h.first <= m + 1 /\ (m <= h.last => h.first .. m \subseteq A)
    BY <1>1 DEF TrackerGood
  <2>3. QED
    BY <2>1, <2>2
<1>2. QED
  BY <1>1 DEF TrackerGood

-----------------------------------------------------------------------------
(* Progress as rows are logged *)

\* The next row moves its gap on by what is in the log.
LEMMA MovedGood ==
    ASSUME NEW s \in Nat, NEW G, NEW H, NEW g \in H, g \in GapType(s), NEW c, c.id \in Nat,
           c.back, NEW L, Good(g, L, G), Fits(c, L, H)
    PROVE  Good(Moved(g, c.id), L \cup {c.id}, G)
<1> DEFINE i == c.id
           h == Moved(g, i)
           M == L \cup {i}
<1>1. h.first = g.first /\ h.last = g.last /\ h.status = g.status
      /\ h.through = IF Covers(g, i) /\ i > g.through THEN i ELSE g.through
  BY MovedGap
<1>2. g.first \in Nat /\ g.last \in Nat /\ g.through \in Nat
  BY GapFields
<1>3. Good(g, M, G)
  <2>1. NotEarly(g, L, M)
    BY <1>2, FitsNotEarly
  <2>2. SpansIn(G, G) /\ L \subseteq M
    BY DEF SpansIn
  <2>3. QED
    BY <2>1, <2>2, GoodMore
<1>4. h.through > 0 => h.first .. h.through \subseteq M
  <2>1. CASE Covers(g, i) /\ i > g.through
    <3>1. g.first .. (i - 1) \subseteq L
      BY <2>1 DEF Fits
    <3>2. QED
      BY <1>1, <1>2, <2>1, <3>1
  <2>2. CASE ~ (Covers(g, i) /\ i > g.through)
    BY <1>1, <1>3, <2>2 DEF Good, Sound
  <2>3. QED
    BY <2>1, <2>2
<1> HIDE DEF h, M
<1>5. QED
  BY <1>1, <1>3, <1>4 DEF Good, Sound, Covers, h, M

\* A row changes no gap's bounds.
LEMMA LogRowSpans ==
    ASSUME NEW s \in 0 .. MaxTrades, NEW t, TpTyped(t, s), NEW c \in RowType(s)
    PROVE  SpansIn(LogRow(t, c).gaps, t.gaps) /\ SpansIn(t.gaps, LogRow(t, c).gaps)
<1>1. c \in RowType(MaxTrades) /\ t \in TpType /\ s \in Nat /\ c.id \in Nat
  BY TypesGrow, TradeConstants DEF TpTyped, RowType
<1>2. LogRow(t, c).gaps = IF c.back THEN {Moved(g, c.id) : g \in t.gaps} ELSE t.gaps
  BY <1>1, LogRowEffect
<1>3. \A g \in t.gaps : Moved(g, c.id).first = g.first /\ Moved(g, c.id).last = g.last
  BY <1>1, MovedGap DEF TpTyped
<1>4. CASE c.back
  <2>1. LogRow(t, c).gaps = {Moved(g, c.id) : g \in t.gaps}
    BY <1>2, <1>4
  <2>2. QED
    BY <1>3, <2>1 DEF SpansIn
<1>5. CASE ~ c.back
  BY <1>2, <1>5 DEF SpansIn
<1>6. QED
  BY <1>4, <1>5

\* Logging the next row leaves what is said good.
LEMMA LogRowGood ==
    ASSUME NEW s \in 0 .. MaxTrades, NEW t, TpTyped(t, s), NEW q \in Seq(RowType(s)), NEW G,
           NEW n \in Nat, n + 1 <= Len(q), TpGood(t, q, n, G)
    PROVE  TpGood(LogRow(t, q[n + 1]), q, n + 1, G)
<1> DEFINE c == q[n + 1]
           u == LogRow(t, c)
           L == LoggedIds(t.logged)
           M == LoggedIds(u.logged)
<1>1. c \in RowType(s) /\ c \in RowType(MaxTrades) /\ t \in TpType /\ s \in Nat /\ c.id \in Nat
  <2>1. n + 1 \in 1 .. Len(q)
    OBVIOUS
  <2>2. c \in RowType(s)
    BY <2>1
  <2> HIDE DEF c
  <2>3. QED
    BY <2>2, TypesGrow, TradeConstants DEF TpTyped, RowType
<1>2. M = L \cup {c.id} /\ u.gaps = IF c.back THEN {Moved(g, c.id) : g \in t.gaps} ELSE t.gaps
  BY <1>1, LogRowEffect
<1>3. SpansIn(u.gaps, t.gaps) /\ SpansIn(G, G)
  BY <1>1, LogRowSpans DEF SpansIn
<1> HIDE DEF u, c
<1>4. ChanIds(q, n, n) = {}
  BY DEF ChanIds
<1>5. Fits(c, L, t.gaps)
  <2>1. n + 1 \in n + 1 .. Len(q) /\ (n + 1) - 1 = n
    OBVIOUS
  <2>2. QED
    BY <1>4, <2>1 DEF TpGood, c
<1>6. ASSUME NEW h \in u.gaps
      PROVE  Good(h, M, G)
  <2>1. CASE c.back
    <3>1. PICK g \in t.gaps : h = Moved(g, c.id)
      BY <1>2, <2>1
    <3>2. g \in GapType(s) /\ Good(g, L, G)
      BY DEF TpTyped, TpGood
    <3>3. Good(Moved(g, c.id), L \cup {c.id}, G)
      BY <1>1, <1>5, <2>1, <3>2, MovedGood
    <3>4. QED
      BY <1>2, <3>1, <3>3
  <2>2. CASE ~ c.back
    <3>1. h \in t.gaps /\ L \subseteq M
      BY <1>2, <2>2
    <3>2. Good(h, L, G) /\ h \in GapType(s)
      BY <3>1 DEF TpGood, TpTyped
    <3>3. h.first \in Nat
      BY <1>1, <3>2, GapFields
    <3>4. NotEarly(h, L, L \cup {c.id})
      BY <1>1, <1>5, <3>1, <3>3, FitsNotEarly
    <3>5. QED
      BY <1>2, <1>3, <3>1, <3>2, <3>4, GoodMore
  <2>3. QED
    BY <2>1, <2>2
<1>7. ASSUME NEW k \in (n + 1) + 1 .. Len(q)
      PROVE  Fits(q[k], M \cup ChanIds(q, n + 1, k - 1), u.gaps)
  <2>1. L \cup ChanIds(q, n, k - 1) \subseteq M \cup ChanIds(q, n + 1, k - 1)
    <3>1. ASSUME NEW m \in n + 1 .. k - 1
          PROVE  q[m].id \in M \cup ChanIds(q, n + 1, k - 1)
      BY <1>2 DEF ChanIds, c
    <3>2. QED
      BY <1>2, <3>1 DEF ChanIds
  <2>2. Fits(q[k], L \cup ChanIds(q, n, k - 1), t.gaps)
    <3>1. k \in n + 1 .. Len(q)
      OBVIOUS
    <3>2. QED
      BY <3>1 DEF TpGood
  <2>3. QED
    BY <1>3, <2>1, <2>2, FitsMore
<1>8. QED
  BY <1>6, <1>7 DEF TpGood, u, c

\* Along a run TP stays good, and no gap's bounds change.
LEMMA RunGood ==
    ASSUME NEW s \in 0 .. MaxTrades, NEW t, TpTyped(t, s), NEW q \in Seq(RowType(s)),
           NEW r, LogRun(r, t, q), NEW G, TpGood(t, q, 0, G)
    PROVE  \A n \in 0 .. Len(q) :
                /\ TpGood(r[n], q, n, G)
                /\ SpansIn(r[n].gaps, t.gaps) /\ SpansIn(t.gaps, r[n].gaps)
<1> DEFINE Q(n) == /\ TpGood(r[n], q, n, G)
                   /\ SpansIn(r[n].gaps, t.gaps) /\ SpansIn(t.gaps, r[n].gaps)
           P == {n \in Nat : n <= Len(q) => Q(n)}
<1>1. 0 \in P
  <2>1. r[0] = t
    BY DEF LogRun
  <2>2. SpansIn(t.gaps, t.gaps)
    BY DEF SpansIn
  <2>3. QED
    BY <2>1, <2>2
<1>2. ASSUME NEW n \in Nat, n \in P
      PROVE  n + 1 \in P
  <2>1. SUFFICES ASSUME n + 1 <= Len(q)
                 PROVE  Q(n + 1)
    OBVIOUS
  <2>2. Q(n) /\ n + 1 \in 1 .. Len(q) /\ n \in 0 .. Len(q)
    BY <1>2, <2>1
  <2>3. r[n + 1] = LogRow(r[n], q[n + 1]) /\ q[n + 1] \in RowType(s)
    BY <2>2 DEF LogRun
  <2>4. TpTyped(r[n], s)
    BY <2>2, RunTyped
  <2>5. TpGood(r[n + 1], q, n + 1, G)
    BY <2>1, <2>2, <2>3, <2>4, LogRowGood
  <2>6. SpansIn(r[n + 1].gaps, r[n].gaps) /\ SpansIn(r[n].gaps, r[n + 1].gaps)
    BY <2>3, <2>4, LogRowSpans
  <2>7. QED
    BY <2>2, <2>5, <2>6 DEF SpansIn
<1> HIDE DEF Q
<1>3. Nat \subseteq P
  <2> HIDE DEF P
  <2>1. QED
    BY <1>1, <1>2, SetInduction
<1>4. ASSUME NEW n \in 0 .. Len(q)
      PROVE  Q(n)
  BY <1>3
<1>5. QED
  BY <1>4 DEF Q

\* TP logs rows: every record is good, and no gap's bounds change.
LogsGood(t, L, G) ==
    /\ LoggedIds(t.logged) = L
    /\ \A g \in t.gaps : Good(g, L, G)
    /\ SpansIn(t.gaps, gaps) /\ SpansIn(gaps, t.gaps)

\* Any number of rows from the channel leaves TP good.
LEMMA LogRowsGood ==
    ASSUME NEW s \in 0 .. MaxTrades, TpTyped(TpNow, s), NEW q \in Seq(RowType(s)), NEW G,
           TpGood(TpNow, q, 0, G)
    PROVE  LogsGood(LogRows(q), LoggedIds(logged) \cup ChanIds(q, 0, Len(q)), G)
<1>1. PICK r : LogRun(r, TpNow, q) /\ LogRows(q) = r[Len(q)]
  BY LogRowsRun
<1>2. Len(q) \in 0 .. Len(q) /\ TpNow.gaps = gaps
  BY DEF TpNow
<1>3. /\ TpGood(r[Len(q)], q, Len(q), G)
      /\ SpansIn(r[Len(q)].gaps, gaps) /\ SpansIn(gaps, r[Len(q)].gaps)
  BY <1>1, <1>2, RunGood
<1>4. LoggedIds(LogRows(q).logged) = LoggedIds(logged) \cup ChanIds(q, 0, Len(q))
  BY LogRowsTyped
<1>5. QED
  BY <1>1, <1>3, <1>4 DEF TpGood, LogsGood

\* The same for the first n rows of the channel.
LEMMA PrefixGood ==
    ASSUME NEW s, NEW t, NEW q \in Seq(RowType(s)), NEW n \in 0 .. Len(q), NEW G,
           TpGood(t, q, 0, G)
    PROVE  TpGood(t, SubSeq(q, 1, n), 0, G)
<1> DEFINE p == SubSeq(q, 1, n)
<1>1. p \in Seq(RowType(s)) /\ Len(p) = n /\ \A i \in 1 .. n : p[i] = q[i]
  BY PrefixSeq
<1> HIDE DEF p
<1>2. ASSUME NEW k \in 0 + 1 .. Len(p)
      PROVE  Fits(p[k], LoggedIds(t.logged) \cup ChanIds(p, 0, k - 1), t.gaps)
  <2>1. k \in 0 + 1 .. Len(q) /\ p[k] = q[k]
    BY <1>1
  <2>2. Fits(q[k], LoggedIds(t.logged) \cup ChanIds(q, 0, k - 1), t.gaps)
    BY <2>1 DEF TpGood
  <2>3. ChanIds(p, 0, k - 1) = ChanIds(q, 0, k - 1)
    BY <1>1 DEF ChanIds
  <2>4. QED
    BY <2>1, <2>2, <2>3
<1>3. QED
  BY <1>2 DEF TpGood, p

-----------------------------------------------------------------------------
(* What is left to do, without its first command *)

\* The gaps whose events are among the commands.
EventsOf(td) == {c.event : c \in {d \in Range(td) : d.do = "event"}}

\* The rows before a command: the first, and those of the tail.
LEMMA RowIdsTail ==
    ASSUME NEW T, NEW td \in Seq(T), td # <<>>, NEW k \in 1 .. Len(td)
    PROVE  RowIds(td, k + 1) = RowIds(td, 2) \cup RowIds(Tail(td), k)
<1> DEFINE w == Tail(td)
           n == Len(td)
           Is(x, m) == x[m].do = "row" /\ x[m].id > 0
<1>1. n \in Nat /\ n >= 1 /\ \A i \in 1 .. n - 1 : w[i] = td[i + 1]
  BY TailSeq
<1> HIDE DEF n, w
<1>2. ASSUME NEW m \in 1 .. (k + 1) - 1, Is(td, m)
      PROVE  td[m].id \in RowIds(td, 2) \cup RowIds(w, k)
  <2>1. CASE m = 1
    BY <1>2, <2>1 DEF RowIds
  <2>2. CASE m > 1
    <3>1. m - 1 \in 1 .. k - 1 /\ m - 1 \in 1 .. n - 1 /\ (m - 1) + 1 = m
      BY <1>1, <2>2 DEF n
    <3>2. w[m - 1] = td[m]
      BY <1>1, <3>1
    <3>3. QED
      BY <1>2, <3>1, <3>2 DEF RowIds
  <2>3. QED
    BY <2>1, <2>2
<1>3. ASSUME NEW m \in 1 .. 2 - 1, Is(td, m)
      PROVE  td[m].id \in RowIds(td, k + 1)
  BY <1>3 DEF RowIds
<1>4. ASSUME NEW m \in 1 .. k - 1, Is(w, m)
      PROVE  w[m].id \in RowIds(td, k + 1)
  <2>1. m \in 1 .. n - 1 /\ m + 1 \in 1 .. (k + 1) - 1
    BY <1>1 DEF n
  <2>2. w[m] = td[m + 1]
    BY <1>1, <2>1
  <2>3. QED
    BY <1>4, <2>1, <2>2 DEF RowIds
<1>5. RowIds(td, k + 1) \subseteq RowIds(td, 2) \cup RowIds(w, k)
  BY <1>2 DEF RowIds
<1>6. RowIds(td, 2) \subseteq RowIds(td, k + 1)
  BY <1>3 DEF RowIds
<1>7. RowIds(w, k) \subseteq RowIds(td, k + 1)
  BY <1>4 DEF RowIds
<1>8. QED
  BY <1>5, <1>6, <1>7 DEF w

\* The ids of a list of commands, and of its tail.
LEMMA AllRowIdsTail ==
    ASSUME NEW T, NEW td \in Seq(T), td # <<>>
    PROVE  AllRowIds(td) = RowIds(td, 2) \cup AllRowIds(Tail(td))
<1>1. Len(Tail(td)) + 1 = Len(td) /\ Len(td) \in 1 .. Len(td)
  <2> DEFINE n == Len(td)
             m == Len(Tail(td))
  <2>1. n \in Nat /\ n >= 1 /\ m = n - 1
    BY TailSeq
  <2> HIDE DEF n, m
  <2>2. m + 1 = n /\ n \in 1 .. n
    BY <2>1
  <2>3. QED
    BY <2>2 DEF n, m
<1>2. RowIds(td, Len(td) + 1) = RowIds(td, 2) \cup RowIds(Tail(td), Len(td))
  BY <1>1, RowIdsTail
<1>3. QED
  BY <1>1, <1>2 DEF AllRowIds

\* The id of the first command.
LEMMA FirstRowId ==
    ASSUME NEW td
    PROVE  /\ RowIds(td, 1) = {}
           /\ RowIds(td, 2) = IF td[1].do = "row" /\ td[1].id > 0 THEN {td[1].id} ELSE {}
BY DEF RowIds

\* What is left to do after the first command, whose id has been delivered.
LEMMA ListGoodTail ==
    ASSUME NEW T, NEW td \in Seq(T), td # <<>>, NEW D, NEW G, ListGood(td, D, G)
    PROVE  ListGood(Tail(td), D \cup RowIds(td, 2), G)
<1> DEFINE n == Len(td)
           w == Tail(td)
<1>1. n \in Nat /\ n >= 1 /\ Len(w) = n - 1 /\ \A i \in 1 .. n - 1 : w[i] = td[i + 1]
  BY TailSeq
<1>2. ASSUME NEW k \in 1 .. Len(w)
      PROVE  CommandGood(w[k], (D \cup RowIds(td, 2)) \cup RowIds(w, k), G)
  <2>1. k \in 1 .. n - 1 /\ k \in 1 .. n /\ k + 1 \in 1 .. n
    <3> HIDE DEF n, w
    <3>1. QED
      BY <1>1
  <2>2. w[k] = td[k + 1] /\ CommandGood(td[k + 1], D \cup RowIds(td, k + 1), G)
    BY <1>1, <2>1 DEF ListGood
  <2>3. RowIds(td, k + 1) = RowIds(td, 2) \cup RowIds(w, k)
    BY <2>1, RowIdsTail
  <2>4. D \cup RowIds(td, k + 1) = (D \cup RowIds(td, 2)) \cup RowIds(w, k)
    BY <2>3
  <2> HIDE DEF w
  <2>5. QED
    BY <2>2, <2>4
<1>3. QED
  BY <1>2 DEF ListGood

\* The events among the commands: the first, and those of the tail.
LEMMA EventsOfTail ==
    ASSUME NEW T, NEW td \in Seq(T), td # <<>>
    PROVE  EventsOf(td) = EventsOf(Tail(td)) \cup (IF td[1].do = "event" THEN {td[1].event} ELSE {})
<1> DEFINE n == Len(td)
           w == Tail(td)
<1>1. n \in Nat /\ n >= 1 /\ Len(w) = n - 1 /\ \A i \in 1 .. n - 1 : w[i] = td[i + 1]
  BY TailSeq
<1>2. Range(td) = {td[k] : k \in 1 .. n} /\ Range(w) = {w[k] : k \in 1 .. n - 1}
  <2>1. DOMAIN td = 1 .. n
    OBVIOUS
  <2>2. w \in Seq(T)
    BY TailSeq
  <2> HIDE DEF w, n
  <2>3. DOMAIN w = 1 .. n - 1
    BY <1>1, <2>2
  <2>4. QED
    BY <2>1, <2>3 DEF Range
<1> HIDE DEF n, w
<1>3. Range(td) = {td[1]} \cup Range(w)
  <2>1. ASSUME NEW k \in 1 .. n
        PROVE  td[k] \in {td[1]} \cup Range(w)
    <3>1. CASE k = 1
      BY <3>1
    <3>2. CASE k > 1
      <4>1. k - 1 \in 1 .. n - 1 /\ (k - 1) + 1 = k
        BY <1>1, <3>2
      <4>2. w[k - 1] = td[k]
        BY <1>1, <4>1
      <4>3. QED
        BY <1>2, <4>1, <4>2
    <3>3. QED
      BY <3>1, <3>2
  <2>2. ASSUME NEW k \in 1 .. n - 1
        PROVE  w[k] \in Range(td)
    <3>1. w[k] = td[k + 1] /\ k + 1 \in 1 .. n
      BY <1>1
    <3>2. QED
      BY <1>2, <3>1
  <2>3. td[1] \in Range(td)
    <3>1. 1 \in 1 .. n
      BY <1>1
    <3>2. QED
      BY <1>2, <3>1
  <2>4. QED
    BY <1>2, <2>1, <2>2, <2>3
<1>4. QED
  BY <1>3 DEF EventsOf, w

\* What follows the first command: the tail, or that without a flush.
LEMMA RestGood ==
    ASSUME NEW T, todo \in Seq(T), todo # <<>>, NEW D, NEW G, ListGood(todo, D, G), NEW evs
    PROVE  /\ ListGood(Rest(evs), D \cup RowIds(todo, 2), G)
           /\ AllRowIds(todo) = RowIds(todo, 2) \cup AllRowIds(Rest(evs))
           /\ EventsOf(todo) = EventsOf(Rest(evs)) \cup
                    (IF todo[1].do = "event" THEN {todo[1].event} ELSE {})
<1> DEFINE w == Tail(todo)
           E == D \cup RowIds(todo, 2)
<1>1. /\ w \in Seq(T) /\ ListGood(w, E, G) /\ AllRowIds(todo) = RowIds(todo, 2) \cup AllRowIds(w)
      /\ EventsOf(todo) = EventsOf(w) \cup (IF todo[1].do = "event" THEN {todo[1].event} ELSE {})
  BY TailSeq, ListGoodTail, AllRowIdsTail, EventsOfTail
<1>2. CASE evs = <<>> /\ w # <<>> /\ todo[2].do = "flush"
  <2>1. w[1].do = "flush"
    BY <1>2, TailSeq
  <2>2. Rest(evs) = Tail(w)
    BY <1>2 DEF Rest
  <2> HIDE DEF w, E
  <2>3. RowIds(w, 2) = {}
    <3>1. w[1].do # "row"
      BY <2>1
    <3>2. QED
      BY <3>1, FirstRowId
  <2>4. ListGood(Tail(w), E, G)
    <3>1. ListGood(Tail(w), E \cup RowIds(w, 2), G)
      BY <1>1, <1>2, ListGoodTail
    <3>2. QED
      BY <2>3, <3>1
  <2>5. AllRowIds(w) = AllRowIds(Tail(w))
    BY <1>1, <1>2, <2>3, AllRowIdsTail
  <2>6. EventsOf(w) = EventsOf(Tail(w))
    <3>1. w[1].do # "event"
      BY <2>1
    <3>2. EventsOf(w) = EventsOf(Tail(w)) \cup (IF w[1].do = "event" THEN {w[1].event} ELSE {})
      BY <1>1, <1>2, EventsOfTail
    <3>3. QED
      BY <3>1, <3>2
  <2>7. QED
    BY <1>1, <2>2, <2>4, <2>5, <2>6 DEF E
<1>3. CASE ~ (evs = <<>> /\ w # <<>> /\ todo[2].do = "flush")
  <2>1. Rest(evs) = w
    BY <1>3 DEF Rest
  <2> HIDE DEF w, E
  <2>2. QED
    BY <1>1, <2>1 DEF E
<1>4. QED
  BY <1>2, <1>3

\* The gaps there are, by where they are.
LEMMA AllGapsAre == AllGaps = gaps \cup Range(events) \cup EventsOf(todo) \cup Range(jobs)
BY DEF AllGaps, Held, EventsOf

\* Fewer gaps leave TP good.
LEMMA TpGoodFewer ==
    ASSUME NEW t, NEW q, NEW n, NEW G, NEW H, SpansIn(G, H), TpGood(t, q, n, H)
    PROVE  TpGood(t, q, n, G)
BY GoodMore, SameNotEarly DEF TpGood

\* What a step has to show that adds no gap and leaves the ids on the way alone.
LEMMA ProgressKept ==
    ASSUME ProgressInv, TypedInv', OnTheWay' = OnTheWay,
           SpansIn(AllGaps', AllGaps), TpGood(TpNow', chan', 0, AllGaps),
           EventsGood(events', Delivered', AllGaps), ListGood(todo', Delivered', AllGaps),
           JobsGood(jobs', OnTheWay, AllGaps), TrackerGood(last', OnTheWay, AllGaps)
    PROVE  ProgressInv'
<1> DEFINE D == Delivered'
           A == OnTheWay
           G == AllGaps
           H == AllGaps'
<1>1. OnTheWay' = A
  OBVIOUS
<1>2. SpansIn(H, G) /\ TpGood(TpNow', chan', 0, G) /\ EventsGood(events', D, G)
      /\ ListGood(todo', D, G) /\ JobsGood(jobs', A, G) /\ TrackerGood(last', A, G)
  OBVIOUS
<1> HIDE DEF D, A, G, H
<1>3. TpGood(TpNow', chan', 0, H)
  BY <1>2, TpGoodFewer
<1>4. EventsGood(events', D, H) /\ JobsGood(jobs', A, H)
  BY <1>2, QueuesGoodFewer
<1>5. ListGood(todo', D, H)
  BY <1>2, ListGoodFewer
<1>6. TrackerGood(last', A, H)
  BY <1>2, TrackerGoodFewer
<1>7. QED
  BY <1>1, <1>3, <1>4, <1>5, <1>6 DEF ProgressInv, D, H

\* Where the gaps after a step come from.
LEMMA SpansKept ==
    ASSUME SpansIn(gaps', AllGaps), Range(events') \subseteq AllGaps,
           EventsOf(todo') \subseteq AllGaps, SpansIn(Range(jobs'), AllGaps)
    PROVE  SpansIn(AllGaps', AllGaps)
<1> DEFINE G == AllGaps
           H == AllGaps'
<1>1. H = gaps' \cup Range(events') \cup EventsOf(todo') \cup Range(jobs')
  BY DEF AllGaps, Held, EventsOf
<1>2. SpansIn(gaps', G) /\ Range(events') \subseteq G /\ EventsOf(todo') \subseteq G
      /\ SpansIn(Range(jobs'), G)
  OBVIOUS
<1> HIDE DEF G, H
<1>3. SpansIn(H, G)
  BY <1>1, <1>2 DEF SpansIn
<1>4. QED
  BY <1>3 DEF G, H

\* The rows behind the first one.
LEMMA ChanTail ==
    ASSUME NEW T, NEW q \in Seq(T), q # <<>>, NEW k \in 0 .. Len(q) - 1
    PROVE  ChanIds(Tail(q), 0, k) = ChanIds(q, 1, k + 1)
<1> DEFINE w == Tail(q)
           n == Len(q)
<1>1. n \in Nat /\ \A i \in 1 .. n - 1 : w[i] = q[i + 1]
  BY TailSeq
<1> HIDE DEF w, n
<1>2. ASSUME NEW m \in 0 + 1 .. k
      PROVE  w[m].id \in ChanIds(q, 1, k + 1)
  <2>1. m \in 1 .. n - 1 /\ m + 1 \in 1 + 1 .. k + 1
    BY <1>1 DEF n
  <2>2. w[m] = q[m + 1]
    BY <1>1, <2>1
  <2>3. QED
    BY <2>1, <2>2 DEF ChanIds
<1>3. ASSUME NEW m \in 1 + 1 .. k + 1
      PROVE  q[m].id \in ChanIds(w, 0, k)
  <2>1. m - 1 \in 1 .. n - 1 /\ m - 1 \in 0 + 1 .. k /\ (m - 1) + 1 = m
    BY <1>1 DEF n
  <2>2. w[m - 1] = q[m]
    BY <1>1, <2>1
  <2>3. QED
    BY <2>1, <2>2 DEF ChanIds
<1>4. ChanIds(w, 0, k) \subseteq ChanIds(q, 1, k + 1)
  BY <1>2 DEF ChanIds
<1>5. ChanIds(q, 1, k + 1) \subseteq ChanIds(w, 0, k)
  BY <1>3 DEF ChanIds
<1>6. QED
  BY <1>4, <1>5 DEF w

\* TP with the first row logged, and the rows behind it.
LEMMA TpGoodTail ==
    ASSUME NEW T, NEW q \in Seq(T), q # <<>>, NEW t, NEW G, TpGood(t, q, 1, G)
    PROVE  TpGood(t, Tail(q), 0, G)
<1> DEFINE w == Tail(q)
           n == Len(q)
           L == LoggedIds(t.logged)
<1>1. n \in Nat /\ Len(w) = n - 1 /\ \A i \in 1 .. n - 1 : w[i] = q[i + 1]
  BY TailSeq
<1>2. ASSUME NEW k \in 0 + 1 .. Len(w)
      PROVE  Fits(w[k], L \cup ChanIds(w, 0, k - 1), t.gaps)
  <2>1. k \in 1 .. n - 1 /\ k - 1 \in 0 .. n - 1 /\ (k - 1) + 1 = k /\ k + 1 \in 1 + 1 .. n
        /\ (k + 1) - 1 = k
    <3> HIDE DEF n, w
    <3>1. QED
      BY <1>1
  <2>2. w[k] = q[k + 1]
    BY <1>1, <2>1
  <2>3. ChanIds(w, 0, k - 1) = ChanIds(q, 1, k)
    BY <2>1, ChanTail
  <2>4. Fits(q[k + 1], L \cup ChanIds(q, 1, k), t.gaps)
    BY <2>1 DEF TpGood
  <2> HIDE DEF w
  <2>5. QED
    BY <2>2, <2>3, <2>4
<1>3. QED
  BY <1>2 DEF TpGood

\* One row is logged.
LEMMA LogOne ==
    ASSUME NEW s \in 0 .. MaxTrades, TpTyped(TpNow, s), NEW c \in RowType(s)
    PROVE  LogRows(<<c>>) = LogRow(TpNow, c)
<1> DEFINE q == <<c>>
<1>1. q \in Seq(RowType(s)) /\ Len(q) = 1 /\ q[1] = c
  <2> DEFINE T == RowType(s)
  <2>1. c \in T
    OBVIOUS
  <2> HIDE DEF T
  <2>2. QED
    BY <2>1 DEF T
<1> HIDE DEF q
<1>2. PICK r : LogRun(r, TpNow, q) /\ LogRows(q) = r[Len(q)]
  BY <1>1, LogRowsRun
<1>3. r[0] = TpNow /\ \A k \in 1 .. 1 : r[k] = LogRow(r[k - 1], q[k])
  BY <1>1, <1>2 DEF LogRun
<1>4. r[1] = LogRow(r[0], q[1])
  <2>1. 1 \in 1 .. 1 /\ 1 - 1 = 0
    OBVIOUS
  <2>2. QED
    BY <1>3, <2>1
<1>5. QED
  BY <1>1, <1>2, <1>3, <1>4 DEF q

-----------------------------------------------------------------------------
(* Progress: one lemma per action *)

\* TP logs the first row of the channel.
LEMMA TpLogsProgress ==
    ASSUME ProgressInv, TpLogs
    PROVE  ProgressInv'
<1> DEFINE c == chan[1]
           t == LogRow(TpNow, c)
<1>1. /\ TypedInv /\ TpGood(TpNow, chan, 0, AllGaps) /\ EventsGood(events, Delivered, AllGaps)
      /\ ListGood(todo, Delivered, AllGaps) /\ JobsGood(jobs, OnTheWay, AllGaps)
      /\ TrackerGood(last, OnTheWay, AllGaps)
  BY DEF ProgressInv
<1>2. sent \in 0 .. MaxTrades /\ chan \in Seq(RowType(sent)) /\ TpTyped(TpNow, sent)
  BY <1>1 DEF TypedInv
<1>3. chan # <<>> /\ chan' = Tail(chan)
  BY DEF TpLogs
<1>4. c \in RowType(sent) /\ Head(chan) = c /\ Len(chan) >= 1
  BY <1>2, <1>3, TailSeq
<1>5. logged' = t.logged /\ gaps' = t.gaps
  <2>1. logged' = LogRows(<<Head(chan)>>).logged /\ gaps' = LogRows(<<Head(chan)>>).gaps
    BY DEF TpLogs
  <2>2. QED
    BY <1>2, <1>4, <2>1, LogOne
<1>6. UNCHANGED <<last, jobs, events, todo>>
  BY DEF TpLogs, handler
<1>7. TypedInv'
  BY <1>1, TpLogsTyped
<1>8. LoggedIds(logged') = LoggedIds(logged) \cup {c.id}
  <2>1. c \in RowType(MaxTrades) /\ TpNow \in TpType /\ TpNow.logged = logged
    BY <1>2, <1>4, TypesGrow, TradeConstants DEF TpTyped, TpNow
  <2>2. QED
    BY <1>5, <2>1, LogRowEffect
<1>9. Delivered' = Delivered
  <2> DEFINE n == Len(chan)
  <2>1. n \in Nat /\ n >= 1 /\ Len(chan') = n - 1 /\ n - 1 \in 0 .. n - 1 /\ (n - 1) + 1 = n
    BY <1>2, <1>3, <1>4, TailSeq
  <2>2. ChanIds(chan', 0, n - 1) = ChanIds(chan, 1, n)
    BY <1>2, <1>3, <2>1, ChanTail
  <2>3. ChanIds(chan, 0, n) = {c.id} \cup ChanIds(chan, 1, n)
    <3> HIDE DEF n
    <3>1. QED
      BY <2>1 DEF ChanIds
  <2>4. QED
    BY <1>8, <2>1, <2>2, <2>3 DEF Delivered
<1>10. OnTheWay' = OnTheWay
  BY <1>6, <1>9 DEF OnTheWay
<1>11. SpansIn(AllGaps', AllGaps)
  <2>1. SpansIn(gaps', gaps)
    <3>1. TpNow.gaps = gaps
      BY DEF TpNow
    <3>2. QED
      BY <1>2, <1>4, <1>5, <3>1, LogRowSpans
  <2>2. SpansIn(gaps', AllGaps) /\ SpansIn(Range(jobs'), AllGaps)
    BY <1>6, <2>1, AllGapsAre DEF SpansIn
  <2>3. Range(events') \subseteq AllGaps /\ EventsOf(todo') \subseteq AllGaps
    BY <1>6, AllGapsAre
  <2>4. QED
    BY <2>2, <2>3, SpansKept
<1>12. TpGood(TpNow', chan', 0, AllGaps)
  <2>1. TpNow' = t
    <3>1. t \in TpType
      BY <1>2, <1>4, LogRowKeepsTyped DEF TpTyped
    <3>2. QED
      BY <1>5, <3>1 DEF TpNow, TpType
  <2> HIDE DEF t
  <2>2. 0 + 1 <= Len(chan) /\ chan[0 + 1] = c
    BY <1>4
  <2>3. TpGood(t, chan, 1, AllGaps)
    <3> HIDE DEF c
    <3>1. TpGood(LogRow(TpNow, chan[0 + 1]), chan, 0 + 1, AllGaps)
      BY <1>1, <1>2, <2>2, LogRowGood
    <3>2. 0 + 1 = 1
      OBVIOUS
    <3>3. QED
      BY <2>2, <3>1, <3>2 DEF t
  <2>4. QED
    BY <1>2, <1>3, <2>1, <2>3, TpGoodTail
<1>13. QED
  BY <1>1, <1>6, <1>7, <1>9, <1>10, <1>11, <1>12, ProgressKept

\* A step that touches neither rows nor gaps.
LEMMA ProgressSame ==
    ASSUME ProgressInv, TypedInv', UNCHANGED <<last, jobs, events, todo, chan, logged, gaps>>
    PROVE  ProgressInv'
<1>1. Delivered' = Delivered /\ OnTheWay' = OnTheWay /\ AllGaps' = AllGaps /\ TpNow' = TpNow
  BY DEF Delivered, OnTheWay, AllGaps, Held, TpNow
<1>2. QED
  BY <1>1 DEF ProgressInv

\* Nothing is in an empty list.
LEMMA EmptyLists ==
    /\ AllRowIds(<<>>) = {} /\ EventsOf(<<>>) = {} /\ Range(<<>>) = {} /\ ChanIds(<<>>, 0, 0) = {}
    /\ \A D, G : EventsGood(<<>>, D, G) /\ ListGood(<<>>, D, G) /\ JobsGood(<<>>, D, G)
BY DEF AllRowIds, RowIds, EventsOf, Range, ChanIds, EventsGood, ListGood, JobsGood

\* Only the log is left when no handler runs.
LEMMA OnlyTheLog ==
    ASSUME Nothing
    PROVE  Delivered = LoggedIds(logged) /\ OnTheWay = LoggedIds(logged) /\ AllGaps = gaps
<1>1. ChanIds(chan, 0, Len(chan)) = {}
  BY EmptyLists DEF Nothing
<1>2. QED
  BY <1>1, EmptyLists, AllGapsAre DEF Delivered, OnTheWay, Nothing

\* The tracker is seeded with TP's last id.
LEMMA SeedGood ==
    ASSUME NEW s \in Nat, NEW lg, LoggedIds(lg) \subseteq 1 .. s, NEW G, G \subseteq GapType(s),
           \A g \in G : Sound(g, LoggedIds(lg), G)
    PROVE  TrackerGood(Max(LoggedIds(lg) \cup {0}), LoggedIds(lg), G)
<1> DEFINE L == LoggedIds(lg)
           m == Max(L \cup {0})
<1>1. m \in 0 .. s /\ (m # 0 => m \in L) /\ \A i \in L : i <= m
  BY LastIdIs
<1>2. L \subseteq 1 .. s /\ \A g \in G : Sound(g, L, G)
  OBVIOUS
<1> HIDE DEF m, L
<1>3. ASSUME m > 0
      PROVE  /\ \E j \in L : j >= m
             /\ \A j \in L : j > m => m + 1 .. j \subseteq L
  BY <1>1, <1>2, <1>3
<1>4. ASSUME m > 0, NEW g \in G
      PROVE  g.first <= m + 1 /\ (m <= g.last => g.first .. m \subseteq L)
  <2>1. g.first \in Nat /\ g.last \in Nat
    BY GapFields
  <2>2. PICK j \in L : j >= g.first - 1
    BY <1>2 DEF Sound
  <2>3. g.first <= m + 1
    BY <1>1, <1>2, <2>1, <2>2
  <2>4. ASSUME m <= g.last, g.first <= m
        PROVE  g.first .. m \subseteq L
    <3>1. m \in L /\ Covers(g, m)
      BY <1>1, <1>4, <2>4 DEF Covers
    <3>2. ~ \E i \in L : i > g.last
      BY <1>1, <1>2, <2>1, <2>4
    <3>3. QED
      BY <1>2, <3>1, <3>2 DEF Sound
  <2>5. g.first > m => g.first .. m = {}
    BY <1>1, <2>1
  <2>6. QED
    BY <1>1, <2>1, <2>3, <2>4, <2>5
<1>5. QED
  BY <1>3, <1>4 DEF TrackerGood, m, L

\* A handler starts with TP's last id and its open gaps.
LEMMA StartProgress ==
    ASSUME ProgressInv, Start
    PROVE  ProgressInv'
<1> DEFINE L == LoggedIds(logged)
           S == {Job(g) : g \in OpenGaps}
<1>1. TypedInv /\ TpGood(TpNow, chan, 0, AllGaps)
  BY DEF ProgressInv
<1>2. /\ Nothing /\ TpTyped(TpNow, sent) /\ sent \in Nat /\ last' = LastId /\ jobs' \in ByFirstId(S)
      /\ UNCHANGED <<events, todo, chan, logged, gaps>>
  BY <1>1 DEF Start, TypedInv, tp
<1>3. TypedInv'
  BY <1>1, StartTyped
<1>4. Delivered = L /\ OnTheWay = L /\ AllGaps = gaps
  BY <1>2, OnlyTheLog
<1>5. Delivered' = Delivered /\ OnTheWay' = OnTheWay /\ TpNow' = TpNow
  BY <1>2 DEF Delivered, OnTheWay, TpNow
<1>6. \A g \in gaps : Good(g, L, gaps)
  BY <1>1, <1>4 DEF TpGood, TpNow
<1>7. L \subseteq 1 .. sent /\ gaps \subseteq GapType(sent)
  BY <1>2 DEF TpTyped, TpNow
<1>8. Range(jobs') \subseteq S /\ \A k \in 1 .. Len(jobs') : jobs'[k] \in S
  <2>1. jobs' \in [1 .. Cardinality(S) -> S] /\ DOMAIN jobs' = 1 .. Len(jobs')
    <3>1. jobs' \in [1 .. Cardinality(S) -> S]
      BY <1>2 DEF ByFirstId
    <3>2. jobs' \in Seq(JobType(sent'))
      BY <1>3 DEF TypedInv
    <3>3. DOMAIN jobs' = 1 .. Len(jobs')
      BY <3>2
    <3>4. QED
      BY <3>1, <3>3
  <2> HIDE DEF S
  <2>2. QED
    BY <2>1 DEF Range
<1>9. ASSUME NEW j \in S
      PROVE  Sound(j, L, gaps) /\ \E g \in gaps : j.first = g.first /\ j.last = g.last
  <2>1. PICK g \in gaps : j = Job(g)
    BY DEF OpenGaps
  <2>2. j.first = g.first /\ j.last = g.last /\ j.through = g.through
    BY <2>1 DEF Job
  <2>3. Sound(g, L, gaps)
    BY <1>6 DEF Good
  <2> HIDE DEF L
  <2>4. QED
    BY <2>2, <2>3 DEF Sound, Covers
<1> HIDE DEF L, S
<1>10. SpansIn(AllGaps', AllGaps)
  <2>1. SpansIn(gaps', AllGaps) /\ SpansIn(Range(jobs'), AllGaps)
    BY <1>2, <1>4, <1>8, <1>9 DEF SpansIn
  <2>2. Range(events') \subseteq AllGaps /\ EventsOf(todo') \subseteq AllGaps
    BY <1>2, AllGapsAre
  <2>3. QED
    BY <2>1, <2>2, SpansKept
<1>11. JobsGood(jobs', OnTheWay, AllGaps)
  BY <1>4, <1>8, <1>9 DEF JobsGood
<1>12. TrackerGood(last', OnTheWay, AllGaps)
  <2>1. \A g \in gaps : Sound(g, L, gaps)
    BY <1>6 DEF Good
  <2>2. QED
    BY <1>2, <1>4, <1>7, <2>1, SeedGood DEF LastId, L
<1>13. QED
  BY <1>2, <1>3, <1>5, <1>10, <1>11, <1>12, ProgressKept DEF ProgressInv

\* A handler starts without a trade state.
LEMMA StartBlindProgress ==
    ASSUME ProgressInv, StartBlind
    PROVE  ProgressInv'
<1>1. TypedInv' /\ UNCHANGED <<last, jobs, events, todo, chan, logged, gaps>>
  BY StartBlindTyped DEF StartBlind, handler, tp, ProgressInv
<1>2. QED
  BY <1>1, ProgressSame

\* A handler ends, and TP logs what had reached it.
LEMMA KilledProgress ==
    ASSUME ProgressInv, Killed
    PROVE  ProgressInv'
<1>1. PICK n \in 0 .. Len(chan) : /\ logged' = LogRows(SubSeq(chan, 1, n)).logged
                                  /\ gaps' = LogRows(SubSeq(chan, 1, n)).gaps
  BY DEF Killed
<1> DEFINE q == SubSeq(chan, 1, n)
           t == LogRows(q)
<1>2. TypedInv' /\ chan' = <<>> /\ last' = 0 /\ jobs' = <<>> /\ events' = <<>> /\ todo' = <<>>
  BY KilledTyped DEF Killed, ProgressInv
<1>3. q \in Seq(RowType(sent)) /\ sent \in 0 .. MaxTrades /\ TpTyped(TpNow, sent)
  BY PrefixSeq DEF ProgressInv, TypedInv
<1>4. TpGood(TpNow, q, 0, AllGaps)
  BY PrefixGood DEF ProgressInv, TypedInv
<1>5. LogsGood(t, LoggedIds(logged) \cup ChanIds(q, 0, Len(q)), AllGaps)
  BY <1>3, <1>4, LogRowsGood
<1> HIDE DEF t, q
<1>6. \A g \in gaps' : Good(g, LoggedIds(logged'), AllGaps)
  BY <1>1, <1>5 DEF LogsGood, t, q
<1>7. AllGaps' = gaps'
  BY <1>2, EmptyLists DEF AllGaps, Held, EventsOf
<1>8. SpansIn(AllGaps', AllGaps)
  BY <1>1, <1>5, <1>7, AllGapsAre DEF LogsGood, SpansIn, t, q
<1>9. TpGood(TpNow', chan', 0, AllGaps)
  BY <1>2, <1>6 DEF TpGood, TpNow
<1>10. TpGood(TpNow', chan', 0, AllGaps')
  <2> DEFINE G == AllGaps
             H == AllGaps'
  <2>1. SpansIn(H, G) /\ TpGood(TpNow', chan', 0, G)
    BY <1>8, <1>9
  <2> HIDE DEF G, H
  <2>2. TpGood(TpNow', chan', 0, H)
    BY <2>1, TpGoodFewer
  <2>3. QED
    BY <2>2 DEF H
<1>11. TrackerGood(last', OnTheWay', AllGaps')
  BY <1>2 DEF TrackerGood
<1>12. QED
  BY <1>2, <1>10, <1>11, EmptyLists DEF ProgressInv

\* The gaps after message i: those there were, and the one that i shows behind m.
Widened(H, G, m, i) ==
    \A h \in H : \/ \E g \in G : h.first = g.first /\ h.last = g.last
                 \/ m > 0 /\ i > m + 1 /\ h.first = m + 1 /\ h.last = i - 1

NatSpans(G) == \A g \in G : g.first \in Nat \ {0} /\ g.last \in Nat /\ g.first <= g.last

\* Message i is the next trade, beyond all there is, or one of those up to m.
Arrives(i, m, D, G) ==
    \/ 1 <= i /\ i <= m
    \/ i > m /\ (\A j \in D : j < i) /\ (\A g \in G : g.last < i)

\* A gap that begins at most behind m is sound beside the new one.
LEMMA OldSound ==
    ASSUME NEW m \in Nat, NEW i \in Nat, NEW D, NEW G, NEW H, Widened(H, G, m, i),
           NEW g, g.first \in Nat, m > 0 => g.first <= m + 1, Sound(g, D, G)
    PROVE  Sound(g, D, H)
<1>1. ASSUME NEW h \in H, h.first < g.first, g.first <= h.last
      PROVE  h.first .. (g.first - 1) \subseteq D
  <2>1. CASE \E x \in G : h.first = x.first /\ h.last = x.last
    <3>1. PICK x \in G : h.first = x.first /\ h.last = x.last
      BY <2>1
    <3>2. x.first .. (g.first - 1) \subseteq D
      BY <1>1, <3>1 DEF Sound
    <3>3. QED
      BY <3>1, <3>2
  <2>2. CASE m > 0 /\ h.first = m + 1
    BY <1>1, <2>2
  <2>3. QED
    BY <2>1, <2>2 DEF Widened
<1>2. QED
  BY <1>1 DEF Sound

\* The new gap is sound.
LEMMA NewSound ==
    ASSUME NEW m \in Nat, m > 0, NEW i \in Nat, NEW D, D \subseteq Nat, NEW G, NEW H,
           Widened(H, G, m, i), TrackerGood(m, D, G),
           NEW g, g.first = m + 1, g.last = i - 1, g.through = 0, NatSpans(H)
    PROVE  Sound(g, D, H)
<1>1. \E j \in D : j >= g.first - 1
  BY DEF TrackerGood
<1>2. ASSUME NEW j \in D, Covers(g, j)
      PROVE  g.first .. j \subseteq D
  BY <1>2 DEF TrackerGood, Covers
<1>3. ASSUME NEW h \in H, h.first < g.first, g.first <= h.last
      PROVE  h.first .. (g.first - 1) \subseteq D
  <2>1. CASE \E x \in G : h.first = x.first /\ h.last = x.last
    <3>1. PICK x \in G : h.first = x.first /\ h.last = x.last
      BY <2>1
    <3>2. m <= x.last
      BY <1>3, <3>1 DEF NatSpans
    <3>3. x.first .. m \subseteq D
      BY <3>2 DEF TrackerGood
    <3>4. g.first - 1 = m
      OBVIOUS
    <3>5. QED
      BY <3>1, <3>3, <3>4
  <2>2. CASE h.first = m + 1
    BY <1>3, <2>2
  <2>3. QED
    BY <2>1, <2>2 DEF Widened
<1>4. QED
  BY <1>1, <1>2, <1>3 DEF Sound

\* The live row fits.
LEMMA LiveFits ==
    ASSUME NEW m \in Nat, NEW i \in Nat, NEW D, NEW G, NEW H, D \subseteq Nat, NatSpans(G),
           Widened(H, G, m, i), TrackerGood(m, D, G), Arrives(i, m, D, G)
    PROVE  Fits(Row(i, FALSE), D, H)
<1> DEFINE c == Row(i, FALSE)
<1>1. c.id = i /\ c.back = FALSE
  BY DEF Row
<1> HIDE DEF c
<1>2. ASSUME NEW h \in H, Covers(h, i)
      PROVE  h.first .. (i - 1) \subseteq D \/ \E j \in D : j > h.last
  <2>1. CASE \E x \in G : h.first = x.first /\ h.last = x.last
    <3>1. PICK x \in G : h.first = x.first /\ h.last = x.last
      BY <2>1
    <3>2. 1 <= i /\ i <= m
      BY <1>2, <3>1 DEF Arrives, Covers, NatSpans
    <3>3. CASE m <= x.last
      <4>1. x.first .. m \subseteq D /\ x.first \in Nat
        BY <3>2, <3>3 DEF TrackerGood, NatSpans
      <4>2. QED
        BY <3>1, <3>2, <4>1
    <3>4. CASE m > x.last
      <4>1. PICK j \in D : j >= m
        BY <3>2 DEF TrackerGood
      <4>2. j > x.last
        BY <3>4, <4>1 DEF NatSpans
      <4>3. QED
        BY <3>1, <4>2
    <3>5. QED
      BY <3>3, <3>4 DEF NatSpans
  <2>2. CASE h.last = i - 1
    BY <1>2, <2>2 DEF Covers
  <2>3. QED
    BY <2>1, <2>2 DEF Widened
<1>3. QED
  BY <1>1, <1>2 DEF Fits, c

\* The tracker after the message.
LEMMA NextTracker ==
    ASSUME NEW m \in Nat, NEW i \in Nat, NEW n, n = IF m >= i THEN m ELSE i,
           NEW D, NEW G, NEW H, D \subseteq Nat, NatSpans(G),
           Widened(H, G, m, i), TrackerGood(m, D, G), Arrives(i, m, D, G)
    PROVE  TrackerGood(n, D \cup {i}, H)
<1>1. CASE 1 <= i /\ i <= m
  <2>1. n = m /\ m > 0 /\ ~ (i > m + 1)
    BY <1>1
  <2>2. \E j \in D \cup {i} : j >= m
    BY <2>1 DEF TrackerGood
  <2>3. ASSUME NEW j \in D \cup {i}, j > m
        PROVE  m + 1 .. j \subseteq D \cup {i}
    <3>1. j \in D
      BY <1>1, <2>3
    <3>2. m + 1 .. j \subseteq D
      BY <2>1, <2>3, <3>1 DEF TrackerGood
    <3>3. QED
      BY <3>2
  <2>4. ASSUME NEW h \in H
        PROVE  h.first <= m + 1 /\ (m <= h.last => h.first .. m \subseteq D \cup {i})
    <3>1. PICK g \in G : h.first = g.first /\ h.last = g.last
      BY <2>1 DEF Widened
    <3>2. g.first <= m + 1 /\ (m <= g.last => g.first .. m \subseteq D)
      BY <2>1 DEF TrackerGood
    <3>3. QED
      BY <3>1, <3>2
  <2>5. QED
    BY <2>1, <2>2, <2>3, <2>4 DEF TrackerGood
<1>2. CASE i > m /\ (\A j \in D : j < i) /\ (\A g \in G : g.last < i)
  <2>1. n = i
    BY <1>2
  <2>2. \E j \in D \cup {i} : j >= i
    OBVIOUS
  <2>3. \A j \in D \cup {i} : ~ (j > i)
    BY <1>2
  <2>4. ASSUME NEW h \in H
        PROVE  h.first <= i + 1 /\ h.last < i
    <3>1. CASE \E g \in G : h.first = g.first /\ h.last = g.last
      <4>1. PICK g \in G : h.first = g.first /\ h.last = g.last
        BY <3>1
      <4>2. g.last < i /\ g.first \in Nat /\ g.last \in Nat /\ g.first <= g.last
        BY <1>2 DEF NatSpans
      <4>3. QED
        BY <4>1, <4>2
    <3>2. CASE i > m + 1 /\ h.first = m + 1 /\ h.last = i - 1
      BY <3>2
    <3>3. QED
      BY <3>1, <3>2 DEF Widened
  <2>5. \A h \in H : h.last \in Nat
    <3>1. ASSUME NEW h \in H
          PROVE  h.last \in Nat
      BY DEF Widened, NatSpans
    <3>2. QED
      BY <3>1
  <2>6. QED
    BY <2>1, <2>2, <2>3, <2>4, <2>5 DEF TrackerGood
<1>3. QED
  BY <1>1, <1>2 DEF Arrives

\* The commands of a message.
LEMMA MessageRows ==
    ASSUME NEW a, a.do = "event", NEW i \in Nat, i >= 1
    PROVE  LET b == Row(i, FALSE)
               v == <<a, b, Flush, Pump>>
               w == <<b, Flush, Pump>>
           IN  /\ AllRowIds(v) = {i} /\ AllRowIds(w) = {i}
               /\ EventsOf(v) = {a.event} /\ EventsOf(w) = {}
               /\ \A D, G : CommandGood(a, D, G) /\ Fits(b, D, G) =>
                                ListGood(v, D, G) /\ ListGood(w, D, G)
               /\ \A D, G : Fits(b, D, G) => ListGood(w, D, G)
<1> DEFINE b == Row(i, FALSE)
           v == <<a, b, Flush, Pump>>
           w == <<b, Flush, Pump>>
<1>1. /\ Len(v) = 4 /\ v[1] = a /\ v[2] = b /\ v[3] = Flush /\ v[4] = Pump
      /\ DOMAIN v = 1 .. 4 /\ DOMAIN w = 1 .. 3
      /\ Len(w) = 3 /\ w[1] = b /\ w[2] = Flush /\ w[3] = Pump
  OBVIOUS
<1>2. b.do = "row" /\ b.id = i /\ Flush.do = "flush" /\ Pump.do = "pump"
  BY DEF Row, Flush, Pump
<1> HIDE DEF v, w, b
<1>3. AllRowIds(v) = {i} /\ AllRowIds(w) = {i}
  <2>1. {n \in 1 .. 5 - 1 : v[n].do = "row" /\ v[n].id > 0} = {2}
    BY <1>1, <1>2
  <2>2. {n \in 1 .. 4 - 1 : w[n].do = "row" /\ w[n].id > 0} = {1}
    BY <1>1, <1>2
  <2>3. QED
    BY <1>1, <1>2, <2>1, <2>2 DEF AllRowIds, RowIds
<1>4. EventsOf(v) = {a.event} /\ EventsOf(w) = {}
  <2>1. Range(v) = {a, b, Flush, Pump} /\ Range(w) = {b, Flush, Pump}
    BY <1>1 DEF Range
  <2>2. {d \in Range(v) : d.do = "event"} = {a} /\ {d \in Range(w) : d.do = "event"} = {}
    BY <1>2, <2>1
  <2>3. QED
    BY <2>2 DEF EventsOf
<1>5. ASSUME NEW D, NEW G, Fits(b, D, G)
      PROVE  /\ ListGood(w, D, G)
             /\ CommandGood(a, D, G) => ListGood(v, D, G)
  <2>1. RowIds(w, 1) = {} /\ RowIds(v, 1) = {} /\ RowIds(v, 2) = {}
    BY <1>1, <1>2, FirstRowId
  <2>2. CommandGood(b, D, G) /\ \A L : CommandGood(Flush, L, G) /\ CommandGood(Pump, L, G)
    BY <1>2, <1>5 DEF CommandGood
  <2>3. ListGood(w, D, G)
    <3>1. ASSUME NEW k \in 1 .. 3
          PROVE  CommandGood(w[k], D \cup RowIds(w, k), G)
      <4>1. CASE k = 1
        BY <1>1, <2>1, <2>2, <4>1
      <4>2. CASE k # 1
        BY <1>1, <2>2, <4>2
      <4>3. QED
        BY <4>1, <4>2
    <3>2. QED
      BY <1>1, <3>1 DEF ListGood
  <2>4. ASSUME CommandGood(a, D, G)
        PROVE  ListGood(v, D, G)
    <3>1. ASSUME NEW k \in 1 .. 4
          PROVE  CommandGood(v[k], D \cup RowIds(v, k), G)
      <4>1. CASE k = 1
        BY <1>1, <2>1, <2>4, <4>1
      <4>2. CASE k = 2
        BY <1>1, <2>1, <2>2, <4>2
      <4>3. CASE k # 1 /\ k # 2
        BY <1>1, <2>2, <4>3
      <4>4. QED
        BY <4>1, <4>2, <4>3
    <3>2. QED
      BY <1>1, <3>1 DEF ListGood
  <2>5. QED
    BY <2>3, <2>4
<1>6. QED
  BY <1>3, <1>4, <1>5 DEF v, w, b

\* The gaps there are, as bounds.
LEMMA AllGapsNat ==
    ASSUME TypedInv
    PROVE  /\ NatSpans(AllGaps) /\ \A g \in AllGaps : g.last <= sent
           /\ OnTheWay \subseteq 1 .. sent
<1>1. /\ sent \in Nat /\ gaps \subseteq GapType(sent) /\ events \in Seq(GapType(sent))
      /\ todo \in Seq(CommandType(sent)) /\ jobs \in Seq(JobType(sent))
      /\ chan \in Seq(RowType(sent)) /\ LoggedIds(logged) \subseteq 1 .. sent
  BY DEF TypedInv, TpTyped, TpNow
<1>2. Range(events) \subseteq GapType(sent) /\ Range(jobs) \subseteq JobType(sent)
  BY <1>1 DEF Range
<1>3. EventsOf(todo) \subseteq GapType(sent)
  <2>1. Range(todo) \subseteq CommandType(sent)
    BY <1>1 DEF Range
  <2>2. \A c \in CommandType(sent) : c.do = "event" => c.event \in GapType(sent)
    BY DEF CommandType, Flush, Pump
  <2>3. QED
    BY <2>1, <2>2 DEF EventsOf
<1>4. ASSUME NEW g \in AllGaps
      PROVE  g.first \in Nat \ {0} /\ g.last \in Nat /\ g.first <= g.last /\ g.last <= sent
  <2>1. g \in GapType(sent) \/ g \in JobType(sent)
    BY <1>1, <1>2, <1>3, AllGapsAre
  <2>2. QED
    BY <1>1, <2>1, GapFields, JobFields
<1>5. ChanIds(chan, 0, Len(chan)) \subseteq 1 .. sent
  <2>1. ASSUME NEW k \in 0 + 1 .. Len(chan)
        PROVE  chan[k].id \in 1 .. sent
    <3>1. k \in 1 .. Len(chan)
      OBVIOUS
    <3>2. chan[k] \in RowType(sent)
      BY <1>1, <3>1, ElementSeq
    <3>3. QED
      BY <3>2 DEF RowType
  <2>2. QED
    BY <2>1 DEF ChanIds
<1>6. AllRowIds(todo) \subseteq 1 .. sent
  <2>1. ASSUME NEW k \in 1 .. Len(todo), todo[k].do = "row", todo[k].id > 0
        PROVE  todo[k].id \in 1 .. sent
    <3>1. todo[k] \in CommandType(sent)
      BY <1>1, ElementSeq
    <3>2. QED
      BY <1>1, <2>1, <3>1 DEF CommandType, Flush, Pump
  <2>2. (Len(todo) + 1) - 1 = Len(todo)
    BY <1>1
  <2>3. QED
    BY <2>1, <2>2 DEF AllRowIds, RowIds
<1>7. QED
  BY <1>1, <1>4, <1>5, <1>6 DEF NatSpans, OnTheWay, Delivered

\* A gap and the event of it.
LEMMA SoundEvent ==
    ASSUME NEW L, NEW G, NEW g, NEW h, h.first = g.first, h.last = g.last, h.through = g.through,
           Sound(g, L, G)
    PROVE  Sound(h, L, G)
BY DEF Sound, Covers

\* What a message leaves to do and to backfill.
LEMMA MessageLeaves ==
    ASSUME TypedInv, todo = <<>>, NEW i \in Nat, i >= 1, ValidateTradeId(i),
           UNCHANGED <<events, gaps>>
    PROVE  LET G == AllGaps
               H == AllGaps'
           IN  /\ Widened(H, G, last, i)
               /\ AllRowIds(todo') = {i}
               /\ \A k \in 1 .. Len(jobs') :
                    \/ k \in 1 .. Len(jobs) /\ jobs'[k] = jobs[k]
                    \/ /\ last > 0 /\ jobs'[k].first = last + 1 /\ jobs'[k].last = i - 1
                       /\ jobs'[k].through = 0
               /\ \A D : /\ Fits(Row(i, FALSE), D, H)
                         /\ \A e : /\ last > 0 /\ e.first = last + 1 /\ e.last = i - 1
                                   /\ e.through = 0
                                   => Sound(e, D, H)
                         => ListGood(todo', D, H)
<1> DEFINE gap == [first |-> last + 1, last |-> i - 1, through |-> 0]
           ev == GapEvent(gap, "detected")
           a == Record(ev)
           j == Job(gap)
           G == AllGaps
           H == AllGaps'
<1>1. /\ jobs' = IF IsGap(i) THEN Append(jobs, j) ELSE jobs
      /\ todo' = IF IsGap(i) THEN <<a, Row(i, FALSE), Flush, Pump>> ELSE <<Row(i, FALSE), Flush, Pump>>
  BY DEF ValidateTradeId
<1>2. /\ ev.first = last + 1 /\ ev.last = i - 1 /\ ev.through = 0 /\ ev.status = "detected"
      /\ a.do = "event" /\ a.event = ev
      /\ j.first = last + 1 /\ j.last = i - 1 /\ j.through = 0
  BY DEF GapEvent, Record, Job
<1> HIDE DEF ev, a, j, gap
<1>3. H = gaps \cup Range(events) \cup EventsOf(todo') \cup Range(jobs')
  BY DEF AllGaps, Held, EventsOf
<1>4. G = gaps \cup Range(events) \cup Range(jobs)
  BY AllGapsAre, EmptyLists
<1>5. jobs \in Seq(JobType(sent)) /\ last \in Nat
  BY TradeConstants DEF TypedInv
<1> HIDE DEF G, H
<1>6. CASE IsGap(i)
  <2>1. last > 0 /\ i > last + 1
    BY <1>6 DEF IsGap
  <2>2. /\ AllRowIds(todo') = {i} /\ EventsOf(todo') = {ev}
        /\ \A D, K : CommandGood(a, D, K) /\ Fits(Row(i, FALSE), D, K) => ListGood(todo', D, K)
    BY <1>1, <1>2, <1>6, MessageRows
  <2>3. /\ Len(jobs') = Len(jobs) + 1 /\ DOMAIN jobs' = 1 .. Len(jobs) + 1 /\ Len(jobs) \in Nat
        /\ \A k \in 1 .. Len(jobs) : jobs'[k] = jobs[k]
        /\ jobs'[Len(jobs) + 1] = j
    <3> DEFINE T == JobType(sent) \cup {j}
    <3>1. jobs \in Seq(T) /\ j \in T
      <4>1. Seq(JobType(sent)) \subseteq Seq(T)
        BY SeqGrows
      <4>2. QED
        BY <1>5, <4>1
    <3> HIDE DEF T
    <3>2. QED
      BY <1>1, <1>6, <3>1
  <2>4. Range(jobs') = Range(jobs) \cup {j}
    <3>1. DOMAIN jobs = 1 .. Len(jobs)
      BY <1>5
    <3>2. QED
      BY <2>3, <3>1 DEF Range
  <2>5. Widened(H, G, last, i)
    BY <1>2, <1>3, <1>4, <2>1, <2>2, <2>4 DEF Widened
  <2>6. ASSUME NEW D, Fits(Row(i, FALSE), D, H), Sound(ev, D, H)
        PROVE  ListGood(todo', D, H)
    <3>1. CommandGood(a, D, H)
      BY <1>2, <2>6 DEF CommandGood, Good
    <3>2. QED
      BY <2>2, <2>6, <3>1
  <2>7. \A k \in 1 .. Len(jobs') :
            \/ k \in 1 .. Len(jobs) /\ jobs'[k] = jobs[k]
            \/ jobs'[k] = j
    BY <2>3
  <2>8. QED
    BY <1>2, <2>1, <2>2, <2>5, <2>6, <2>7 DEF G, H
<1>7. CASE ~ IsGap(i)
  <2>1. a.do = "event"
    BY <1>2
  <2>2. /\ AllRowIds(todo') = {i} /\ EventsOf(todo') = {}
        /\ \A D, K : Fits(Row(i, FALSE), D, K) => ListGood(todo', D, K)
    BY <1>1, <1>7, <2>1, MessageRows
  <2>3. jobs' = jobs
    BY <1>1, <1>7
  <2>4. Widened(H, G, last, i)
    BY <1>3, <1>4, <2>2, <2>3 DEF Widened
  <2>5. QED
    BY <2>2, <2>3, <2>4 DEF G, H
<1>8. QED
  BY <1>6, <1>7

\* A message was handled.
LEMMA HandledProgress ==
    ASSUME ProgressInv, TypedInv', todo = <<>>, NEW i \in Nat, i >= 1, ValidateTradeId(i),
           UNCHANGED <<events, chan, logged, gaps>>, i \in 1 .. last \/ i = sent + 1
    PROVE  ProgressInv'
<1> DEFINE D == Delivered
           A == OnTheWay
           G == AllGaps
           H == AllGaps'
           c == Row(i, FALSE)
<1>1. /\ TypedInv /\ TpGood(TpNow, chan, 0, G) /\ EventsGood(events, D, G)
      /\ JobsGood(jobs, A, G) /\ TrackerGood(last, A, G)
  BY DEF ProgressInv
<1>2. /\ Widened(H, G, last, i) /\ AllRowIds(todo') = {i}
      /\ \A k \in 1 .. Len(jobs') :
            \/ k \in 1 .. Len(jobs) /\ jobs'[k] = jobs[k]
            \/ /\ last > 0 /\ jobs'[k].first = last + 1 /\ jobs'[k].last = i - 1
               /\ jobs'[k].through = 0
      /\ \A E : /\ Fits(c, E, H)
                /\ \A e : /\ last > 0 /\ e.first = last + 1 /\ e.last = i - 1 /\ e.through = 0
                          => Sound(e, E, H)
                => ListGood(todo', E, H)
  BY <1>1, MessageLeaves
<1>3. A = D /\ OnTheWay' = D \cup {i} /\ Delivered' = D /\ TpNow' = TpNow
  BY <1>2, EmptyLists DEF OnTheWay, Delivered, TpNow
<1>4. NatSpans(G) /\ (\A g \in G : g.last <= sent) /\ D \subseteq 1 .. sent
  BY <1>1, <1>3, AllGapsNat
<1>5. NatSpans(H)
  <2>1. (TypedInv => NatSpans(AllGaps))'
    BY AllGapsNat, PTL
  <2>2. QED
    BY <2>1
<1>6. last \in Nat /\ sent \in Nat /\ last <= sent /\ D \subseteq Nat
  BY <1>1, <1>4, TradeConstants DEF TypedInv
<1>7. gaps \subseteq G /\ Range(events) \subseteq G /\ Range(jobs) \subseteq G /\ gaps \subseteq H
  BY <1>3, AllGapsAre DEF AllGaps, TpNow
<1>8. last' = IF last >= i THEN last ELSE i
  <2>1. last' = Max({last, i})
    BY DEF ValidateTradeId
  <2>2. QED
    BY <1>6, <2>1, MaxOfTwo
<1>9. /\ jobs \in Seq(JobType(sent)) /\ events \in Seq(GapType(sent))
      /\ jobs' \in Seq(JobType(sent')) /\ sent' \in Nat
  BY <1>1, TradeConstants DEF TypedInv
<1>10. c.id = i
  BY DEF Row
<1> HIDE DEF D, A, G, H, c
<1>11. Arrives(i, last, D, G)
  BY <1>4, <1>6 DEF Arrives, NatSpans
<1>12. TrackerGood(last, D, G)
  BY <1>1, <1>3
<1>13. Fits(c, D, H)
  BY <1>2, <1>4, <1>6, <1>11, <1>12, LiveFits DEF c
<1>14. ASSUME NEW e, last > 0, e.first = last + 1, e.last = i - 1, e.through = 0
       PROVE  Sound(e, D, H)
  BY <1>2, <1>5, <1>6, <1>12, <1>14, NewSound
<1>15. ASSUME NEW g \in G, Sound(g, D, G)
       PROVE  Sound(g, D, H)
  <2>1. g.first \in Nat /\ (last > 0 => g.first <= last + 1)
    BY <1>4, <1>12 DEF NatSpans, TrackerGood
  <2>2. QED
    BY <1>2, <1>6, <1>15, <2>1, OldSound
<1>16. TpGood(TpNow', chan', 0, H)
  <2>1. TpNow.gaps = gaps /\ TpNow.logged = logged /\ LoggedIds(logged) \subseteq D
    BY DEF TpNow, D, Delivered
  <2>2. ASSUME NEW g \in gaps
        PROVE  Good(g, LoggedIds(logged), H)
    <3>1. Good(g, LoggedIds(logged), G)
      BY <1>1, <2>1 DEF TpGood
    <3>2. g.first \in Nat /\ (last > 0 => g.first <= last + 1)
      BY <1>4, <1>7, <1>12 DEF NatSpans, TrackerGood
    <3>3. Sound(g, LoggedIds(logged), H)
      BY <1>2, <1>6, <3>1, <3>2, OldSound DEF Good
    <3>4. QED
      BY <3>1, <3>3 DEF Good
  <2>3. QED
    BY <1>1, <1>3, <2>1, <2>2 DEF TpGood
<1>17. EventsGood(events', D, H)
  <2>1. ASSUME NEW k \in 1 .. Len(events)
        PROVE  Good(events[k], D, H)
    <3>1. Good(events[k], D, G)
      BY <1>1 DEF EventsGood
    <3>2. events[k] \in G
      BY <1>7, <1>9 DEF Range
    <3>3. QED
      BY <1>15, <3>1, <3>2 DEF Good
  <2>2. QED
    BY <2>1 DEF EventsGood
<1>18. ListGood(todo', D, H)
  BY <1>2, <1>13, <1>14
<1>19. JobsGood(jobs', D \cup {i}, H)
  <2>1. ASSUME NEW k \in 1 .. Len(jobs')
        PROVE  Sound(jobs'[k], D \cup {i}, H)
    <3>1. Sound(jobs'[k], D, H)
      <4>1. CASE k \in 1 .. Len(jobs) /\ jobs'[k] = jobs[k]
        <5>1. Sound(jobs[k], D, G) /\ jobs[k] \in G
          BY <1>1, <1>3, <1>7, <1>9, <4>1 DEF JobsGood, Range
        <5>2. QED
          BY <1>15, <4>1, <5>1
      <4>2. CASE last > 0 /\ jobs'[k].first = last + 1 /\ jobs'[k].last = i - 1
                 /\ jobs'[k].through = 0
        BY <1>14, <4>2
      <4>3. QED
        BY <1>2, <4>1, <4>2
    <3>2. jobs'[k] \in H /\ jobs'[k].first \in Nat
      <4>1. jobs'[k] \in Range(jobs')
        BY <1>9 DEF Range
      <4>2. jobs'[k] \in H
        BY <4>1 DEF H, AllGaps
      <4>3. QED
        BY <1>5, <4>2 DEF NatSpans
    <3>3. NotEarly(jobs'[k], D, D \cup {i})
      BY <1>10, <1>13, <3>2, FitsNotEarly
    <3>4. SpansIn(H, H) /\ D \subseteq D \cup {i}
      BY DEF SpansIn
    <3>5. QED
      BY <3>1, <3>3, <3>4, SoundMore
  <2>2. QED
    BY <2>1 DEF JobsGood
<1>20. TrackerGood(last', D \cup {i}, H)
  BY <1>2, <1>4, <1>6, <1>8, <1>11, <1>12, NextTracker
<1>21. QED
  BY <1>3, <1>16, <1>17, <1>18, <1>19, <1>20 DEF ProgressInv, H

\* The next trade.
LEMMA ReadProgress ==
    ASSUME ProgressInv, Read
    PROVE  ProgressInv'
<1>1. TypedInv /\ TypedInv' /\ sent \in Nat
  <2>1. TypedInv
    BY DEF ProgressInv
  <2>2. TypedInv'
    BY <2>1, ReadTyped
  <2>3. sent \in Nat
    BY <2>1, TradeConstants DEF TypedInv
  <2>4. QED
    BY <2>1, <2>2, <2>3
<1>2. /\ todo = <<>> /\ ValidateTradeId(sent + 1) /\ UNCHANGED <<events, chan, logged, gaps>>
  BY DEF Read, ProcessMessage, Idle, tp
<1>3. QED
  BY <1>1, <1>2, HandledProgress

\* A trade delivered again, or late.
LEMMA ReadOldProgress ==
    ASSUME ProgressInv, ReadOld
    PROVE  ProgressInv'
<1>1. TypedInv /\ TypedInv'
  BY ReadOldTyped DEF ProgressInv
<1>2. PICK i \in 1 .. last : ProcessMessage(i)
  BY DEF ReadOld
<1>3. /\ todo = <<>> /\ ValidateTradeId(i) /\ UNCHANGED <<events, chan, logged, gaps>>
  BY <1>2 DEF ReadOld, ProcessMessage, Idle, tp
<1>4. i \in Nat /\ i >= 1
  BY <1>1, <1>2 DEF TypedInv
<1>5. QED
  BY <1>1, <1>2, <1>3, <1>4, HandledProgress

\* Commands that say nothing of this symbol's trades.
LEMMA OtherRows ==
    /\ AllRowIds(<<Pump>>) = {} /\ EventsOf(<<Pump>>) = {}
    /\ AllRowIds(<<Row(0, FALSE), Flush, Pump>>) = {}
    /\ EventsOf(<<Row(0, FALSE), Flush, Pump>>) = {}
    /\ \A D, G : NatSpans(G) => /\ ListGood(<<Pump>>, D, G)
                                /\ ListGood(<<Row(0, FALSE), Flush, Pump>>, D, G)
<1> DEFINE b == Row(0, FALSE)
           v == <<Pump>>
           w == <<b, Flush, Pump>>
<1>1. /\ Len(v) = 1 /\ v[1] = Pump /\ DOMAIN v = 1 .. 1
      /\ DOMAIN w = 1 .. 3 /\ Len(w) = 3 /\ w[1] = b /\ w[2] = Flush /\ w[3] = Pump
  OBVIOUS
<1>2. b.do = "row" /\ b.id = 0 /\ Flush.do = "flush" /\ Pump.do = "pump"
  BY DEF Row, Flush, Pump
<1> HIDE DEF v, w, b
<1>3. AllRowIds(v) = {} /\ AllRowIds(w) = {}
  <2>1. {n \in 1 .. 2 - 1 : v[n].do = "row" /\ v[n].id > 0} = {}
    BY <1>1, <1>2
  <2>2. {n \in 1 .. 4 - 1 : w[n].do = "row" /\ w[n].id > 0} = {}
    BY <1>1, <1>2
  <2>3. QED
    BY <1>1, <2>1, <2>2 DEF AllRowIds, RowIds
<1>4. EventsOf(v) = {} /\ EventsOf(w) = {}
  <2>1. Range(v) = {Pump} /\ Range(w) = {b, Flush, Pump}
    BY <1>1 DEF Range
  <2>2. QED
    BY <1>2, <2>1 DEF EventsOf
<1>5. ASSUME NEW D, NEW G, NatSpans(G)
      PROVE  ListGood(v, D, G) /\ ListGood(w, D, G)
  <2>1. \A L : Fits(b, L, G)
    BY <1>2, <1>5 DEF Fits, NatSpans, Covers
  <2>2. \A L : CommandGood(Flush, L, G) /\ CommandGood(Pump, L, G) /\ CommandGood(b, L, G)
    BY <1>2, <2>1 DEF CommandGood
  <2>3. QED
    BY <1>1, <2>2 DEF ListGood
<1>6. QED
  BY <1>3, <1>4, <1>5 DEF v, w, b

\* The commands change, and say nothing of this symbol's trades.
LEMMA OtherProgress ==
    ASSUME ProgressInv, TypedInv', todo = <<>>, UNCHANGED <<last, jobs, events, chan, logged, gaps>>,
           todo' \in {<<>>, <<Pump>>, <<Row(0, FALSE), Flush, Pump>>}
    PROVE  ProgressInv'
<1>1. AllRowIds(todo') = {} /\ EventsOf(todo') = {} /\ AllRowIds(todo) = {} /\ EventsOf(todo) = {}
  BY OtherRows, EmptyLists
<1>2. Delivered' = Delivered /\ OnTheWay' = OnTheWay /\ TpNow' = TpNow
  BY <1>1 DEF Delivered, OnTheWay, TpNow
<1>3. AllGaps' = AllGaps
  BY <1>1, AllGapsAre DEF AllGaps, Held, EventsOf
<1>4. NatSpans(AllGaps)
  BY AllGapsNat DEF ProgressInv
<1>5. ListGood(todo', Delivered, AllGaps)
  BY <1>4, OtherRows, EmptyLists
<1>6. QED
  BY <1>2, <1>3, <1>5 DEF ProgressInv

\* A message that cannot be read.
LEMMA ReadUnreadableProgress ==
    ASSUME ProgressInv, ReadUnreadable
    PROVE  ProgressInv'
<1>1. TypedInv'
  BY ReadUnreadableTyped DEF ProgressInv
<1>2. /\ todo = <<>> /\ todo' = <<Pump>> /\ UNCHANGED <<last, jobs, events, chan, logged, gaps>>
  BY DEF ReadUnreadable, Idle, tp
<1>3. QED
  BY <1>1, <1>2, OtherProgress

\* A trade of another symbol.
LEMMA ReadOtherProgress ==
    ASSUME ProgressInv, ReadOther
    PROVE  ProgressInv'
<1>1. TypedInv'
  BY ReadOtherTyped DEF ProgressInv
<1>2. /\ todo = <<>> /\ todo' = <<Row(0, FALSE), Flush, Pump>>
      /\ UNCHANGED <<last, jobs, events, chan, logged, gaps>>
  BY DEF ReadOther, Idle, tp
<1>3. QED
  BY <1>1, <1>2, OtherProgress

\* A trade that no handler reads.
LEMMA MissedProgress ==
    ASSUME ProgressInv, Missed
    PROVE  ProgressInv'
<1>1. TypedInv' /\ UNCHANGED <<last, jobs, events, todo, chan, logged, gaps>>
  BY MissedTyped DEF Missed, handler, tp, ProgressInv
<1>2. QED
  BY <1>1, ProgressSame

\* The connection breaks.
LEMMA BreakProgress ==
    ASSUME ProgressInv, Break
    PROVE  ProgressInv'
<1>1. TypedInv' /\ UNCHANGED <<last, jobs, events, todo, chan, logged, gaps>>
  BY BreakTyped DEF Break, handler, tp, ProgressInv
<1>2. QED
  BY <1>1, ProgressSame

\* The worker's request ends.
LEMMA WorkerFetchesProgress ==
    ASSUME ProgressInv, WorkerFetches
    PROVE  ProgressInv'
<1>1. TypedInv' /\ UNCHANGED <<last, jobs, events, todo, chan, logged, gaps>>
  BY WorkerFetchesTyped DEF WorkerFetches, handler, tp, ProgressInv
<1>2. QED
  BY <1>1, ProgressSame

\* A row added to the channel.
LEMMA TpGoodAppend ==
    ASSUME NEW s, NEW q \in Seq(RowType(s)), NEW c \in RowType(s), NEW t, NEW G, TpGood(t, q, 0, G),
           Fits(c, LoggedIds(t.logged) \cup ChanIds(q, 0, Len(q)), t.gaps)
    PROVE  /\ TpGood(t, Append(q, c), 0, G)
           /\ ChanIds(Append(q, c), 0, Len(Append(q, c))) = ChanIds(q, 0, Len(q)) \cup {c.id}
<1> DEFINE w == Append(q, c)
           n == Len(q)
           L == LoggedIds(t.logged)
<1>1. n \in Nat /\ Len(w) = n + 1 /\ (\A k \in 1 .. n : w[k] = q[k]) /\ w[n + 1] = c
  BY AppendSeq
<1>2. TpGood(t, q, 0, G) /\ Fits(c, L \cup ChanIds(q, 0, n), t.gaps)
  OBVIOUS
<1>3. \A k \in 1 .. n : k \in 0 + 1 .. Len(q)
  OBVIOUS
<1>4. ASSUME NEW k \in 0 .. n
      PROVE  ChanIds(w, 0, k) = ChanIds(q, 0, k)
  <2> HIDE DEF w, n
  <2>1. QED
    BY <1>1 DEF ChanIds
<1>5. ASSUME NEW k \in 0 + 1 .. n + 1
      PROVE  Fits(w[k], L \cup ChanIds(w, 0, k - 1), t.gaps)
  <2>1. k - 1 \in 0 .. n
    <3> HIDE DEF n
    <3>1. QED
      BY <1>1
  <2>2. ChanIds(w, 0, k - 1) = ChanIds(q, 0, k - 1)
    BY <1>4, <2>1
  <2>3. CASE k = n + 1
    <3> HIDE DEF w, n
    <3>1. k - 1 = n
      BY <1>1, <2>3
    <3>2. QED
      BY <1>1, <1>2, <2>2, <2>3, <3>1
  <2>4. CASE k # n + 1
    <3>1. k \in 1 .. n /\ k \in 0 + 1 .. Len(q)
      <4>1. k \in 1 .. n
        <5> HIDE DEF n
        <5>1. QED
          BY <1>1, <2>4
      <4>2. QED
        BY <1>3, <4>1
    <3>2. Fits(q[k], L \cup ChanIds(q, 0, k - 1), t.gaps)
      BY <1>2, <3>1 DEF TpGood
    <3>3. w[k] = q[k]
      BY <1>1, <3>1
    <3> HIDE DEF w
    <3>4. QED
      BY <2>2, <3>2, <3>3
  <2>5. QED
    BY <2>3, <2>4
<1>6. ChanIds(w, 0, n + 1) = ChanIds(q, 0, n) \cup {c.id}
  <2> HIDE DEF w, n
  <2>1. QED
    BY <1>1 DEF ChanIds
<1>7. TpGood(t, w, 0, G)
  <2> HIDE DEF w, n
  <2>1. QED
    BY <1>1, <1>2, <1>5 DEF TpGood
<1> HIDE DEF w, n
<1>8. QED
  BY <1>1, <1>6, <1>7 DEF w, n

\* The elements of a longer queue, and of a shorter one.
LEMMA AppendRange ==
    ASSUME NEW T, NEW q \in Seq(T), NEW x \in T
    PROVE  Range(Append(q, x)) = Range(q) \cup {x}
<1> DEFINE w == Append(q, x)
           n == Len(q)
<1>1. /\ n \in Nat /\ DOMAIN q = 1 .. n /\ DOMAIN w = 1 .. n + 1
      /\ (\A k \in 1 .. n : w[k] = q[k]) /\ w[n + 1] = x
  BY AppendSeq
<1> HIDE DEF w, n
<1>2. QED
  BY <1>1 DEF Range, w

\* The elements of a sequence are the first one and those behind it.
LEMMA TailRange ==
    ASSUME NEW T, NEW q \in Seq(T), q # <<>>
    PROVE  Range(q) = {q[1]} \cup Range(Tail(q))
<1> DEFINE w == Tail(q)
           n == Len(q)
<1>1. n \in Nat /\ n >= 1 /\ Len(w) = n - 1 /\ (\A i \in 1 .. n - 1 : w[i] = q[i + 1]) /\ w \in Seq(T)
  BY TailSeq
<1>2. DOMAIN q = 1 .. n
  OBVIOUS
<1> HIDE DEF n, w
<1>3. DOMAIN w = 1 .. n - 1
  BY <1>1
<1>4. ASSUME NEW k \in 1 .. n
      PROVE  q[k] \in {q[1]} \cup Range(w)
  <2>1. CASE k = 1
    BY <2>1
  <2>2. CASE k > 1
    <3>1. k - 1 \in 1 .. n - 1 /\ (k - 1) + 1 = k
      BY <1>1, <2>2
    <3>2. w[k - 1] = q[k]
      BY <1>1, <3>1
    <3>3. QED
      BY <1>3, <3>1, <3>2 DEF Range
  <2>3. QED
    BY <2>1, <2>2
<1>5. ASSUME NEW k \in 1 .. n - 1
      PROVE  w[k] \in Range(q)
  <2>1. w[k] = q[k + 1] /\ k + 1 \in 1 .. n
    BY <1>1
  <2>2. QED
    BY <1>2, <2>1 DEF Range
<1>6. q[1] \in Range(q)
  <2>1. 1 \in 1 .. n
    BY <1>1
  <2>2. QED
    BY <1>2, <2>1 DEF Range
<1>7. Range(q) \subseteq {q[1]} \cup Range(w)
  BY <1>2, <1>4 DEF Range
<1>8. Range(w) \subseteq Range(q)
  BY <1>3, <1>5 DEF Range
<1>9. QED
  BY <1>6, <1>7, <1>8 DEF w

\* A flush before the other commands leaves them good.
LEMMA ListGoodFlush ==
    ASSUME NEW T, NEW td \in Seq(T), td # <<>>, td[1] = Flush, NEW D, NEW G, ListGood(Tail(td), D, G)
    PROVE  ListGood(td, D, G)
<1> DEFINE n == Len(td)
           w == Tail(td)
<1>1. n \in Nat /\ n >= 1 /\ Len(w) = n - 1 /\ \A i \in 1 .. n - 1 : w[i] = td[i + 1]
  BY TailSeq
<1>2. RowIds(td, 2) = {} /\ \A L : CommandGood(td[1], L, G)
  <2>1. td[1].do # "row" /\ td[1].do # "event"
    BY DEF Flush
  <2>2. QED
    BY <2>1, FirstRowId DEF CommandGood
<1>3. ASSUME NEW k \in 1 .. n
      PROVE  CommandGood(td[k], D \cup RowIds(td, k), G)
  <2>1. CASE k = 1
    BY <1>2, <2>1
  <2>2. CASE k # 1
    <3>1. k - 1 \in 1 .. n - 1 /\ k - 1 \in 1 .. n /\ (k - 1) + 1 = k
      <4> HIDE DEF n
      <4>1. QED
        BY <1>1, <2>2
    <3>2. w[k - 1] = td[k] /\ RowIds(td, (k - 1) + 1) = RowIds(td, 2) \cup RowIds(w, k - 1)
      BY <1>1, <3>1, RowIdsTail
    <3>3. k - 1 \in 1 .. Len(w)
      BY <1>1, <3>1
    <3>4. CommandGood(w[k - 1], D \cup RowIds(w, k - 1), G)
      BY <3>3 DEF ListGood
    <3> HIDE DEF w
    <3>5. QED
      BY <1>2, <3>1, <3>2, <3>4
  <2>3. QED
    BY <2>1, <2>2
<1>4. QED
  BY <1>3 DEF ListGood

\* The next row is published.
LEMMA PublishRowProgress ==
    ASSUME ProgressInv, PublishRow
    PROVE  ProgressInv'
<1> DEFINE c == todo[1]
           D == Delivered
           G == AllGaps
           I == RowIds(todo, 2)
<1>1. /\ TypedInv /\ TpGood(TpNow, chan, 0, G) /\ EventsGood(events, D, G) /\ ListGood(todo, D, G)
      /\ JobsGood(jobs, OnTheWay, G) /\ TrackerGood(last, OnTheWay, G)
  BY DEF ProgressInv
<1>2. /\ sent \in 0 .. MaxTrades /\ todo \in Seq(CommandType(sent)) /\ chan \in Seq(RowType(sent))
      /\ events \in Seq(GapType(sent))
  BY <1>1 DEF TypedInv
<1>3. /\ todo # <<>> /\ c.do = "row" /\ Head(todo) = c
      /\ chan' = IF c.id = 0 THEN chan ELSE Append(chan, c)
      /\ todo' = Rest(events) /\ UNCHANGED <<last, jobs, events, logged, gaps>>
  BY <1>2, TailSeq DEF PublishRow, tp
<1>4. TypedInv' /\ TpNow' = TpNow
  BY <1>1, <1>3, PublishRowTyped DEF TpNow
<1>5. /\ ListGood(todo', D \cup I, G) /\ AllRowIds(todo) = I \cup AllRowIds(todo')
      /\ EventsOf(todo) = EventsOf(todo') \cup (IF c.do = "event" THEN {c.event} ELSE {})
  BY <1>1, <1>2, <1>3, RestGood
<1>6. c \in CommandType(sent) /\ 1 \in 1 .. Len(todo)
  BY <1>2, <1>3, TailSeq
<1>7. c.id \in Nat /\ (c.id > 0 => c \in RowType(sent)) /\ I = IF c.id > 0 THEN {c.id} ELSE {}
  <2>1. c \in [do : {"row"}, id : 0 .. sent, back : BOOLEAN]
    BY <1>3, <1>6 DEF CommandType, Flush, Pump
  <2>2. I = IF c.do = "row" /\ c.id > 0 THEN {c.id} ELSE {}
    BY FirstRowId
  <2> HIDE DEF c, I
  <2>3. QED
    BY <1>2, <1>3, <2>1, <2>2 DEF RowType
<1>8. Fits(c, D, G)
  <2>1. CommandGood(c, D \cup RowIds(todo, 1), G)
    BY <1>1, <1>6 DEF ListGood
  <2>2. RowIds(todo, 1) = {}
    BY FirstRowId
  <2>3. D \cup RowIds(todo, 1) = D
    BY <2>2
  <2> HIDE DEF D, G, c
  <2>4. QED
    BY <1>3, <2>1, <2>3 DEF CommandGood
<1>9. SpansIn(AllGaps', AllGaps)
  <2>1. SpansIn(gaps', AllGaps) /\ SpansIn(Range(jobs'), AllGaps)
    BY <1>3, AllGapsAre DEF SpansIn
  <2>2. Range(events') \subseteq AllGaps /\ EventsOf(todo') \subseteq AllGaps
    BY <1>3, <1>5, AllGapsAre
  <2>3. QED
    BY <2>1, <2>2, SpansKept
<1>10. gaps \subseteq G /\ Range(events) \subseteq G /\ NatSpans(G) /\ SpansIn(gaps, G) /\ SpansIn(G, G)
  BY <1>1, AllGapsAre, AllGapsNat DEF SpansIn
<1>11. TpGood(TpNow', chan', 0, G) /\ Delivered' = D \cup I
  <2>1. TpNow.gaps = gaps /\ TpNow.logged = logged
    BY DEF TpNow
  <2>2. CASE c.id = 0
    <3>1. chan' = chan /\ I = {} /\ Delivered' = Delivered
      BY <1>3, <1>7, <2>2 DEF Delivered
    <3>2. QED
      BY <1>1, <1>4, <3>1
  <2>3. CASE c.id # 0
    <3>1. c \in RowType(sent) /\ chan' = Append(chan, c) /\ I = {c.id}
      BY <1>3, <1>7, <2>3
    <3>2. Fits(c, D, gaps)
      BY <1>8, <1>10, FitsMore
    <3>3. Fits(c, LoggedIds(TpNow.logged) \cup ChanIds(chan, 0, Len(chan)), TpNow.gaps)
      BY <2>1, <3>2 DEF D, Delivered
    <3> HIDE DEF c, G, I
    <3>4. /\ TpGood(TpNow, chan', 0, G)
          /\ ChanIds(chan', 0, Len(chan')) = ChanIds(chan, 0, Len(chan)) \cup {c.id}
      BY <1>1, <1>2, <3>1, <3>3, TpGoodAppend
    <3>5. QED
      BY <1>3, <1>4, <3>1, <3>4 DEF Delivered
  <2>4. QED
    BY <2>2, <2>3
<1>12. OnTheWay' = OnTheWay
  BY <1>5, <1>11 DEF OnTheWay
<1>13. EventsGood(events', Delivered', G)
  <2> DEFINE E == D \cup I
  <2>1. ASSUME NEW k \in 1 .. Len(events)
        PROVE  Good(events[k], E, G)
    <3>1. Good(events[k], D, G)
      BY <1>1 DEF EventsGood
    <3>2. events[k] \in G /\ events[k].first \in Nat
      BY <1>2, <1>10 DEF Range, NatSpans
    <3> HIDE DEF D, G, I, c
    <3>3. NotEarly(events[k], D, E)
      <4>1. CASE c.id > 0
        <5>1. E = D \cup {c.id}
          BY <1>7, <4>1
        <5>2. QED
          BY <1>7, <1>8, <3>2, <5>1, FitsNotEarly
      <4>2. CASE c.id = 0
        <5>1. E = D
          BY <1>7, <4>2
        <5>2. QED
          BY <5>1, SameNotEarly
      <4>3. QED
        BY <1>7, <4>1, <4>2
    <3>4. D \subseteq E
      OBVIOUS
    <3>5. QED
      BY <1>10, <3>1, <3>3, <3>4, GoodMore
  <2> HIDE DEF E
  <2>2. EventsGood(events, E, G)
    BY <2>1 DEF EventsGood
  <2>3. QED
    BY <1>3, <1>11, <2>2 DEF E
<1>14. ListGood(todo', Delivered', G)
  BY <1>5, <1>11
<1> HIDE DEF D, I, c
<1>15. QED
  BY <1>1, <1>3, <1>4, <1>9, <1>11, <1>12, <1>13, <1>14, ProgressKept

\* A gap event is queued.
LEMMA RecordGapProgress ==
    ASSUME ProgressInv, RecordGap
    PROVE  ProgressInv'
<1> DEFINE c == todo[1]
           w == Tail(todo)
           D == Delivered
           G == AllGaps
<1>1. /\ TypedInv /\ TpGood(TpNow, chan, 0, G) /\ EventsGood(events, D, G) /\ ListGood(todo, D, G)
      /\ JobsGood(jobs, OnTheWay, G) /\ TrackerGood(last, OnTheWay, G)
  BY DEF ProgressInv
<1>2. /\ sent \in 0 .. MaxTrades /\ todo \in Seq(CommandType(sent)) /\ events \in Seq(GapType(sent))
  BY <1>1 DEF TypedInv
<1>3. /\ todo # <<>> /\ c.do = "event" /\ Head(todo) = c
      /\ events' = Append(events, c.event) /\ todo' = <<Flush>> \o w
      /\ UNCHANGED <<last, jobs, chan, logged, gaps>>
  BY <1>2, TailSeq DEF RecordGap, tp
<1>4. TypedInv' /\ TpNow' = TpNow /\ Delivered' = D
  BY <1>1, <1>3, RecordGapTyped DEF TpNow, Delivered
<1>5. c \in CommandType(sent) /\ 1 \in 1 .. Len(todo) /\ w \in Seq(CommandType(sent))
  BY <1>2, <1>3, TailSeq
<1>6. c.event \in GapType(sent)
  <2> HIDE DEF c
  <2>1. QED
    BY <1>3, <1>5 DEF CommandType, Flush, Pump
<1>7. Good(c.event, D, G)
  <2>1. CommandGood(c, D \cup RowIds(todo, 1), G)
    BY <1>1, <1>5 DEF ListGood
  <2>2. RowIds(todo, 1) = {}
    BY FirstRowId
  <2>3. D \cup RowIds(todo, 1) = D
    BY <2>2
  <2> HIDE DEF D, G, c
  <2>4. QED
    BY <1>3, <2>1, <2>3 DEF CommandGood
<1>8. /\ ListGood(w, D \cup RowIds(todo, 2), G) /\ AllRowIds(todo) = RowIds(todo, 2) \cup AllRowIds(w)
      /\ EventsOf(todo) = EventsOf(w) \cup (IF c.do = "event" THEN {c.event} ELSE {})
  BY <1>1, <1>2, <1>3, ListGoodTail, AllRowIdsTail, EventsOfTail
<1>9. RowIds(todo, 2) = {}
  <2>1. todo[1].do # "row"
    BY <1>3
  <2>2. QED
    BY <2>1, FirstRowId
<1>10. /\ todo' \in Seq(CommandType(sent)) /\ todo' # <<>> /\ todo'[1] = Flush
       /\ Tail(todo') = w
  <2> DEFINE T == CommandType(sent)
  <2>1. w \in Seq(T) /\ Flush \in T
    BY <1>5 DEF CommandType
  <2> HIDE DEF T, w
  <2>2. QED
    BY <1>3, <2>1 DEF T
<1> HIDE DEF w
<1>11. RowIds(todo', 2) = {} /\ Flush.do = "flush"
  <2>1. todo'[1].do # "row" /\ Flush.do = "flush"
    BY <1>10 DEF Flush
  <2>2. QED
    BY <2>1, FirstRowId
<1>12. AllRowIds(todo') = AllRowIds(w)
  BY <1>10, <1>11, AllRowIdsTail
<1>13. EventsOf(todo') = EventsOf(w)
  <2>1. EventsOf(todo') = EventsOf(w) \cup (IF todo'[1].do = "event" THEN {todo'[1].event} ELSE {})
    BY <1>10, EventsOfTail
  <2>2. todo'[1].do # "event"
    BY <1>10, <1>11
  <2>3. QED
    BY <2>1, <2>2
<1>14. OnTheWay' = OnTheWay
  BY <1>4, <1>8, <1>9, <1>12 DEF OnTheWay
<1>15. SpansIn(AllGaps', AllGaps)
  <2>1. SpansIn(gaps', AllGaps) /\ SpansIn(Range(jobs'), AllGaps)
    BY <1>3, AllGapsAre DEF SpansIn
  <2>2. EventsOf(todo') \subseteq AllGaps /\ c.event \in AllGaps
    BY <1>3, <1>8, <1>13, AllGapsAre
  <2>3. Range(events') \subseteq AllGaps
    <3>1. Range(events') = Range(events) \cup {c.event}
      <4> HIDE DEF c
      <4>1. QED
        BY <1>2, <1>3, <1>6, AppendRange
    <3>2. QED
      BY <2>2, <3>1, AllGapsAre
  <2>4. QED
    BY <2>1, <2>2, <2>3, SpansKept
<1>16. EventsGood(events', D, G)
  <2> HIDE DEF c, D, G
  <2>1. /\ Len(events') = Len(events) + 1 /\ (\A k \in 1 .. Len(events) : events'[k] = events[k])
        /\ events'[Len(events) + 1] = c.event
    BY <1>2, <1>3, <1>6, AppendSeq
  <2>2. ASSUME NEW k \in 1 .. Len(events')
        PROVE  Good(events'[k], D, G)
    <3>1. k \in 1 .. Len(events) \/ k = Len(events) + 1
      BY <1>2, <2>1
    <3>2. QED
      BY <1>1, <1>7, <2>1, <3>1 DEF EventsGood
  <2>3. QED
    BY <2>2 DEF EventsGood
<1>17. ListGood(todo', D, G)
  <2> HIDE DEF D, G
  <2>1. ListGood(w, D, G)
    BY <1>8, <1>9
  <2>2. QED
    BY <1>10, <1>11, <2>1, ListGoodFlush
<1> HIDE DEF D, c
<1>18. QED
  BY <1>1, <1>3, <1>4, <1>14, <1>15, <1>16, <1>17, ProgressKept

\* TP has logged the rows before an event, and the event or not.
Answered(ev) ==
    /\ logged' = LogRows(chan).logged
    /\ gaps' \in {LogRows(chan).gaps, NoteGap(LogRows(chan).gaps, ev)}
    /\ chan' = <<>>

\* Either way TP stays good, and the ids delivered are the same.
LEMMA AnsweredGood ==
    ASSUME ProgressInv, events # <<>>, Answered(Head(events))
    PROVE  /\ TpGood(TpNow', chan', 0, AllGaps) /\ Delivered' = Delivered
           /\ SpansIn(gaps', AllGaps)
<1> DEFINE t == LogRows(chan)
           e == Head(events)
           D == Delivered
           G == AllGaps
<1>1. /\ sent \in 0 .. MaxTrades /\ TpTyped(TpNow, sent) /\ chan \in Seq(RowType(sent))
      /\ events \in Seq(GapType(sent)) /\ TpGood(TpNow, chan, 0, G) /\ EventsGood(events, D, G)
  BY DEF ProgressInv, TypedInv
<1>2. LogsGood(t, D, G)
  BY <1>1, LogRowsGood DEF Delivered
<1>3. Good(e, D, G) /\ e \in Range(events)
  <2>1. e = events[1] /\ 1 \in 1 .. Len(events)
    BY <1>1, TailSeq
  <2> HIDE DEF e, D, G
  <2>2. QED
    BY <1>1, <2>1 DEF EventsGood, Range
<1>4. Range(events) \subseteq G /\ gaps \subseteq G
  BY AllGapsAre
<1>5. gaps' \subseteq t.gaps \cup {e} /\ LoggedIds(logged') = D /\ chan' = <<>>
  BY <1>2 DEF Answered, NoteGap, LogsGood
<1> HIDE DEF t, e, G
<1>6. Delivered' = D
  BY <1>5, EmptyLists DEF Delivered
<1>7. \A g \in gaps' : Good(g, D, G)
  BY <1>2, <1>3, <1>5 DEF LogsGood
<1>8. TpGood(TpNow', chan', 0, G)
  BY <1>5, <1>7 DEF TpGood, TpNow
<1>9. SpansIn(gaps', G)
  BY <1>2, <1>3, <1>4, <1>5 DEF LogsGood, SpansIn
<1>10. QED
  BY <1>6, <1>8, <1>9 DEF G

\* The queue goes on: the event is out of it, or the flush ends.
GoesOn == Sent \/ (events' = events /\ todo' = Tail(todo))

\* What is left of the events and the commands.
LEMMA GoesOnGood ==
    ASSUME ProgressInv, Flushing, GoesOn
    PROVE  /\ EventsGood(events', Delivered, AllGaps) /\ ListGood(todo', Delivered, AllGaps)
           /\ AllRowIds(todo') = AllRowIds(todo)
           /\ EventsOf(todo') = EventsOf(todo) /\ Range(events') \subseteq Range(events)
<1> DEFINE D == Delivered
           G == AllGaps
<1>1. /\ todo \in Seq(CommandType(sent)) /\ events \in Seq(GapType(sent))
      /\ EventsGood(events, D, G) /\ ListGood(todo, D, G)
  BY DEF ProgressInv, TypedInv
<1> HIDE DEF D, G
<1>2. todo # <<>> /\ events # <<>> /\ todo[1].do # "row" /\ todo[1].do # "event"
  <2>1. todo # <<>> /\ events # <<>> /\ Head(todo).do = "flush" /\ Head(todo) = todo[1]
    BY <1>1, TailSeq DEF Flushing
  <2>2. QED
    BY <2>1
<1>3. RowIds(todo, 2) = {}
  BY <1>2, FirstRowId
<1>4. ASSUME NEW evs
      PROVE  /\ ListGood(Rest(evs), D, G) /\ AllRowIds(Rest(evs)) = AllRowIds(todo)
             /\ EventsOf(Rest(evs)) = EventsOf(todo)
  <2>1. /\ ListGood(Rest(evs), D \cup RowIds(todo, 2), G)
        /\ AllRowIds(todo) = RowIds(todo, 2) \cup AllRowIds(Rest(evs))
        /\ EventsOf(todo) = EventsOf(Rest(evs)) \cup
                (IF todo[1].do = "event" THEN {todo[1].event} ELSE {})
    BY <1>1, <1>2, RestGood
  <2>2. D \cup RowIds(todo, 2) = D
    BY <1>3
  <2>3. QED
    BY <1>2, <1>3, <2>1, <2>2
<1>5. Rest(events) = Tail(todo)
  BY <1>2 DEF Rest
<1>6. todo' \in {todo, Rest(<<>>), Rest(events)} /\ events' \in {events, Tail(events)}
  BY <1>5 DEF GoesOn, Sent
<1>7. ListGood(todo', D, G) /\ AllRowIds(todo') = AllRowIds(todo) /\ EventsOf(todo') = EventsOf(todo)
  BY <1>1, <1>4, <1>6
<1>8. Range(events') \subseteq Range(events)
  BY <1>1, <1>2, <1>6, TailRange
<1>9. EventsGood(events', D, G)
  <2>1. EventsGood(Tail(events), D, G)
    <3> DEFINE n == Len(events)
               w == Tail(events)
    <3>1. n \in Nat /\ Len(w) = n - 1 /\ \A i \in 1 .. n - 1 : w[i] = events[i + 1]
      BY <1>1, <1>2, TailSeq
    <3>2. \A k \in 1 .. n : Good(events[k], D, G)
      BY <1>1 DEF EventsGood
    <3> HIDE DEF n, w
    <3>3. \A k \in 1 .. n - 1 : Good(w[k], D, G)
      BY <3>1, <3>2
    <3>4. QED
      BY <3>1, <3>3 DEF EventsGood, w
  <2>2. QED
    BY <1>1, <1>6, <2>1
<1>10. QED
  BY <1>7, <1>8, <1>9 DEF D, G

\* A flush has sent an event, or has not.
LEMMA FlushedProgress ==
    ASSUME ProgressInv, TypedInv', Flushing, GoesOn, UNCHANGED <<last, jobs>>,
           UNCHANGED <<chan, logged, gaps>> \/ Answered(Head(events))
    PROVE  ProgressInv'
<1>1. /\ EventsGood(events', Delivered, AllGaps) /\ ListGood(todo', Delivered, AllGaps)
      /\ AllRowIds(todo') = AllRowIds(todo)
      /\ EventsOf(todo') = EventsOf(todo) /\ Range(events') \subseteq Range(events)
  BY GoesOnGood
<1>2. /\ TpGood(TpNow', chan', 0, AllGaps) /\ Delivered' = Delivered /\ SpansIn(gaps', AllGaps)
  <2>1. CASE UNCHANGED <<chan, logged, gaps>>
    <3>1. TpNow' = TpNow /\ Delivered' = Delivered /\ gaps' \subseteq AllGaps
      BY <2>1, AllGapsAre DEF TpNow, Delivered
    <3>2. QED
      BY <2>1, <3>1 DEF ProgressInv, SpansIn
  <2>2. CASE Answered(Head(events))
    BY <2>2, AnsweredGood DEF Flushing
  <2>3. QED
    BY <2>1, <2>2
<1>3. OnTheWay' = OnTheWay
  BY <1>1, <1>2 DEF OnTheWay
<1>4. SpansIn(AllGaps', AllGaps)
  <2>1. SpansIn(Range(jobs'), AllGaps) /\ Range(events') \subseteq AllGaps
        /\ EventsOf(todo') \subseteq AllGaps
    BY <1>1, AllGapsAre DEF SpansIn
  <2>2. QED
    BY <1>2, <2>1, SpansKept
<1>5. EventsGood(events', Delivered', AllGaps) /\ ListGood(todo', Delivered', AllGaps)
  BY <1>1, <1>2
<1>6. JobsGood(jobs', OnTheWay, AllGaps) /\ TrackerGood(last', OnTheWay, AllGaps)
  BY DEF ProgressInv
<1>7. QED
  BY <1>2, <1>3, <1>4, <1>5, <1>6, ProgressKept

\* TP acknowledges an event.
LEMMA EventAckedProgress ==
    ASSUME ProgressInv, EventAcked
    PROVE  ProgressInv'
<1>1. TypedInv'
  BY EventAckedTyped DEF ProgressInv
<1>2. Flushing /\ GoesOn /\ UNCHANGED <<last, jobs>> /\ Answered(Head(events))
  BY DEF EventAcked, GoesOn, TpEvent, Answered
<1>3. QED
  BY <1>1, <1>2, FlushedProgress

\* No acknowledgement comes.
LEMMA EventUnackedProgress ==
    ASSUME ProgressInv, EventUnacked
    PROVE  ProgressInv'
<1>1. TypedInv'
  BY EventUnackedTyped DEF ProgressInv
<1>2. /\ Flushing /\ GoesOn /\ UNCHANGED <<last, jobs>>
      /\ UNCHANGED <<chan, logged, gaps>> \/ Answered(Head(events))
  BY DEF EventUnacked, GoesOn, TpEvent, Answered, tp
<1>3. QED
  BY <1>1, <1>2, FlushedProgress

\* TP rejects an event.
LEMMA EventRejectedProgress ==
    ASSUME ProgressInv, EventRejected
    PROVE  ProgressInv'
<1>1. TypedInv'
  BY EventRejectedTyped DEF ProgressInv
<1>2. Flushing /\ GoesOn /\ UNCHANGED <<last, jobs>> /\ Answered(Head(events))
  BY DEF EventRejected, GoesOn, Answered
<1>3. QED
  BY <1>1, <1>2, FlushedProgress

\* Two lists of commands, one after the other.
LEMMA ConcatIs ==
    ASSUME NEW T, NEW a \in Seq(T), NEW b \in Seq(T)
    PROVE  /\ a \o b \in Seq(T) /\ Len(a \o b) = Len(a) + Len(b)
           /\ \A k \in 1 .. Len(a) : (a \o b)[k] = a[k]
           /\ \A k \in 1 .. Len(b) : (a \o b)[Len(a) + k] = b[k]
OBVIOUS

\* One list of commands after another, with the rows of the first delivered before it.
LEMMA ConcatGood ==
    ASSUME NEW T, NEW a \in Seq(T), NEW b \in Seq(T), NEW D, NEW G, ListGood(a, D, G),
           ListGood(b, D \cup AllRowIds(a), G)
    PROVE  /\ ListGood(a \o b, D, G) /\ AllRowIds(a \o b) = AllRowIds(a) \cup AllRowIds(b)
           /\ EventsOf(a \o b) = EventsOf(a) \cup EventsOf(b)
<1> DEFINE c == a \o b
           p == Len(a)
           r == Len(b)
           Is(x) == x.do = "row" /\ x.id > 0
<1>1. /\ p \in Nat /\ r \in Nat /\ Len(c) = p + r /\ (\A k \in 1 .. p : c[k] = a[k])
      /\ (\A k \in 1 .. r : c[p + k] = b[k])
      /\ DOMAIN a = 1 .. p /\ DOMAIN b = 1 .. r /\ c \in Seq(T)
  BY ConcatIs
<1>2. DOMAIN c = 1 .. p + r
  <2> HIDE DEF c
  <2>1. QED
    BY <1>1
<1>3. /\ \A k \in 1 .. p : CommandGood(a[k], D \cup RowIds(a, k), G)
      /\ \A k \in 1 .. r : CommandGood(b[k], (D \cup AllRowIds(a)) \cup RowIds(b, k), G)
      /\ AllRowIds(a) = RowIds(a, p + 1) /\ AllRowIds(b) = RowIds(b, r + 1)
      /\ AllRowIds(c) = RowIds(c, (p + r) + 1)
  BY <1>1 DEF ListGood, AllRowIds
<1> HIDE DEF c, p, r
<1>4. ASSUME NEW k \in 1 .. p + 1
      PROVE  RowIds(c, k) = RowIds(a, k)
  <2>1. \A m \in 1 .. k - 1 : c[m] = a[m]
    BY <1>1
  <2>2. QED
    BY <2>1 DEF RowIds
<1>5. ASSUME NEW k \in 1 .. r + 1
      PROVE  RowIds(c, p + k) = RowIds(a, p + 1) \cup RowIds(b, k)
  <2>1. ASSUME NEW m \in 1 .. (p + k) - 1, Is(c[m])
        PROVE  c[m].id \in RowIds(a, p + 1) \cup RowIds(b, k)
    <3>1. CASE m <= p
      <4>1. m \in 1 .. (p + 1) - 1 /\ c[m] = a[m]
        BY <1>1, <3>1
      <4>2. QED
        BY <2>1, <4>1 DEF RowIds
    <3>2. CASE m > p
      <4>1. m - p \in 1 .. k - 1 /\ m - p \in 1 .. r /\ p + (m - p) = m
        BY <1>1, <3>2
      <4>2. c[m] = b[m - p]
        BY <1>1, <4>1
      <4>3. QED
        BY <2>1, <4>1, <4>2 DEF RowIds
    <3>3. QED
      BY <1>1, <3>1, <3>2
  <2>2. ASSUME NEW m \in 1 .. (p + 1) - 1, Is(a[m])
        PROVE  a[m].id \in RowIds(c, p + k)
    <3>1. m \in 1 .. (p + k) - 1 /\ c[m] = a[m]
      BY <1>1
    <3>2. QED
      BY <2>2, <3>1 DEF RowIds
  <2>3. ASSUME NEW m \in 1 .. k - 1, Is(b[m])
        PROVE  b[m].id \in RowIds(c, p + k)
    <3>1. p + m \in 1 .. (p + k) - 1 /\ c[p + m] = b[m]
      BY <1>1
    <3>2. QED
      BY <2>3, <3>1 DEF RowIds
  <2>4. RowIds(c, p + k) \subseteq RowIds(a, p + 1) \cup RowIds(b, k)
    BY <2>1 DEF RowIds
  <2>5. RowIds(a, p + 1) \subseteq RowIds(c, p + k)
    BY <2>2 DEF RowIds
  <2>6. RowIds(b, k) \subseteq RowIds(c, p + k)
    BY <2>3 DEF RowIds
  <2>7. QED
    BY <2>4, <2>5, <2>6
<1>6. ASSUME NEW k \in 1 .. p + r
      PROVE  CommandGood(c[k], D \cup RowIds(c, k), G)
  <2>1. CASE k <= p
    <3>1. k \in 1 .. p /\ k \in 1 .. p + 1
      BY <1>1, <2>1
    <3>2. c[k] = a[k] /\ RowIds(c, k) = RowIds(a, k)
      BY <1>1, <1>4, <3>1
    <3>3. CommandGood(a[k], D \cup RowIds(a, k), G)
      BY <1>3, <3>1
    <3>4. D \cup RowIds(c, k) = D \cup RowIds(a, k) /\ c[k] = a[k]
      BY <3>2
    <3>5. QED
      BY <3>3, <3>4
  <2>2. CASE k > p
    <3> DEFINE m == k - p
    <3>1. m \in 1 .. r /\ m \in 1 .. r + 1 /\ p + m = k
      BY <1>1, <2>2
    <3> HIDE DEF m
    <3>2. c[k] = b[m] /\ RowIds(c, k) = RowIds(a, p + 1) \cup RowIds(b, m)
      BY <1>1, <1>5, <3>1
    <3>3. D \cup RowIds(c, k) = (D \cup AllRowIds(a)) \cup RowIds(b, m)
      BY <1>3, <3>2
    <3>4. QED
      BY <1>3, <3>1, <3>2, <3>3
  <2>3. QED
    BY <1>1, <2>1, <2>2
<1>7. ListGood(c, D, G)
  BY <1>1, <1>6 DEF ListGood
<1>8. AllRowIds(c) = AllRowIds(a) \cup AllRowIds(b)
  <2>1. r + 1 \in 1 .. r + 1 /\ p + (r + 1) = (p + r) + 1
    BY <1>1
  <2>2. RowIds(c, p + (r + 1)) = RowIds(a, p + 1) \cup RowIds(b, r + 1)
    BY <1>5, <2>1
  <2>3. QED
    BY <1>3, <2>1, <2>2
<1>9. Range(c) = Range(a) \cup Range(b)
  <2>1. ASSUME NEW k \in 1 .. p + r
        PROVE  c[k] \in Range(a) \cup Range(b)
    <3>1. CASE k <= p
      <4>1. k \in 1 .. p
        BY <1>1, <3>1
      <4>2. c[k] = a[k] /\ k \in DOMAIN a
        BY <1>1, <4>1
      <4>3. QED
        BY <4>2 DEF Range
    <3>2. CASE k > p
      <4>1. k - p \in 1 .. r /\ p + (k - p) = k
        BY <1>1, <3>2
      <4>2. c[k] = b[k - p]
        BY <1>1, <4>1
      <4>3. QED
        BY <1>1, <4>1, <4>2 DEF Range
    <3>3. QED
      BY <1>1, <3>1, <3>2
  <2>2. ASSUME NEW k \in 1 .. p
        PROVE  a[k] \in Range(c)
    <3>1. k \in 1 .. p + r /\ c[k] = a[k]
      BY <1>1
    <3>2. QED
      BY <1>2, <3>1 DEF Range
  <2>3. ASSUME NEW k \in 1 .. r
        PROVE  b[k] \in Range(c)
    <3>1. p + k \in 1 .. p + r /\ c[p + k] = b[k]
      BY <1>1
    <3>2. QED
      BY <1>2, <3>1 DEF Range
  <2>4. Range(c) \subseteq Range(a) \cup Range(b)
    BY <1>2, <2>1 DEF Range
  <2>5. Range(a) \subseteq Range(c) /\ Range(b) \subseteq Range(c)
    BY <1>1, <2>2, <2>3 DEF Range
  <2>6. QED
    BY <2>4, <2>5
<1>10. EventsOf(c) = EventsOf(a) \cup EventsOf(b)
  BY <1>9 DEF EventsOf
<1>11. QED
  BY <1>7, <1>8, <1>10 DEF c

\* What a part of the pump leaves, with the ids D on the way before it and E after it.
Pumped(res, D, E, G) ==
    /\ E = D \cup AllRowIds(res.out)
    /\ ListGood(res.out, D, G)
    /\ JobsGood(res.jobs, E, G)
    /\ SpansIn(EventsOf(res.out), G) /\ SpansIn(Range(res.jobs), G)

\* One event alone.
LEMMA OneEvent ==
    ASSUME NEW ev, NEW D, NEW G, Good(ev, D, G)
    PROVE  LET td == <<Record(ev)>>
           IN  AllRowIds(td) = {} /\ EventsOf(td) = {ev} /\ ListGood(td, D, G)
<1> DEFINE a == Record(ev)
           td == <<a>>
<1>1. a.do = "event" /\ a.event = ev
  BY DEF Record
<1>2. Len(td) = 1 /\ td[1] = a /\ DOMAIN td = 1 .. 1
  OBVIOUS
<1> HIDE DEF a, td
<1>3. RowIds(td, 1) = {} /\ RowIds(td, 2) = {}
  <2>1. td[1].do # "row"
    BY <1>1, <1>2
  <2>2. QED
    BY <2>1, FirstRowId
<1>4. AllRowIds(td) = {}
  <2>1. Len(td) + 1 = 2
    BY <1>2
  <2>2. QED
    BY <1>3, <2>1 DEF AllRowIds
<1>5. EventsOf(td) = {ev}
  <2>1. Range(td) = {a}
    BY <1>2 DEF Range
  <2>2. QED
    BY <1>1, <2>1 DEF EventsOf
<1>6. CommandGood(a, D, G)
  BY <1>1 DEF CommandGood
<1>7. ListGood(td, D, G)
  BY <1>2, <1>3, <1>6 DEF ListGood
<1>8. QED
  BY <1>4, <1>5, <1>7 DEF td, a

\* The jobs behind the first one.
LEMMA JobsGoodTail ==
    ASSUME NEW T, NEW q \in Seq(T), q # <<>>, NEW A, NEW G, JobsGood(q, A, G), Range(q) \subseteq G
    PROVE  JobsGood(Tail(q), A, G) /\ SpansIn(Range(Tail(q)), G) /\ Sound(q[1], A, G) /\ q[1] \in G
<1> DEFINE n == Len(q)
           w == Tail(q)
<1>1. n \in Nat /\ n >= 1 /\ Len(w) = n - 1 /\ \A i \in 1 .. n - 1 : w[i] = q[i + 1]
  BY TailSeq
<1>2. \A k \in 1 .. n : Sound(q[k], A, G)
  BY DEF JobsGood
<1>3. Range(q) = {q[1]} \cup Range(w)
  BY TailRange
<1> HIDE DEF n, w
<1>4. JobsGood(w, A, G)
  BY <1>1, <1>2 DEF JobsGood
<1>5. QED
  BY <1>1, <1>2, <1>3, <1>4 DEF SpansIn, w

\* Rows from .. from + n - 1 of the gap h, with the ids of h before them among D:
\* none comes too early in any gap.
LEMMA FilledRows ==
    ASSUME NEW G, NatSpans(G), NEW h \in G, NEW D, Sound(h, D, G), NEW from \in Nat, h.first <= from,
           h.first .. (from - 1) \subseteq D, NEW i \in Nat, from <= i, i <= h.last,
           NEW x \in G, Covers(x, i)
    PROVE  x.first .. (i - 1) \subseteq D \cup (from .. (i - 1))
<1>1. x.first \in Nat /\ x.last \in Nat /\ h.first \in Nat /\ h.last \in Nat /\ x.first <= i /\ i <= x.last
  BY DEF NatSpans, Covers
<1>2. ASSUME NEW y \in h.first .. (i - 1)
      PROVE  y \in D \cup (from .. (i - 1))
  <2>1. CASE y < from
    <3>1. y \in h.first .. (from - 1)
      BY <1>1, <2>1
    <3>2. QED
      BY <3>1
  <2>2. CASE y >= from
    <3>1. y \in from .. (i - 1)
      BY <1>1, <2>2
    <3>2. QED
      BY <3>1
  <2>3. QED
    BY <1>1, <2>1, <2>2
<1>3. CASE h.first <= x.first
  BY <1>1, <1>2, <1>3
<1>4. CASE x.first < h.first
  <2>1. x.first .. (h.first - 1) \subseteq D
    BY <1>1, <1>4 DEF Sound
  <2>2. QED
    BY <1>1, <1>2, <1>4, <2>1
<1>5. QED
  BY <1>1, <1>3, <1>4

\* The ids before a command of a page's rows and their event.
LEMMA PageRowIds ==
    ASSUME NEW s, NEW from \in Nat \ {0}, NEW n \in Nat, NEW e, e.do = "event", NEW u,
           HasRowsThen(u, s, from, n, e)
    PROVE  /\ \A k \in 1 .. n + 1 : RowIds(u, k) = from .. (from + k - 2)
           /\ AllRowIds(u) = from .. (from + n - 1)
           /\ EventsOf(u) = {e.event}
<1>1. /\ u \in Seq(CommandType(s)) /\ Len(u) = n + 1 /\ u[n + 1] = e
      /\ \A k \in 1 .. n : u[k] = Row(from + k - 1, TRUE)
  BY DEF HasRowsThen
<1>2. ASSUME NEW k \in 1 .. n
      PROVE  u[k].do = "row" /\ u[k].id = from + k - 1
  <2>1. \A i : Row(i, TRUE).do = "row" /\ Row(i, TRUE).id = i
    BY DEF Row
  <2>2. u[k] = Row(from + k - 1, TRUE)
    BY <1>1
  <2>3. QED
    BY <2>1, <2>2
<1>3. ASSUME NEW k \in 1 .. n + 1
      PROVE  RowIds(u, k) = from .. (from + k - 2)
  <2>1. ASSUME NEW m \in 1 .. k - 1
        PROVE  u[m].do = "row" /\ u[m].id > 0 /\ u[m].id \in from .. (from + k - 2)
    BY <1>2
  <2>2. ASSUME NEW i \in from .. (from + k - 2)
        PROVE  \E m \in 1 .. k - 1 : u[m].do = "row" /\ u[m].id > 0 /\ u[m].id = i
    <3> DEFINE m == i - from + 1
    <3>1. m \in 1 .. k - 1 /\ m \in 1 .. n /\ from + m - 1 = i /\ i > 0
      OBVIOUS
    <3> HIDE DEF m
    <3>2. u[m].do = "row" /\ u[m].id = i
      BY <1>2, <3>1
    <3>3. QED
      BY <3>1, <3>2
  <2>3. RowIds(u, k) \subseteq from .. (from + k - 2)
    BY <2>1 DEF RowIds
  <2>4. from .. (from + k - 2) \subseteq RowIds(u, k)
    BY <2>2 DEF RowIds
  <2>5. QED
    BY <2>3, <2>4
<1>4. AllRowIds(u) = from .. (from + n - 1)
  <2>1. ASSUME NEW m \in 1 .. (n + 2) - 1, u[m].do = "row"
        PROVE  m \in 1 .. n
    BY <1>1, <2>1
  <2>2. RowIds(u, n + 2) = RowIds(u, n + 1)
    <3>1. {m \in 1 .. (n + 2) - 1 : u[m].do = "row" /\ u[m].id > 0}
            = {m \in 1 .. (n + 1) - 1 : u[m].do = "row" /\ u[m].id > 0}
      BY <2>1
    <3>2. QED
      BY <3>1 DEF RowIds
  <2>3. RowIds(u, n + 1) = from .. (from + n - 1)
    <3>1. from + (n + 1) - 2 = from + n - 1 /\ n + 1 \in 1 .. n + 1
      OBVIOUS
    <3>2. QED
      BY <1>3, <3>1
  <2>4. Len(u) + 1 = n + 2
    BY <1>1
  <2>5. QED
    BY <2>2, <2>3, <2>4 DEF AllRowIds
<1>5. EventsOf(u) = {e.event}
  <2>1. DOMAIN u = 1 .. n + 1
    BY <1>1
  <2>2. \A d \in Range(u) : d.do = "event" => d = e
    BY <1>1, <1>2, <2>1 DEF Range
  <2>3. e \in Range(u)
    <3>1. n + 1 \in 1 .. n + 1
      OBVIOUS
    <3>2. QED
      BY <1>1, <2>1, <3>1 DEF Range
  <2>4. {d \in Range(u) : d.do = "event"} = {e}
    BY <2>2, <2>3
  <2>5. QED
    BY <2>4 DEF EventsOf
<1>6. QED
  BY <1>3, <1>4, <1>5

\* One gap of the queue in another state, the others as they were.
LEMMA ReplacedJobs ==
    ASSUME NEW s \in Nat, NEW q \in Seq(JobType(s)), q # <<>>, NEW u, NEW g, Replaced(u, q, g, s),
           g.first = q[1].first, g.last = q[1].last, NEW A, NEW G, Sound(g, A, G),
           \A k \in 2 .. Len(q) : Sound(q[k], A, G), Range(q) \subseteq G
    PROVE  JobsGood(u, A, G) /\ SpansIn(Range(u), G)
<1> DEFINE n == Len(q)
<1>1. n \in Nat /\ n >= 1 /\ DOMAIN q = 1 .. n
  BY TailSeq
<1>2. /\ u \in Seq(JobType(s)) /\ Len(u) = n /\ u[1] = g /\ \A k \in 2 .. n : u[k] = q[k]
      /\ \A k \in 2 .. n : Sound(q[k], A, G)
  BY DEF Replaced
<1> HIDE DEF n
<1>3. DOMAIN u = 1 .. n
  BY <1>2
<1>4. ASSUME NEW k \in 1 .. n
      PROVE  Sound(u[k], A, G) /\ \E h \in G : u[k].first = h.first /\ u[k].last = h.last
  <2>1. q[k] \in G
    BY <1>1 DEF Range
  <2>2. CASE k = 1
    BY <1>2, <2>1, <2>2
  <2>3. CASE k # 1
    <3>1. k \in 2 .. n
      BY <1>1, <2>3
    <3>2. QED
      BY <1>2, <2>1, <3>1
  <2>4. QED
    BY <2>2, <2>3
<1>5. JobsGood(u, A, G)
  BY <1>2, <1>4 DEF JobsGood
<1>6. SpansIn(Range(u), G)
  BY <1>3, <1>4 DEF SpansIn, Range
<1>7. QED
  BY <1>5, <1>6

\* A gap given up: its event is all there is.
LEMMA GivenUpGood ==
    ASSUME NEW s \in Nat, NEW q \in Seq(JobType(s)), q # <<>>, NEW res, GivenUp(res, q),
           NEW D, NEW G, JobsGood(q, D, G), Range(q) \subseteq G
    PROVE  AllRowIds(res.out) = {} /\ Pumped(res, D, D, G)
<1> DEFINE h == q[1]
           ev == GapEvent(h, "unrecoverable")
<1>1. h = Head(q)
  BY TailSeq
<1>2. JobsGood(Tail(q), D, G) /\ SpansIn(Range(Tail(q)), G) /\ Sound(h, D, G) /\ h \in G
  BY JobsGoodTail
<1>3. ev.first = h.first /\ ev.last = h.last /\ ev.through = h.through /\ ev.status # "recovered"
  BY DEF GapEvent
<1>4. res.jobs = Tail(q) /\ res.out = <<Record(ev)>>
  BY <1>1 DEF GivenUp
<1> HIDE DEF h, ev
<1>5. Good(ev, D, G)
  BY <1>2, <1>3, SoundEvent DEF Good
<1>6. AllRowIds(res.out) = {} /\ EventsOf(res.out) = {ev} /\ ListGood(res.out, D, G)
  BY <1>4, <1>5, OneEvent
<1>7. SpansIn(EventsOf(res.out), G)
  BY <1>2, <1>3, <1>6 DEF SpansIn
<1>8. QED
  BY <1>2, <1>4, <1>6, <1>7 DEF Pumped

\* A failure is counted.
LEMMA RetriedGood ==
    ASSUME NEW s \in Nat, NEW q \in Seq(JobType(s)), q # <<>>, NEW res, Retried(res, q, s),
           NEW D, NEW G, JobsGood(q, D, G), Range(q) \subseteq G
    PROVE  AllRowIds(res.out) = {} /\ Pumped(res, D, D, G)
<1>1. PICK g \in JobType(s) : /\ g.first = q[1].first /\ g.last = q[1].last
                              /\ g.through = q[1].through
                              /\ Replaced(res.jobs, q, g, s) /\ res.out = <<>>
  BY DEF Retried
<1>2. Len(q) \in Nat /\ Len(q) >= 1 /\ \A k \in 1 .. Len(q) : Sound(q[k], D, G)
  BY TailSeq DEF JobsGood
<1>3. Sound(q[1], D, G) /\ \A k \in 2 .. Len(q) : Sound(q[k], D, G)
  BY <1>2
<1>4. Sound(g, D, G)
  BY <1>1, <1>3, SoundEvent
<1>5. JobsGood(res.jobs, D, G) /\ SpansIn(Range(res.jobs), G)
  BY <1>1, <1>3, <1>4, ReplacedJobs
<1>6. AllRowIds(res.out) = {} /\ EventsOf(res.out) = {} /\ ListGood(res.out, D, G)
  BY <1>1, EmptyLists
<1>7. QED
  BY <1>5, <1>6 DEF Pumped, SpansIn

\* The rows of a page come after the ids before them in every gap.
LEMMA PageNotEarly ==
    ASSUME NEW G, NatSpans(G), NEW h \in G, NEW D, Sound(h, D, G), NEW from \in Nat, h.first <= from,
           h.first .. (from - 1) \subseteq D, NEW n \in Nat, from + n - 1 <= h.last,
           NEW x \in G
    PROVE  NotEarly(x, D, D \cup (from .. (from + n - 1)))
<1> DEFINE E == D \cup (from .. (from + n - 1))
<1>1. ASSUME NEW j \in E \ D, Covers(x, j)
      PROVE  x.first .. j \subseteq E
  <2>1. j \in from .. (from + n - 1)
    BY <1>1
  <2>2. j \in Nat /\ from <= j /\ j <= h.last /\ h.last \in Nat
    BY <2>1 DEF NatSpans
  <2>3. x.first .. (j - 1) \subseteq D \cup (from .. (j - 1))
    BY <1>1, <2>2, FilledRows
  <2>4. from .. (j - 1) \subseteq E /\ j \in E
    BY <2>1
  <2>5. x.first \in Nat
    BY DEF NatSpans
  <2> HIDE DEF E
  <2>6. ASSUME NEW y \in x.first .. j
        PROVE  y \in E
    <3>1. y = j \/ y \in x.first .. (j - 1)
      BY <2>2, <2>5
    <3>2. D \subseteq E
      BY DEF E
    <3>3. QED
      BY <2>3, <2>4, <3>1, <3>2
  <2>7. QED
    BY <2>6
<1> HIDE DEF E
<1>2. NotEarly(x, D, E)
  BY <1>1 DEF NotEarly
<1>3. QED
  BY <1>2 DEF E

\* The ids of a gap before the first one needed are there.
LEMMA BeforeNeeded ==
    ASSUME NEW s \in Nat, NEW h \in JobType(s), NEW D, NEW G, Sound(h, D, G)
    PROVE  /\ NextNeeded(h) \in Nat \ {0} /\ h.first <= NextNeeded(h)
           /\ h.first .. (NextNeeded(h) - 1) \subseteq D
<1>1. h.first \in Nat \ {0} /\ h.through \in Nat /\ (h.through = 0 \/ h.through >= h.first)
  BY JobFields
<1>2. CASE h.through > 0
  <2>1. NextNeeded(h) = h.through + 1 /\ h.first .. h.through \subseteq D
    BY <1>2 DEF NextNeeded, Sound
  <2>2. (h.through + 1) - 1 = h.through
    BY <1>1
  <2>3. QED
    BY <1>1, <1>2, <2>1, <2>2
<1>3. CASE h.through = 0
  <2>1. NextNeeded(h) = h.first
    BY <1>3 DEF NextNeeded
  <2>2. QED
    BY <1>1, <2>1
<1>4. QED
  BY <1>1, <1>2, <1>3

\* A page moves a gap on: the rows come in order, and what is said of the gap after them.
LEMMA GainedGood ==
    ASSUME NEW s \in Nat, NEW q \in Seq(JobType(s)), q # <<>>, NEW res,
           NEW n \in Nat \ {0}, NEW g \in JobType(s), NEW status \in Statuses,
           Gained(res, q, s, n, g, status), NEW D, NEW G, NatSpans(G), JobsGood(q, D, G),
           Range(q) \subseteq G
    PROVE  LET E == D \cup AllRowIds(res.out)
           IN  /\ AllRowIds(res.out) = NextNeeded(q[1]) .. (NextNeeded(q[1]) + n - 1)
               /\ Pumped(res, D, E, G)
<1> DEFINE h == q[1]
           from == NextNeeded(h)
           u == res.out
           ev == GapEvent(g, status)
           e == Record(ev)
           top == from + n - 1
           E == D \cup (from .. top)
<1>1. JobsGood(Tail(q), D, G) /\ SpansIn(Range(Tail(q)), G) /\ Sound(h, D, G) /\ h \in G
  BY JobsGoodTail
<1>2. h \in JobType(s) /\ Len(q) \in Nat /\ Len(q) >= 1
  BY TailSeq
<1>3. from \in Nat \ {0} /\ h.first <= from /\ h.first .. (from - 1) \subseteq D
  BY <1>1, <1>2, BeforeNeeded
<1>4. /\ g.first = h.first /\ g.last = h.last /\ g.through = top /\ g.through <= g.last
      /\ u = RowsThen(from, n, e)
      /\ \/ status = "recovered" /\ g.through = g.last /\ res.jobs = Tail(q)
         \/ status = "partial" /\ Replaced(res.jobs, q, g, s)
  BY DEF Gained
<1>5. g.first \in Nat \ {0} /\ g.last \in Nat /\ g.last <= s /\ g.first <= g.last /\ n \in Nat
  BY JobFields
<1>6. e \in CommandType(s) /\ e.do = "event" /\ e.event = ev
  BY GapEventTyped DEF Record
<1>7. /\ ev.first = g.first /\ ev.last = g.last /\ ev.through = g.through /\ ev.status = status
  BY DEF GapEvent
<1>8. top <= h.last /\ top <= s /\ top \in Nat
  BY <1>3, <1>4, <1>5
<1> HIDE DEF ev, e, h, u, from
<1>9. HasRowsThen(u, s, from, n, e)
  <2>1. from + n - 1 <= s
    BY <1>8
  <2>2. QED
    BY <1>3, <1>4, <1>6, <2>1, RowsThenIs
<1>10. /\ \A k \in 1 .. n + 1 : RowIds(u, k) = from .. (from + k - 2)
       /\ AllRowIds(u) = from .. top
       /\ EventsOf(u) = {ev}
  <2>1. /\ \A k \in 1 .. n + 1 : RowIds(u, k) = from .. (from + k - 2)
        /\ AllRowIds(u) = from .. (from + n - 1)
        /\ EventsOf(u) = {e.event}
    BY <1>3, <1>5, <1>6, <1>9, PageRowIds
  <2>2. QED
    BY <1>6, <2>1
<1>11. \A x \in G : NotEarly(x, D, E)
  BY <1>1, <1>3, <1>8, PageNotEarly
<1> HIDE DEF top, E
<1>12. D \subseteq E /\ SpansIn(G, G)
  BY DEF E, SpansIn
<1>13. ASSUME NEW k \in 1 .. Len(q)
       PROVE  Sound(q[k], E, G)
  <2>1. q[k] \in G /\ Sound(q[k], D, G)
    BY <1>2 DEF Range, JobsGood
  <2>2. QED
    BY <1>11, <1>12, <2>1, SoundMore
<1>14. Sound(g, E, G)
  <2>1. Sound(h, E, G)
    BY <1>2, <1>13 DEF h
  <2>2. g.first .. g.through \subseteq E
    <3>1. ASSUME NEW y \in g.first .. g.through
          PROVE  y \in E
      <4>1. y \in h.first .. (from - 1) \/ y \in from .. top
        BY <1>3, <1>4, <1>5, <1>8
      <4>2. QED
        BY <1>3, <4>1 DEF E
    <3>2. QED
      BY <3>1
  <2>3. /\ \E j \in E : j >= g.first - 1
        /\ \A j \in E : Covers(g, j) => g.first .. j \subseteq E \/ \E i \in E : i > g.last
        /\ \A x \in G : x.first < g.first /\ g.first <= x.last => x.first .. (g.first - 1) \subseteq E
    BY <1>4, <2>1 DEF Sound, Covers
  <2>4. QED
    BY <2>2, <2>3 DEF Sound
<1>15. Good(ev, E, G)
  <2>1. Sound(ev, E, G)
    BY <1>7, <1>14, SoundEvent
  <2>2. status = "recovered" => g.first .. g.last \subseteq E
    <3>1. status = "recovered" => g.through = g.last /\ g.through > 0
      BY <1>4, <1>5
    <3>2. g.through > 0 => g.first .. g.through \subseteq E
      BY <1>14 DEF Sound
    <3>3. QED
      BY <3>1, <3>2
  <2>3. QED
    BY <1>7, <2>1, <2>2 DEF Good
<1>16. ListGood(u, D, G)
  <2>1. Len(u) = n + 1 /\ u[n + 1] = e /\ \A k \in 1 .. n : u[k] = Row(from + k - 1, TRUE)
    BY <1>9 DEF HasRowsThen
  <2>2. ASSUME NEW k \in 1 .. n
        PROVE  CommandGood(u[k], D \cup RowIds(u, k), G)
    <3> DEFINE i == from + k - 1
               L == D \cup RowIds(u, k)
    <3>1. i \in Nat /\ from <= i /\ i <= h.last /\ i - 1 = from + k - 2 /\ k \in 1 .. n + 1
      BY <1>3, <1>4, <1>5, <1>8 DEF top
    <3>2. L = D \cup (from .. (i - 1))
      BY <1>10, <3>1
    <3>3. u[k] = Row(i, TRUE)
      BY <2>1
    <3> HIDE DEF i, L
    <3>4. ASSUME NEW x \in G, Covers(x, i)
          PROVE  x.first .. (i - 1) \subseteq L
      BY <1>1, <1>3, <3>1, <3>2, <3>4, FilledRows
    <3>5. Row(i, TRUE).do = "row" /\ Row(i, TRUE).id = i
      BY DEF Row
    <3>6. CommandGood(u[k], L, G)
      BY <3>3, <3>4, <3>5 DEF Fits, CommandGood
    <3>7. QED
      BY <3>6 DEF L
  <2>3. CommandGood(u[n + 1], D \cup RowIds(u, n + 1), G)
    <3>1. n + 1 \in 1 .. n + 1 /\ from + (n + 1) - 2 = from + n - 1
      BY <1>3
    <3>2. RowIds(u, n + 1) = from .. top
      BY <1>10, <3>1 DEF top
    <3>3. CommandGood(e, E, G)
      BY <1>6, <1>15 DEF CommandGood
    <3>4. QED
      BY <2>1, <3>2, <3>3 DEF E
  <2>4. ASSUME NEW k \in 1 .. n + 1
        PROVE  CommandGood(u[k], D \cup RowIds(u, k), G)
    <3>1. k \in 1 .. n \/ k = n + 1
      OBVIOUS
    <3>2. QED
      BY <2>2, <2>3, <3>1
  <2>5. QED
    BY <2>1, <2>4 DEF ListGood
<1>17. JobsGood(res.jobs, E, G) /\ SpansIn(Range(res.jobs), G)
  <2>1. CASE res.jobs = Tail(q)
    <3>1. JobsGood(q, E, G)
      BY <1>13 DEF JobsGood
    <3>2. QED
      BY <2>1, <3>1, JobsGoodTail
  <2>2. CASE Replaced(res.jobs, q, g, s)
    <3>1. g.first = q[1].first /\ g.last = q[1].last
      BY <1>4 DEF h
    <3>2. \A k \in 2 .. Len(q) : Sound(q[k], E, G)
      BY <1>13
    <3>3. QED
      BY <1>14, <2>2, <3>1, <3>2, ReplacedJobs
  <2>3. QED
    BY <1>4, <2>1, <2>2
<1>18. SpansIn(EventsOf(u), G)
  BY <1>1, <1>4, <1>7, <1>10 DEF SpansIn
<1>19. E = D \cup AllRowIds(u)
  BY <1>10 DEF E
<1>20. Pumped(res, D, E, G)
  BY <1>16, <1>17, <1>18, <1>19 DEF Pumped, u
<1>21. QED
  BY <1>10, <1>19, <1>20 DEF u, from, h, top

\* The tracker with the rows of a page.
LEMMA PageTracker ==
    ASSUME NEW s \in Nat, NEW q \in Seq(JobType(s)), q # <<>>, NEW D, NEW G, NatSpans(G),
           Range(q) \subseteq G, JobsGood(q, D, G), NEW n \in Nat, NextNeeded(q[1]) + n - 1 <= q[1].last,
           NEW m \in Nat, TrackerGood(m, D, G)
    PROVE  TrackerGood(m, D \cup (NextNeeded(q[1]) .. (NextNeeded(q[1]) + n - 1)), G)
<1> DEFINE h == q[1]
           from == NextNeeded(h)
           top == from + n - 1
           E == D \cup (from .. top)
<1>1. Sound(h, D, G) /\ h \in G
  BY JobsGoodTail
<1>2. h \in JobType(s)
  BY TailSeq
<1>3. from \in Nat \ {0} /\ h.first <= from /\ h.first .. (from - 1) \subseteq D
  BY <1>1, <1>2, BeforeNeeded
<1>4. h.first \in Nat \ {0} /\ h.last \in Nat /\ top <= h.last
  BY <1>2, JobFields
<1> HIDE DEF h, from
<1>5. top \in Int
  BY <1>3
<1> HIDE DEF top
<1>6. ASSUME m > 0, NEW j \in E, j > m
      PROVE  m + 1 .. j \subseteq E
  <2>1. CASE j \in D
    <3>1. m + 1 .. j \subseteq D
      BY <1>6, <2>1 DEF TrackerGood
    <3>2. QED
      BY <3>1
  <2>2. CASE j \in from .. top
    <3>1. h.first <= m + 1
      BY <1>1, <1>6 DEF TrackerGood
    <3>2. ASSUME NEW y \in m + 1 .. j
          PROVE  y \in E
      <4>1. y \in h.first .. (from - 1) \/ y \in from .. top
        BY <1>3, <1>4, <1>5, <2>2, <3>1
      <4>2. QED
        BY <1>3, <4>1
    <3>3. QED
      BY <3>2
  <2>3. QED
    BY <2>1, <2>2
<1> HIDE DEF E
<1>7. D \subseteq E
  BY DEF E
<1>8. TrackerGood(m, E, G)
  <2>1. ASSUME m > 0
        PROVE  /\ \E j \in E : j >= m
               /\ \A g \in G : g.first <= m + 1 /\ (m <= g.last => g.first .. m \subseteq E)
    BY <1>7, <2>1 DEF TrackerGood
  <2>2. QED
    BY <1>6, <2>1 DEF TrackerGood
<1>9. QED
  BY <1>8 DEF E, top, from, h

\* What a page does leaves everything good.
LEMMA OutcomeGood ==
    ASSUME NEW s \in Nat, NEW q \in Seq(JobType(s)), q # <<>>, NEW res, Outcome(res, q, s),
           NEW D, NEW G, NatSpans(G), JobsGood(q, D, G), Range(q) \subseteq G,
           NEW m \in Nat, TrackerGood(m, D, G)
    PROVE  LET E == D \cup AllRowIds(res.out)
           IN  Pumped(res, D, E, G) /\ TrackerGood(m, E, G)
<1> DEFINE E == D \cup AllRowIds(res.out)
<1>1. ASSUME AllRowIds(res.out) = {}, Pumped(res, D, D, G)
      PROVE  Pumped(res, D, E, G) /\ TrackerGood(m, E, G)
  <2>1. E = D
    BY <1>1
  <2>2. QED
    BY <1>1, <2>1
<1>2. ASSUME NEW n \in Nat \ {0}, NEW g \in JobType(s), NEW status \in Statuses,
             Gained(res, q, s, n, g, status)
      PROVE  Pumped(res, D, E, G) /\ TrackerGood(m, E, G)
  <2> DEFINE from == NextNeeded(q[1])
  <2>1. AllRowIds(res.out) = from .. (from + n - 1) /\ Pumped(res, D, E, G)
    BY <1>2, GainedGood
  <2>2. from + n - 1 <= q[1].last /\ n \in Nat
    BY <1>2 DEF Gained
  <2>3. TrackerGood(m, D \cup (from .. (from + n - 1)), G)
    BY <2>2, PageTracker
  <2>4. QED
    BY <2>1, <2>3
<1>3. QED
  BY <1>1, <1>2, GivenUpGood, RetriedGood DEF Outcome

\* The gaps closed without a request: one that is called recovered is.
LEMMA SettleGood ==
    ASSUME NEW s \in Nat, NEW q \in Seq(JobType(s)), NEW D, NEW G, NatSpans(G), JobsGood(q, D, G),
           SpansIn(Range(q), G)
    PROVE  AllRowIds(Settle(q).out) = {} /\ Pumped(Settle(q), D, D, G)
<1> DEFINE Ev(k) == GapEvent(q[k], IF OutOfReach(q[k]) THEN "unrecoverable" ELSE "recovered")
           o == Settle(q).out
           u == Settle(q).jobs
<1>1. PICK n : Settles(q, n)
  BY SettleIs
<1>2. /\ n \in 0 .. Len(q) /\ Len(q) \in Nat /\ DOMAIN q = 1 .. Len(q)
      /\ \A k \in 1 .. n : NeedsNoRequest(q[k])
      /\ o = [k \in 1 .. n |-> Record(Ev(k))] /\ u = SubSeq(q, n + 1, Len(q))
  BY <1>1 DEF Settles
<1>3. DOMAIN o = 1 .. n /\ Len(o) = n /\ \A k \in 1 .. n : o[k] = Record(Ev(k))
  <2>1. DOMAIN o = 1 .. n /\ \A k \in 1 .. n : o[k] = Record(Ev(k))
    BY <1>2
  <2>2. Outs(o, s)
    BY SettleTyped
  <2> HIDE DEF o
  <2>3. Len(o) = n
    BY <1>2, <2>1, <2>2 DEF Outs
  <2>4. QED
    BY <2>1, <2>3
<1>4. u \in Seq(JobType(s)) /\ Len(u) = Len(q) - n /\ \A k \in 1 .. Len(q) - n : u[k] = q[n + k]
  <2> DEFINE v == SubSeq(q, n + 1, Len(q))
  <2>1. v \in Seq(JobType(s)) /\ Len(v) = Len(q) - n /\ \A k \in 1 .. Len(q) - n : v[k] = q[n + k]
    BY <1>2, SuffixSeq
  <2>2. u = v
    BY <1>2
  <2> HIDE DEF u, v
  <2>3. QED
    BY <2>1, <2>2
<1>5. ASSUME NEW k \in 1 .. Len(q)
      PROVE  /\ q[k] \in JobType(s) /\ Sound(q[k], D, G)
             /\ \E x \in G : q[k].first = x.first /\ q[k].last = x.last
  <2>1. q[k] \in JobType(s) /\ q[k] \in Range(q)
    BY <1>2, ElementSeq DEF Range
  <2>2. QED
    BY <1>2, <2>1 DEF JobsGood, SpansIn
<1> HIDE DEF o, u
<1>6. ASSUME NEW k \in 1 .. n
      PROVE  /\ Good(Ev(k), D, G) /\ o[k].do = "event" /\ o[k].event = Ev(k)
             /\ \E x \in G : Ev(k).first = x.first /\ Ev(k).last = x.last
  <2> DEFINE h == q[k]
             ev == Ev(k)
  <2>1. k \in 1 .. Len(q)
    BY <1>2
  <2>2. h \in JobType(s) /\ Sound(h, D, G)
    BY <1>5, <2>1
  <2>3. /\ ev.first = h.first /\ ev.last = h.last /\ ev.through = h.through
        /\ ev.status = "recovered" => ~ OutOfReach(h)
    BY DEF GapEvent
  <2>4. ev.status = "recovered" => NextNeeded(h) > h.last
    BY <1>2, <2>3 DEF NeedsNoRequest
  <2>5. /\ NextNeeded(h) \in Nat \ {0} /\ h.first <= NextNeeded(h)
        /\ h.first .. (NextNeeded(h) - 1) \subseteq D
        /\ h.first \in Nat /\ h.last \in Nat
    BY <2>2, BeforeNeeded, JobFields
  <2> HIDE DEF ev, h
  <2>6. ev.status = "recovered" => ev.first .. ev.last \subseteq D
    <3>1. NextNeeded(h) > h.last => h.first .. h.last \subseteq h.first .. (NextNeeded(h) - 1)
      BY <2>5
    <3>2. QED
      BY <2>3, <2>4, <2>5, <3>1
  <2>7. Good(ev, D, G)
    BY <2>2, <2>3, <2>6, SoundEvent DEF Good
  <2>8. o[k].do = "event" /\ o[k].event = ev
    BY <1>3 DEF Record, ev
  <2>9. \E x \in G : ev.first = x.first /\ ev.last = x.last
    BY <1>5, <2>1, <2>3 DEF h
  <2>10. QED
    BY <2>7, <2>8, <2>9 DEF ev
<1>7. \A k \in Nat : k <= n + 1 => RowIds(o, k) = {}
  <2>1. ASSUME NEW k \in Nat, k <= n + 1
        PROVE  RowIds(o, k) = {}
    <3>1. ASSUME NEW m \in 1 .. k - 1
          PROVE  o[m].do # "row"
      <4>1. m \in 1 .. n
        BY <1>2, <2>1
      <4>2. o[m].do = "event"
        BY <1>6, <4>1
      <4>3. QED
        BY <4>2
    <3>2. QED
      BY <3>1 DEF RowIds
  <2>2. QED
    BY <2>1
<1>8. AllRowIds(o) = {}
  BY <1>2, <1>3, <1>7 DEF AllRowIds
<1>9. ListGood(o, D, G)
  <2>1. ASSUME NEW k \in 1 .. n
        PROVE  CommandGood(o[k], D \cup RowIds(o, k), G)
    <3>1. RowIds(o, k) = {}
      BY <1>2, <1>7
    <3>2. D \cup RowIds(o, k) = D
      BY <3>1
    <3>3. o[k].do # "row" /\ Good(o[k].event, D, G)
      BY <1>6
    <3>4. CommandGood(o[k], D, G)
      BY <3>3 DEF CommandGood
    <3>5. QED
      BY <3>2, <3>4
  <2>2. QED
    BY <1>3, <2>1 DEF ListGood
<1>10. SpansIn(EventsOf(o), G)
  <2>1. \A d \in Range(o) : \E k \in 1 .. n : d = o[k]
    BY <1>3 DEF Range
  <2>2. QED
    BY <1>6, <2>1 DEF EventsOf, SpansIn
<1>11. JobsGood(u, D, G) /\ SpansIn(Range(u), G)
  <2>1. ASSUME NEW k \in 1 .. Len(u)
        PROVE  Sound(u[k], D, G) /\ \E x \in G : u[k].first = x.first /\ u[k].last = x.last
    <3>1. k \in 1 .. Len(q) - n
      BY <1>4
    <3>2. u[k] = q[n + k]
      BY <1>4, <3>1
    <3>3. n + k \in 1 .. Len(q)
      BY <1>2, <3>1
    <3>4. QED
      BY <1>5, <3>2, <3>3
  <2>2. DOMAIN u = 1 .. Len(u)
    BY <1>4
  <2>3. QED
    BY <2>1, <2>2 DEF JobsGood, SpansIn, Range
<1>12. QED
  BY <1>8, <1>9, <1>10, <1>11 DEF Pumped, o, u

\* The answer is used.
LEMMA TakenGood ==
    ASSUME TypedInv, NEW D, NEW G, NatSpans(G), JobsGood(jobs, D, G), Range(jobs) \subseteq G,
           TrackerGood(last, D, G)
    PROVE  LET E == D \cup AllRowIds(Taken.out)
           IN  Pumped(Taken, D, E, G) /\ TrackerGood(last, E, G)
<1> DEFINE E == D \cup AllRowIds(Taken.out)
<1>1. sent \in Nat /\ last \in Nat /\ jobs \in Seq(JobType(sent))
  BY TradeConstants DEF TypedInv
<1>2. CASE fetch.st = "page"
  <2>1. jobs # <<>>
    BY <1>2 DEF TypedInv, AnswerFitsGap
  <2>2. Outcome(Taken, jobs, sent)
    BY <1>1, <1>2, <2>1, PageOutcome DEF Taken
  <2>3. QED
    BY <1>1, <2>1, <2>2, OutcomeGood
<1>3. CASE fetch.st # "page"
  <2>1. Taken.out = <<>> /\ Taken.jobs = jobs
    BY <1>3 DEF Taken
  <2>2. AllRowIds(Taken.out) = {} /\ EventsOf(Taken.out) = {} /\ ListGood(Taken.out, D, G)
    BY <2>1, EmptyLists
  <2>3. E = D /\ SpansIn(Range(jobs), G) /\ SpansIn({}, G)
    BY <2>2 DEF SpansIn
  <2>4. Pumped(Taken, D, D, G)
    BY <2>1, <2>2, <2>3 DEF Pumped
  <2>5. QED
    BY <2>3, <2>4
<1>4. QED
  BY <1>2, <1>3

\* Gaps that need no request are closed.
LEMMA SettledGood ==
    ASSUME TypedInv, NEW D, NEW G, NatSpans(G), JobsGood(Taken.jobs, D, G),
           SpansIn(Range(Taken.jobs), G)
    PROVE  AllRowIds(Settled.out) = {} /\ Pumped(Settled, D, D, G)
<1>1. sent \in Nat /\ Taken.jobs \in Seq(JobType(sent))
  BY TakenTyped, TradeConstants DEF TypedInv
<1>2. CASE fetch.st = "asked"
  <2>1. Settled.out = <<>> /\ Settled.jobs = Taken.jobs
    <3>1. fetch.st # "page"
      BY <1>2
    <3>2. QED
      BY <1>2, <3>1 DEF Settled, Taken
  <2>2. AllRowIds(Settled.out) = {} /\ EventsOf(Settled.out) = {} /\ ListGood(Settled.out, D, G)
    BY <2>1, EmptyLists
  <2>3. QED
    BY <2>1, <2>2 DEF Pumped, SpansIn
<1>3. CASE fetch.st # "asked"
  <2>1. Settled = Settle(Taken.jobs)
    BY <1>3 DEF Settled
  <2>2. QED
    BY <1>1, <2>1, SettleGood
<1>4. QED
  BY <1>2, <1>3

\* The pump alone is left to do when it runs.
LEMMA PumpAlone ==
    ASSUME TypedInv, todo # <<>>, Head(todo).do = "pump"
    PROVE  AllRowIds(todo) = {} /\ EventsOf(todo) = {}
<1>1. todo \in Seq(CommandType(sent)) /\ Ordered(todo)
  BY DEF TypedInv
<1>2. 1 \in 1 .. Len(todo) /\ todo[1].do = "pump"
  BY <1>1, TailSeq
<1>3. Len(todo) = 1
  BY <1>1, <1>2 DEF Ordered
<1>4. todo[1].do # "row" /\ todo[1].do # "event"
  BY <1>2
<1>5. RowIds(todo, 2) = {}
  BY <1>4, FirstRowId
<1>6. AllRowIds(todo) = {}
  <2>1. Len(todo) + 1 = 2
    BY <1>3
  <2>2. QED
    BY <1>5, <2>1 DEF AllRowIds
<1>7. DOMAIN todo = 1 .. 1
  BY <1>1, <1>3
<1>8. EventsOf(todo) = {}
  BY <1>4, <1>7 DEF EventsOf, Range
<1>9. QED
  BY <1>6, <1>8

\* The pump.
LEMMA PumpProgress ==
    ASSUME ProgressInv, NEW granted \in BOOLEAN, PumpBackfill(granted)
    PROVE  ProgressInv'
<1> DEFINE D == Delivered
           G == AllGaps
           H == AllGaps'
           a == Taken.out
           b == Settled.out
           E == D \cup AllRowIds(a)
<1>1. TypedInv /\ TypedInv'
  BY PumpTyped DEF ProgressInv
<1>2. /\ todo # <<>> /\ Head(todo).do = "pump" /\ jobs' = Settled.jobs /\ todo' = a \o b
      /\ UNCHANGED <<last, events, chan, logged, gaps>>
  BY PumpParts DEF tp
<1>3. AllRowIds(todo) = {} /\ EventsOf(todo) = {}
  BY <1>1, <1>2, PumpAlone
<1>4. OnTheWay = D /\ Delivered' = D /\ TpNow' = TpNow
  BY <1>2, <1>3 DEF OnTheWay, Delivered, TpNow
<1>5. /\ TpGood(TpNow, chan, 0, G) /\ EventsGood(events, D, G) /\ JobsGood(jobs, D, G)
      /\ TrackerGood(last, D, G)
  BY <1>4 DEF ProgressInv
<1>6. NatSpans(G) /\ G = gaps \cup Range(events) \cup EventsOf(todo) \cup Range(jobs)
  BY <1>1, AllGapsNat, AllGapsAre
<1>7. H = gaps \cup Range(events) \cup EventsOf(todo') \cup Range(jobs')
  BY <1>2 DEF AllGaps, Held, EventsOf
<1>8. a \in Seq(CommandType(sent)) /\ b \in Seq(CommandType(sent))
  BY <1>1, TakenTyped, SettledTyped DEF Outs
<1> HIDE DEF D, G, H
<1>9. Pumped(Taken, D, E, G) /\ TrackerGood(last, E, G)
  BY <1>1, <1>5, <1>6, TakenGood
<1>10. /\ ListGood(a, D, G) /\ JobsGood(Taken.jobs, E, G) /\ SpansIn(EventsOf(a), G)
       /\ SpansIn(Range(Taken.jobs), G)
  BY <1>9 DEF Pumped
<1>11. AllRowIds(b) = {} /\ Pumped(Settled, E, E, G)
  BY <1>1, <1>6, <1>10, SettledGood
<1>12. /\ ListGood(b, E, G) /\ JobsGood(jobs', E, G) /\ SpansIn(EventsOf(b), G)
       /\ SpansIn(Range(jobs'), G)
  BY <1>2, <1>11 DEF Pumped
<1>13. /\ ListGood(a \o b, D, G) /\ AllRowIds(a \o b) = AllRowIds(a) \cup AllRowIds(b)
       /\ EventsOf(a \o b) = EventsOf(a) \cup EventsOf(b)
  <2>1. ListGood(b, D \cup AllRowIds(a), G)
    BY <1>12
  <2> HIDE DEF E, a, b
  <2>2. QED
    BY <1>8, <1>10, <2>1, ConcatGood
<1>14. /\ ListGood(todo', D, G) /\ AllRowIds(todo') = AllRowIds(a)
       /\ EventsOf(todo') = EventsOf(a) \cup EventsOf(b)
  BY <1>2, <1>11, <1>13
<1>15. OnTheWay' = E
  BY <1>4, <1>14 DEF OnTheWay
<1>16. SpansIn(H, G)
  BY <1>6, <1>7, <1>10, <1>12, <1>14 DEF SpansIn
<1> HIDE DEF E, a, b
<1>17. TpGood(TpNow, chan, 0, H)
  BY <1>5, <1>16, TpGoodFewer
<1>18. EventsGood(events, D, H) /\ JobsGood(jobs', E, H)
  BY <1>5, <1>12, <1>16, QueuesGoodFewer
<1>19. ListGood(todo', D, H)
  BY <1>14, <1>16, ListGoodFewer
<1>20. TrackerGood(last, E, H)
  BY <1>9, <1>16, TrackerGoodFewer
<1>21. QED
  BY <1>1, <1>2, <1>4, <1>15, <1>17, <1>18, <1>19, <1>20 DEF ProgressInv, H

-----------------------------------------------------------------------------
(* The invariant *)

\* Nothing is logged, known or under way at first.
LEMMA ProgressInit ==
    ASSUME Init
    PROVE  ProgressInv
<1>1. TypedInv
  BY TypedInit
<1>2. Nothing /\ gaps = {} /\ last = 0 /\ logged = [i \in Ids |-> 0]
  BY DEF Init, Nothing
<1>3. AllGaps = {}
  BY <1>2, OnlyTheLog
<1>4. Len(chan) = 0
  BY <1>2 DEF Nothing
<1>5. TpGood(TpNow, chan, 0, AllGaps)
  BY <1>2, <1>4 DEF TpGood, TpNow
<1>6. /\ EventsGood(events, Delivered, AllGaps) /\ ListGood(todo, Delivered, AllGaps)
      /\ JobsGood(jobs, OnTheWay, AllGaps)
  BY <1>2, EmptyLists DEF Nothing
<1>7. TrackerGood(last, OnTheWay, AllGaps)
  BY <1>2 DEF TrackerGood
<1>8. QED
  BY <1>1, <1>5, <1>6, <1>7 DEF ProgressInv

\* Every step keeps it.
LEMMA ProgressNext ==
    ASSUME ProgressInv, [Next]_vars
    PROVE  ProgressInv'
<1>1. CASE UNCHANGED vars
  <2>1. TypedInv'
    BY <1>1, TypedNext DEF ProgressInv
  <2>2. UNCHANGED <<last, jobs, events, todo, chan, logged, gaps>>
    BY <1>1 DEF vars, handler, tp
  <2>3. QED
    BY <2>1, <2>2, ProgressSame
<1>2. ASSUME NEW granted \in BOOLEAN, PumpBackfill(granted)
      PROVE  ProgressInv'
  BY <1>2, PumpProgress
<1>3. QED
  BY <1>1, <1>2, TpLogsProgress, StartProgress, StartBlindProgress, KilledProgress, ReadProgress,
     ReadOldProgress, ReadUnreadableProgress, ReadOtherProgress, MissedProgress,
     PublishRowProgress, RecordGapProgress, EventAckedProgress, EventUnackedProgress,
     EventRejectedProgress, BreakProgress, WorkerFetchesProgress
     DEF Next

\* ProgressInv always holds, whatever the constants, faults and kills.
THEOREM ProgressSafe == Spec => []ProgressInv
<1>1. Init => ProgressInv
  BY ProgressInit
<1>2. ProgressInv /\ [Next]_vars => ProgressInv'
  BY ProgressNext
<1>3. QED
  BY <1>1, <1>2, PTL DEF Spec

\* What TP says of a gap's progress is in its log, also across kills at any moment:
\* the rows of a page are published before their event, on the same connection, and
\* a row moves a gap on only after the ids before it (TradeBackfill::onPage,
\* trade_backfill.hpp:284-323; TP takes the progress from the rows, tp.q:393-399).
THEOREM RecoveredSafe == Spec => []RecoveredIsLogged
<1>1. ProgressInv => RecoveredIsLogged
  BY DEF ProgressInv, TpGood, Good, Sound, TpNow, RecoveredIsLogged
<1>2. QED
  BY <1>1, ProgressSafe, PTL

-----------------------------------------------------------------------------
(***************************************************************************)
(* Accounts.  Ids below one that is on its way to TP are on the way before *)
(* it or accounted for: in a gap that TP knows, in the news of a gap, or   *)
(* excused.  News die with the handler, so what of the log they account    *)
(* for has to be clear before a kill: no id in or behind a gap of which    *)
(* TP has not heard is delivered before one behind all of the gap is.      *)
(***************************************************************************)

\* Events that tell TP of a gap it has not heard of.
News == {g \in Held : g.status = "detected"}

CoveredBy(G) == {i \in Ids : \E g \in G : Covers(g, i)}

Accounted == CoveredBy(gaps) \cup CoveredBy(News) \cup blind \cup dropped

\* The id i comes after the ids L, with X accounted for and the news N under way.
Follows(i, L, X, N) ==
    /\ 1 .. i - 1 \subseteq L \cup X
    /\ \A e \in N : e.first <= i => \E j \in L \cup {i} : e.last < j

LogFollows(L, X, N) == \A j \in L : Follows(j, L, X, N)

ChanFollows(q, L, X, N) ==
    \A k \in 1 .. Len(q) : Follows(q[k].id, L \cup ChanIds(q, 0, k - 1), X, N)

\* News are sent before any id in or behind their gap.
CommandFollows(c, L, X, N) ==
    /\ c.do = "row" /\ c.id > 0 => Follows(c.id, L, X, N)
    /\ c.do = "event" /\ c.event.status = "detected" => \A i \in L : i < c.event.first

ListFollows(td, D, X, N) ==
    \A k \in 1 .. Len(td) : CommandFollows(td[k], D \cup RowIds(td, k), X, N)

\* The log, the channel and the commands, one after the other.
Chain(L, q, td, X, N) ==
    /\ LogFollows(L, X, N)
    /\ ChanFollows(q, L, X, N)
    /\ ListFollows(td, L \cup ChanIds(q, 0, Len(q)), X, N)

\* An id behind the gap is on the way.
NewsPassed(N, A) == \A e \in N : \E i \in A : e.last < i

\* Up to the tracker's id m all is accounted for, and nothing is beyond it.
TrackerCovers(m, A, X) == m > 0 => 1 .. m \subseteq A \cup X /\ \A i \in A : i <= m

\* The gaps in the handler's memory.
Mine == Held \cup Range(jobs)

\* No record of a gap is larger than the handler's.
NotLarger(G, H) == \A g \in G : \A h \in H : g.first = h.first => g.last <= h.last

AccountInv ==
    /\ ProgressInv
    /\ Chain(LoggedIds(logged), chan, todo, Accounted, News)
    /\ NewsPassed(News, OnTheWay)
    /\ TrackerCovers(last, OnTheWay, Accounted)
    /\ last = 0 => OnTheWay \subseteq LoggedIds(logged)
    /\ \A h \in Mine : h.last <= last
    /\ NotLarger(AllGaps, Mine)
    /\ ~up => last = 0 /\ \A g \in OpenGaps : g.last <= LastId

-----------------------------------------------------------------------------
(* The order of the ids *)

\* More ids before it, more accounted for, and less news.
LEMMA FollowsMore ==
    ASSUME NEW L, NEW M, L \subseteq M, NEW X, NEW Y, X \subseteq Y, NEW N, NEW P, P \subseteq N,
           NEW i, Follows(i, L, X, N)
    PROVE  Follows(i, M, Y, P)
BY DEF Follows

\* The same of the log, the channel and the commands.
LEMMA ChainMore ==
    ASSUME NEW L, NEW X, NEW Y, X \subseteq Y, NEW N, NEW P, P \subseteq N, NEW q, NEW td,
           Chain(L, q, td, X, N)
    PROVE  Chain(L, q, td, Y, P)
<1>1. LogFollows(L, Y, P)
  BY FollowsMore DEF Chain, LogFollows
<1>2. ChanFollows(q, L, Y, P)
  <2>1. ASSUME NEW k \in 1 .. Len(q)
        PROVE  Follows(q[k].id, L \cup ChanIds(q, 0, k - 1), Y, P)
    <3>1. Follows(q[k].id, L \cup ChanIds(q, 0, k - 1), X, N)
      BY DEF Chain, ChanFollows
    <3>2. QED
      BY <3>1, FollowsMore
  <2>2. QED
    BY <2>1 DEF ChanFollows
<1>3. ASSUME NEW D, ListFollows(td, D, X, N)
      PROVE  ListFollows(td, D, Y, P)
  <2>1. ASSUME NEW k \in 1 .. Len(td)
        PROVE  CommandFollows(td[k], D \cup RowIds(td, k), Y, P)
    <3>1. CommandFollows(td[k], D \cup RowIds(td, k), X, N)
      BY <1>3 DEF ListFollows
    <3>2. QED
      BY <3>1, FollowsMore DEF CommandFollows
  <2>2. QED
    BY <2>1 DEF ListFollows
<1>4. QED
  BY <1>1, <1>2, <1>3 DEF Chain

\* Rows of the channel are logged.
LEMMA PrefixFollows ==
    ASSUME NEW L, NEW q, Len(q) \in Nat, NEW n \in 0 .. Len(q), NEW X, NEW N, LogFollows(L, X, N),
           ChanFollows(q, L, X, N)
    PROVE  LogFollows(L \cup ChanIds(q, 0, n), X, N)
<1> DEFINE M == L \cup ChanIds(q, 0, n)
<1>1. ASSUME NEW j \in L
      PROVE  Follows(j, M, X, N)
  <2>1. Follows(j, L, X, N)
    BY DEF LogFollows
  <2>2. QED
    BY <2>1, FollowsMore
<1>2. ASSUME NEW k \in 0 + 1 .. n
      PROVE  Follows(q[k].id, M, X, N)
  <2>1. k \in 1 .. Len(q)
    OBVIOUS
  <2>2. Follows(q[k].id, L \cup ChanIds(q, 0, k - 1), X, N)
    BY <2>1 DEF ChanFollows
  <2>3. ChanIds(q, 0, k - 1) \subseteq ChanIds(q, 0, n)
    BY DEF ChanIds
  <2>4. QED
    BY <2>2, <2>3, FollowsMore
<1>3. \A j \in ChanIds(q, 0, n) : Follows(j, M, X, N)
  <2> HIDE DEF M
  <2>1. QED
    BY <1>2 DEF ChanIds
<1>4. QED
  BY <1>1, <1>3 DEF LogFollows

\* The first row of the channel is logged.
LEMMA ChanFollowsTail ==
    ASSUME NEW T, NEW q \in Seq(T), q # <<>>, NEW L, NEW X, NEW N, ChanFollows(q, L, X, N)
    PROVE  ChanFollows(Tail(q), L \cup {q[1].id}, X, N)
<1> DEFINE w == Tail(q)
           n == Len(q)
           M == L \cup {q[1].id}
<1>1. n \in Nat /\ Len(w) = n - 1 /\ \A i \in 1 .. n - 1 : w[i] = q[i + 1]
  BY TailSeq
<1>2. ASSUME NEW k \in 1 .. n - 1
      PROVE  Follows(w[k].id, M \cup ChanIds(w, 0, k - 1), X, N)
  <2>1. k + 1 \in 1 .. n /\ (k + 1) - 1 = k /\ k - 1 \in 0 .. n - 1 /\ (k - 1) + 1 = k /\ k >= 1
    <3> HIDE DEF n
    <3>1. QED
      BY <1>1
  <2>2. Follows(q[k + 1].id, L \cup ChanIds(q, 0, k), X, N)
    BY <2>1 DEF ChanFollows
  <2>3. ChanIds(w, 0, k - 1) = ChanIds(q, 1, k)
    BY <2>1, ChanTail
  <2>4. ChanIds(q, 0, k) = {q[1].id} \cup ChanIds(q, 1, k)
    <3> HIDE DEF n
    <3>1. k \in Nat
      BY <1>1
    <3>2. QED
      BY <2>1, <3>1 DEF ChanIds
  <2>5. L \cup ChanIds(q, 0, k) = M \cup ChanIds(w, 0, k - 1)
    BY <2>3, <2>4
  <2>6. w[k] = q[k + 1]
    BY <1>1
  <2> HIDE DEF w, M
  <2>7. QED
    BY <2>2, <2>5, <2>6
<1> HIDE DEF w, n, M
<1>3. ChanFollows(w, M, X, N)
  BY <1>1, <1>2 DEF ChanFollows
<1>4. QED
  BY <1>3 DEF w, M

\* A row is put into the channel.
LEMMA ChanFollowsAppend ==
    ASSUME NEW T, NEW q \in Seq(T), NEW c \in T, NEW L, NEW X, NEW N, ChanFollows(q, L, X, N),
           Follows(c.id, L \cup ChanIds(q, 0, Len(q)), X, N), NEW w, w = Append(q, c)
    PROVE  ChanFollows(w, L, X, N) /\ ChanIds(w, 0, Len(w)) = ChanIds(q, 0, Len(q)) \cup {c.id}
<1> DEFINE n == Len(q)
<1>1. n \in Nat /\ Len(w) = n + 1 /\ (\A k \in 1 .. n : w[k] = q[k]) /\ w[n + 1] = c
  BY AppendSeq
<1>2. \A k \in 1 .. n : Follows(q[k].id, L \cup ChanIds(q, 0, k - 1), X, N)
  BY DEF ChanFollows
<1>3. Follows(c.id, L \cup ChanIds(q, 0, n), X, N)
  OBVIOUS
<1> HIDE DEF n
<1>4. ASSUME NEW k \in 0 .. n
      PROVE  ChanIds(w, 0, k) = ChanIds(q, 0, k)
  BY <1>1 DEF ChanIds
<1>5. ASSUME NEW k \in 1 .. n + 1
      PROVE  Follows(w[k].id, L \cup ChanIds(w, 0, k - 1), X, N)
  <2>1. k - 1 \in 0 .. n
    BY <1>1
  <2>2. ChanIds(w, 0, k - 1) = ChanIds(q, 0, k - 1)
    BY <1>4, <2>1
  <2>3. CASE k \in 1 .. n
    BY <1>1, <1>2, <2>2, <2>3
  <2>4. CASE k = n + 1
    <3>1. k - 1 = n
      BY <1>1, <2>4
    <3>2. QED
      BY <1>1, <1>3, <2>2, <2>4, <3>1
  <2>5. QED
    BY <1>1, <2>3, <2>4
<1>6. ChanIds(w, 0, n + 1) = ChanIds(q, 0, n) \cup {c.id}
  BY <1>1 DEF ChanIds
<1>7. ChanFollows(w, L, X, N)
  BY <1>1, <1>5 DEF ChanFollows
<1>8. QED
  BY <1>1, <1>6, <1>7 DEF n

\* The first command is done: its row, if it is one, is delivered.
LEMMA ListFollowsTail ==
    ASSUME NEW T, NEW td \in Seq(T), td # <<>>, NEW D, NEW X, NEW N, ListFollows(td, D, X, N)
    PROVE  ListFollows(Tail(td), D \cup RowIds(td, 2), X, N)
<1> DEFINE n == Len(td)
           w == Tail(td)
<1>1. n \in Nat /\ n >= 1 /\ Len(w) = n - 1 /\ \A i \in 1 .. n - 1 : w[i] = td[i + 1]
  BY TailSeq
<1>2. ASSUME NEW k \in 1 .. Len(w)
      PROVE  CommandFollows(w[k], (D \cup RowIds(td, 2)) \cup RowIds(w, k), X, N)
  <2>1. k \in 1 .. n - 1 /\ k \in 1 .. n /\ k + 1 \in 1 .. n
    <3> HIDE DEF n, w
    <3>1. QED
      BY <1>1
  <2>2. w[k] = td[k + 1] /\ CommandFollows(td[k + 1], D \cup RowIds(td, k + 1), X, N)
    BY <1>1, <2>1 DEF ListFollows
  <2>3. RowIds(td, k + 1) = RowIds(td, 2) \cup RowIds(w, k)
    BY <2>1, RowIdsTail
  <2>4. D \cup RowIds(td, k + 1) = (D \cup RowIds(td, 2)) \cup RowIds(w, k)
    BY <2>3
  <2> HIDE DEF w
  <2>5. QED
    BY <2>2, <2>4
<1>3. QED
  BY <1>2 DEF ListFollows

\* The same when a flush with nothing queued is passed over.
LEMMA RestFollows ==
    ASSUME NEW T, todo \in Seq(T), todo # <<>>, NEW D, NEW X, NEW N, ListFollows(todo, D, X, N),
           NEW evs
    PROVE  ListFollows(Rest(evs), D \cup RowIds(todo, 2), X, N)
<1> DEFINE w == Tail(todo)
           E == D \cup RowIds(todo, 2)
<1>1. w \in Seq(T) /\ ListFollows(w, E, X, N)
  BY TailSeq, ListFollowsTail
<1>2. CASE evs = <<>> /\ w # <<>> /\ todo[2].do = "flush"
  <2>1. w[1].do = "flush"
    BY <1>2, TailSeq
  <2>2. Rest(evs) = Tail(w)
    BY <1>2 DEF Rest
  <2> HIDE DEF w, E
  <2>3. RowIds(w, 2) = {}
    <3>1. w[1].do # "row"
      BY <2>1
    <3>2. QED
      BY <3>1, FirstRowId
  <2>4. ListFollows(Tail(w), E \cup RowIds(w, 2), X, N)
    BY <1>1, <1>2, ListFollowsTail
  <2>5. E \cup RowIds(w, 2) = E
    BY <2>3
  <2>6. QED
    BY <2>2, <2>4, <2>5 DEF E
<1>3. CASE ~ (evs = <<>> /\ w # <<>> /\ todo[2].do = "flush")
  BY <1>1, <1>3 DEF Rest
<1>4. QED
  BY <1>2, <1>3

\* A command that is no row comes before the others.
LEMMA ListFollowsFirst ==
    ASSUME NEW T, NEW td \in Seq(T), td # <<>>, td[1].do # "row", NEW D, NEW X, NEW N,
           CommandFollows(td[1], D, X, N), ListFollows(Tail(td), D, X, N)
    PROVE  ListFollows(td, D, X, N)
<1> DEFINE n == Len(td)
           w == Tail(td)
<1>1. n \in Nat /\ n >= 1 /\ Len(w) = n - 1 /\ \A i \in 1 .. n - 1 : w[i] = td[i + 1]
  BY TailSeq
<1>2. RowIds(td, 2) = {} /\ RowIds(td, 1) = {}
  BY FirstRowId
<1>3. ASSUME NEW k \in 1 .. n
      PROVE  CommandFollows(td[k], D \cup RowIds(td, k), X, N)
  <2>1. CASE k = 1
    <3>1. D \cup RowIds(td, 1) = D
      BY <1>2
    <3>2. QED
      BY <2>1, <3>1
  <2>2. CASE k # 1
    <3>1. k - 1 \in 1 .. n - 1 /\ k - 1 \in 1 .. n /\ (k - 1) + 1 = k
      <4> HIDE DEF n
      <4>1. QED
        BY <1>1, <2>2
    <3>2. w[k - 1] = td[k] /\ RowIds(td, (k - 1) + 1) = RowIds(td, 2) \cup RowIds(w, k - 1)
      BY <1>1, <3>1, RowIdsTail
    <3>3. k - 1 \in 1 .. Len(w)
      BY <1>1, <3>1
    <3>4. CommandFollows(w[k - 1], D \cup RowIds(w, k - 1), X, N)
      BY <3>3 DEF ListFollows
    <3>5. RowIds(td, k) = RowIds(w, k - 1)
      BY <1>2, <3>1, <3>2
    <3> HIDE DEF w
    <3>6. QED
      BY <3>2, <3>4, <3>5
  <2>3. QED
    BY <2>1, <2>2
<1>4. QED
  BY <1>3 DEF ListFollows

\* Rows that follow what is delivered, in any order, and no news.
LEMMA ListFollowsFree ==
    ASSUME NEW T, NEW td \in Seq(T), NEW D, NEW X, NEW N,
           \A i \in AllRowIds(td) : Follows(i, D, X, N),
           \A e \in EventsOf(td) : e.status # "detected"
    PROVE  ListFollows(td, D, X, N)
<1> DEFINE n == Len(td)
<1>1. n \in Nat /\ DOMAIN td = 1 .. n
  OBVIOUS
<1>2. ASSUME NEW k \in 1 .. n
      PROVE  CommandFollows(td[k], D \cup RowIds(td, k), X, N)
  <2>1. ASSUME td[k].do = "row", td[k].id > 0
        PROVE  Follows(td[k].id, D \cup RowIds(td, k), X, N)
    <3>1. k \in 1 .. (n + 1) - 1
      <4> HIDE DEF n
      <4>1. QED
        BY <1>1
    <3>2. td[k].id \in AllRowIds(td)
      BY <2>1, <3>1 DEF AllRowIds, RowIds
    <3>3. Follows(td[k].id, D, X, N)
      BY <3>2
    <3>4. QED
      BY <3>3, FollowsMore
  <2>2. td[k].do = "event" => td[k].event.status # "detected"
    <3>1. td[k] \in Range(td)
      BY <1>1 DEF Range
    <3>2. td[k].do = "event" => td[k].event \in EventsOf(td)
      BY <3>1 DEF EventsOf
    <3>3. QED
      BY <3>2
  <2>3. QED
    BY <2>1, <2>2 DEF CommandFollows
<1>3. QED
  BY <1>2 DEF ListFollows

-----------------------------------------------------------------------------
(* Steps that bring no new gap *)

\* No record larger than the handler's, by bounds.
LEMMA NotLargerFewer ==
    ASSUME NEW G, NEW H, SpansIn(G, H), NEW A, NEW B, SpansIn(A, B), NotLarger(H, B)
    PROVE  NotLarger(G, A)
BY DEF SpansIn, NotLarger

\* What a step has to show that brings no new gap and leaves the tracker alone.
LEMMA AccountKept ==
    ASSUME AccountInv, ProgressInv', up', last' = last,
           OnTheWay \subseteq OnTheWay', OnTheWay' \subseteq OnTheWay \cup (1 .. last),
           LoggedIds(logged) \subseteq LoggedIds(logged'),
           Accounted \subseteq Accounted', News' \subseteq News,
           SpansIn(Mine', Mine), SpansIn(AllGaps', AllGaps),
           Chain(LoggedIds(logged'), chan', todo', Accounted, News)
    PROVE  AccountInv'
<1> DEFINE A == OnTheWay
           B == OnTheWay'
           X == Accounted
           Y == Accounted'
           N == News
           P == News'
           L == LoggedIds(logged)
           M == LoggedIds(logged')
<1>1. /\ A \subseteq B /\ B \subseteq A \cup (1 .. last) /\ X \subseteq Y /\ P \subseteq N
      /\ L \subseteq M /\ Chain(M, chan', todo', X, N)
  OBVIOUS
<1>2. /\ NewsPassed(N, A) /\ TrackerCovers(last, A, X) /\ (last = 0 => A \subseteq L)
      /\ (\A h \in Mine : h.last <= last) /\ NotLarger(AllGaps, Mine)
  BY DEF AccountInv
<1>3. last \in Nat
  BY TradeConstants DEF AccountInv, ProgressInv, TypedInv
<1>4. NotLarger(AllGaps', Mine')
  <2> DEFINE G == AllGaps
             H == AllGaps'
             C == Mine
             F == Mine'
  <2>1. SpansIn(H, G) /\ SpansIn(F, C) /\ NotLarger(G, C)
    BY <1>2
  <2> HIDE DEF G, H, C, F
  <2>2. NotLarger(H, F)
    BY <2>1, NotLargerFewer
  <2>3. QED
    BY <2>2 DEF H, F
<1>5. \A h \in Mine' : h.last <= last'
  BY <1>2 DEF SpansIn
<1> HIDE DEF A, B, X, Y, N, P, L, M
<1>6. Chain(M, chan', todo', Y, P)
  BY <1>1, ChainMore
<1>7. NewsPassed(P, B)
  BY <1>1, <1>2 DEF NewsPassed
<1>8. TrackerCovers(last, B, Y)
  BY <1>1, <1>2, <1>3 DEF TrackerCovers
<1>9. last = 0 => B \subseteq M
  BY <1>1, <1>2, <1>3
<1>10. QED
  BY <1>4, <1>5, <1>6, <1>7, <1>8, <1>9 DEF AccountInv, B, Y, P, M

\* A step that touches neither rows nor gaps.
LEMMA AccountSame ==
    ASSUME AccountInv, ProgressInv', up' \/ up' = up,
           UNCHANGED <<last, jobs, events, todo, chan, logged, gaps, blind, dropped>>
    PROVE  AccountInv'
<1>1. /\ Delivered' = Delivered /\ OnTheWay' = OnTheWay /\ AllGaps' = AllGaps /\ Mine' = Mine
      /\ News' = News /\ Accounted' = Accounted /\ OpenGaps' = OpenGaps /\ LastId' = LastId
  BY DEF Delivered, OnTheWay, AllGaps, Held, Mine, News, Accounted, OpenGaps, LastId
<1>2. QED
  BY <1>1 DEF AccountInv

\* The news are events in the queue or among the commands.
LEMMA NewsAre ==
    /\ Held = Range(events) \cup EventsOf(todo)
    /\ News = {g \in Range(events) \cup EventsOf(todo) : g.status = "detected"}
    /\ Mine = Range(events) \cup EventsOf(todo) \cup Range(jobs)
BY DEF News, Mine, Held, EventsOf

\* More gaps cover more.
LEMMA CoveredMore ==
    ASSUME NEW G, NEW H, SpansIn(G, H)
    PROVE  CoveredBy(G) \subseteq CoveredBy(H)
BY DEF SpansIn, CoveredBy, Covers

\* The next message is of another symbol or cannot be read.
LEMMA OtherAccount ==
    ASSUME AccountInv, ProgressInv', up', todo = <<>>,
           UNCHANGED <<last, jobs, events, chan, logged, gaps, blind, dropped>>,
           todo' \in {<<Pump>>, <<Row(0, FALSE), Flush, Pump>>}
    PROVE  AccountInv'
<1>1. AllRowIds(todo) = {} /\ EventsOf(todo) = {} /\ AllRowIds(todo') = {} /\ EventsOf(todo') = {}
  BY EmptyLists, OtherRows
<1>2. Delivered' = Delivered /\ OnTheWay' = OnTheWay
  BY <1>1 DEF Delivered, OnTheWay
<1>3. Held' = Held
  <2>1. Held' = Range(events') \cup EventsOf(todo')
    BY DEF Held, EventsOf
  <2>2. QED
    BY <1>1, <2>1, NewsAre
<1>4. News' = News /\ Mine' = Mine /\ AllGaps' = AllGaps
  BY <1>3 DEF News, Mine, AllGaps
<1>5. Accounted' = Accounted
  BY <1>4 DEF Accounted
<1>6. SpansIn(Mine', Mine) /\ SpansIn(AllGaps', AllGaps)
  BY <1>4 DEF SpansIn
<1>7. todo' \in Seq(CommandType(sent'))
  BY DEF ProgressInv, TypedInv
<1>8. Chain(LoggedIds(logged'), chan', todo', Accounted, News)
  <2>1. ListFollows(todo', Delivered, Accounted, News)
    BY <1>1, <1>7, ListFollowsFree
  <2>2. QED
    BY <2>1 DEF AccountInv, Chain, Delivered
<1>9. QED
  BY <1>2, <1>4, <1>5, <1>6, <1>8, AccountKept

\* What a log of the rows q leaves: more ids, the same bounds.
LEMMA LogsAccount ==
    ASSUME AccountInv, NEW n \in 0 .. Len(chan)
    PROVE  LET t == LogRows(SubSeq(chan, 1, n))
               M == LoggedIds(logged) \cup ChanIds(chan, 0, n)
           IN  /\ LoggedIds(t.logged) = M /\ LogFollows(M, Accounted, News)
               /\ SpansIn(t.gaps, gaps) /\ SpansIn(gaps, t.gaps)
<1> DEFINE q == SubSeq(chan, 1, n)
           t == LogRows(q)
           M == LoggedIds(logged) \cup ChanIds(chan, 0, n)
<1>1. /\ q \in Seq(RowType(sent)) /\ Len(q) = n /\ (\A i \in 1 .. n : q[i] = chan[i])
      /\ sent \in 0 .. MaxTrades /\ TpTyped(TpNow, sent) /\ Len(chan) \in Nat
  BY PrefixSeq DEF AccountInv, ProgressInv, TypedInv
<1>2. TpGood(TpNow, q, 0, AllGaps)
  BY PrefixGood DEF AccountInv, ProgressInv, TypedInv
<1>3. LogsGood(t, LoggedIds(logged) \cup ChanIds(q, 0, Len(q)), AllGaps)
  BY <1>1, <1>2, LogRowsGood
<1>4. ChanIds(q, 0, Len(q)) = ChanIds(chan, 0, n)
  <2> HIDE DEF q
  <2>1. QED
    BY <1>1 DEF ChanIds
<1>5. LogsGood(t, M, AllGaps)
  BY <1>3, <1>4
<1>6. LogFollows(M, Accounted, News)
  BY <1>1, PrefixFollows DEF AccountInv, Chain
<1>7. QED
  BY <1>5, <1>6 DEF LogsGood

\* All of it.
LEMMA AllLogsAccount ==
    ASSUME AccountInv
    PROVE  /\ LoggedIds(LogRows(chan).logged) = Delivered /\ LogFollows(Delivered, Accounted, News)
           /\ SpansIn(LogRows(chan).gaps, gaps) /\ SpansIn(gaps, LogRows(chan).gaps)
<1>1. chan \in Seq(RowType(sent)) /\ sent \in 0 .. MaxTrades /\ TpTyped(TpNow, sent)
  BY DEF AccountInv, ProgressInv, TypedInv
<1>2. LogsGood(LogRows(chan), Delivered, AllGaps)
  BY <1>1, LogRowsGood DEF AccountInv, ProgressInv, Delivered
<1>3. Len(chan) \in Nat /\ Len(chan) \in 0 .. Len(chan)
  BY <1>1
<1>4. LogFollows(Delivered, Accounted, News)
  BY <1>3, PrefixFollows DEF AccountInv, Chain, Delivered
<1>5. QED
  BY <1>2, <1>4 DEF LogsGood

\* TP logs the first row of the channel.
LEMMA TpLogsAccount ==
    ASSUME AccountInv, TpLogs
    PROVE  AccountInv'
<1> DEFINE c == chan[1]
           t == LogRow(TpNow, c)
           L == LoggedIds(logged)
           M == LoggedIds(logged')
<1>1. ProgressInv /\ ProgressInv'
  BY TpLogsProgress DEF AccountInv
<1>2. sent \in 0 .. MaxTrades /\ chan \in Seq(RowType(sent)) /\ TpTyped(TpNow, sent)
  BY <1>1 DEF ProgressInv, TypedInv
<1>3. /\ chan # <<>> /\ chan' = Tail(chan)
      /\ UNCHANGED <<up, last, jobs, events, todo, blind, dropped>>
  BY DEF TpLogs, handler, ghosts
<1>4. up /\ up'
  BY <1>1, <1>3 DEF ProgressInv, TypedInv, Nothing
<1>5. c \in RowType(sent) /\ Head(chan) = c /\ Len(chan) >= 1
  BY <1>2, <1>3, TailSeq
<1>6. logged' = t.logged /\ gaps' = t.gaps
  <2>1. logged' = LogRows(<<Head(chan)>>).logged /\ gaps' = LogRows(<<Head(chan)>>).gaps
    BY DEF TpLogs
  <2>2. QED
    BY <1>2, <1>5, <2>1, LogOne
<1>7. M = L \cup {c.id}
  <2>1. c \in RowType(MaxTrades) /\ TpNow \in TpType /\ TpNow.logged = logged
    BY <1>2, <1>5, TypesGrow, TradeConstants DEF TpTyped, TpNow
  <2>2. QED
    BY <1>6, <2>1, LogRowEffect
<1>8. SpansIn(gaps', gaps) /\ SpansIn(gaps, gaps')
  <2>1. TpNow.gaps = gaps
    BY DEF TpNow
  <2>2. QED
    BY <1>2, <1>5, <1>6, <2>1, LogRowSpans
<1>9. ChanIds(chan, 0, Len(chan)) = {c.id} \cup ChanIds(chan', 0, Len(chan')) /\ ChanIds(chan, 0, 1) = {c.id}
  <2> DEFINE n == Len(chan)
  <2>1. n \in Nat /\ n >= 1 /\ Len(chan') = n - 1 /\ n - 1 \in 0 .. n - 1 /\ (n - 1) + 1 = n
    BY <1>2, <1>3, <1>5, TailSeq
  <2>2. ChanIds(chan', 0, n - 1) = ChanIds(chan, 1, n)
    BY <1>2, <1>3, <2>1, ChanTail
  <2>3. ChanIds(chan, 0, n) = {c.id} \cup ChanIds(chan, 1, n) /\ ChanIds(chan, 0, 1) = {c.id}
    <3> HIDE DEF n
    <3>1. QED
      BY <2>1 DEF ChanIds
  <2>4. QED
    BY <2>1, <2>2, <2>3
<1>10. Delivered' = Delivered
  BY <1>7, <1>9 DEF Delivered
<1>11. OnTheWay' = OnTheWay
  BY <1>3, <1>10 DEF OnTheWay
<1>12. Held' = Held /\ News' = News /\ Mine' = Mine
  BY <1>3 DEF Held, News, Mine
<1>13. SpansIn(Mine', Mine) /\ SpansIn(AllGaps', AllGaps)
  <2>1. AllGaps' = gaps' \cup Mine /\ AllGaps = gaps \cup Mine
    BY <1>12 DEF AllGaps, Mine
  <2>2. QED
    BY <1>8, <1>12, <2>1 DEF SpansIn
<1>14. Accounted \subseteq Accounted'
  <2>1. CoveredBy(gaps) \subseteq CoveredBy(gaps')
    BY <1>8, CoveredMore
  <2>2. Accounted' = CoveredBy(gaps') \cup CoveredBy(News) \cup blind \cup dropped
    BY <1>3, <1>12 DEF Accounted
  <2>3. QED
    BY <2>1, <2>2 DEF Accounted
<1>15. Chain(M, chan', todo', Accounted, News)
  <2>1. /\ LogFollows(L, Accounted, News) /\ ChanFollows(chan, L, Accounted, News)
        /\ ListFollows(todo, Delivered, Accounted, News)
    BY DEF AccountInv, Chain, Delivered
  <2>2. LogFollows(M, Accounted, News)
    <3>1. 1 \in 0 .. Len(chan) /\ Len(chan) \in Nat
      BY <1>2, <1>5
    <3>2. LogFollows(L \cup ChanIds(chan, 0, 1), Accounted, News)
      BY <2>1, <3>1, PrefixFollows
    <3>3. M = L \cup ChanIds(chan, 0, 1)
      BY <1>7, <1>9
    <3> HIDE DEF L, M
    <3>4. QED
      BY <3>2, <3>3
  <2>3. ChanFollows(chan', M, Accounted, News)
    <3>1. ChanFollows(Tail(chan), L \cup {chan[1].id}, Accounted, News)
      BY <1>2, <1>3, <2>1, ChanFollowsTail
    <3> HIDE DEF L, M
    <3>2. QED
      BY <1>3, <1>7, <3>1
  <2>4. ListFollows(todo', M \cup ChanIds(chan', 0, Len(chan')), Accounted, News)
    <3>1. M \cup ChanIds(chan', 0, Len(chan')) = Delivered
      BY <1>10 DEF Delivered
    <3>2. QED
      BY <1>3, <2>1, <3>1
  <2>5. QED
    BY <2>2, <2>3, <2>4 DEF Chain
<1>16. L \subseteq M
  BY <1>7
<1> HIDE DEF c, t
<1>17. QED
  BY <1>1, <1>3, <1>4, <1>11, <1>12, <1>13, <1>14, <1>15, <1>16, AccountKept

\* The next row is published.
LEMMA PublishRowAccount ==
    ASSUME AccountInv, PublishRow
    PROVE  AccountInv'
<1> DEFINE c == todo[1]
           L == LoggedIds(logged)
           D == Delivered
           I == RowIds(todo, 2)
           X == Accounted
           N == News
<1>1. ProgressInv /\ ProgressInv'
  BY PublishRowProgress DEF AccountInv
<1>2. /\ todo \in Seq(CommandType(sent)) /\ chan \in Seq(RowType(sent)) /\ sent \in 0 .. MaxTrades
      /\ ListGood(todo, D, AllGaps)
  BY <1>1 DEF ProgressInv, TypedInv
<1>3. /\ todo # <<>> /\ c.do = "row" /\ Head(todo) = c
      /\ chan' = IF c.id = 0 THEN chan ELSE Append(chan, c)
      /\ todo' = Rest(events) /\ UNCHANGED <<up, last, jobs, events, logged, gaps, blind, dropped>>
  BY <1>2, TailSeq DEF PublishRow, tp, ghosts
<1>4. up /\ up'
  BY <1>1, <1>3 DEF ProgressInv, TypedInv, Nothing
<1>5. /\ AllRowIds(todo) = I \cup AllRowIds(todo')
      /\ EventsOf(todo) = EventsOf(todo') \cup (IF c.do = "event" THEN {c.event} ELSE {})
  BY <1>2, <1>3, RestGood
<1>6. LogFollows(L, X, N) /\ ChanFollows(chan, L, X, N) /\ ListFollows(todo, D, X, N)
  BY DEF AccountInv, Chain, Delivered
<1>7. ListFollows(todo', D \cup I, X, N)
  BY <1>2, <1>3, <1>6, RestFollows
<1>8. c \in CommandType(sent) /\ 1 \in 1 .. Len(todo)
  BY <1>2, <1>3, TailSeq
<1>9. c.id \in Nat /\ (c.id > 0 => c \in RowType(sent)) /\ I = IF c.id > 0 THEN {c.id} ELSE {}
  <2>1. c \in [do : {"row"}, id : 0 .. sent, back : BOOLEAN]
    BY <1>3, <1>8 DEF CommandType, Flush, Pump
  <2>2. I = IF c.do = "row" /\ c.id > 0 THEN {c.id} ELSE {}
    BY FirstRowId
  <2> HIDE DEF c, I
  <2>3. QED
    BY <1>2, <1>3, <2>1, <2>2 DEF RowType
<1>10. c.id > 0 => Follows(c.id, D, X, N)
  <2>1. CommandFollows(c, D \cup RowIds(todo, 1), X, N)
    BY <1>6, <1>8 DEF ListFollows
  <2>2. RowIds(todo, 1) = {}
    BY FirstRowId
  <2>3. D \cup RowIds(todo, 1) = D
    BY <2>2
  <2> HIDE DEF D, X, N, c
  <2>4. QED
    BY <1>3, <2>1, <2>3 DEF CommandFollows
<1>11. ChanFollows(chan', L, X, N) /\ ChanIds(chan', 0, Len(chan')) = ChanIds(chan, 0, Len(chan)) \cup I
  <2>1. CASE c.id = 0
    <3>1. chan' = chan /\ I = {}
      BY <1>3, <1>9, <2>1
    <3>2. QED
      BY <1>6, <3>1
  <2>2. CASE c.id # 0
    <3>1. c \in RowType(sent) /\ chan' = Append(chan, c) /\ I = {c.id}
      BY <1>3, <1>9, <2>2
    <3>2. Follows(c.id, L \cup ChanIds(chan, 0, Len(chan)), X, N)
      BY <1>9, <1>10, <2>2 DEF Delivered
    <3> DEFINE T == RowType(sent)
    <3>3. chan \in Seq(T) /\ c \in T /\ ChanFollows(chan, L, X, N)
      BY <1>2, <1>6, <3>1
    <3> HIDE DEF c, L, X, N, T, I
    <3>4. ChanFollows(chan', L, X, N) /\ ChanIds(chan', 0, Len(chan')) = ChanIds(chan, 0, Len(chan)) \cup {c.id}
      <4> DEFINE q == chan
                 w == chan'
      <4>1. /\ q \in Seq(T) /\ c \in T /\ ChanFollows(q, L, X, N) /\ w = Append(q, c)
            /\ Follows(c.id, L \cup ChanIds(q, 0, Len(q)), X, N)
        BY <3>1, <3>2, <3>3
      <4> HIDE DEF q, w
      <4>2. ChanFollows(w, L, X, N) /\ ChanIds(w, 0, Len(w)) = ChanIds(q, 0, Len(q)) \cup {c.id}
        BY ONLY <4>1, ChanFollowsAppend, ZenonT(30)
      <4>3. QED
        BY <4>2 DEF q, w
    <3>5. QED
      BY <3>1, <3>4
  <2>3. QED
    BY <2>1, <2>2
<1>12. LoggedIds(logged') \cup ChanIds(chan', 0, Len(chan')) = D \cup I /\ LoggedIds(logged') = L
  BY <1>3, <1>11 DEF Delivered
<1>13. Delivered' = D \cup I
  BY <1>12 DEF Delivered
<1>14. OnTheWay' = OnTheWay
  BY <1>5, <1>13 DEF OnTheWay
<1>15. Chain(LoggedIds(logged'), chan', todo', X, N)
  <2> HIDE DEF L, D, I, X, N
  <2>1. QED
    BY <1>6, <1>7, <1>11, <1>12 DEF Chain
<1>16. EventsOf(todo') = EventsOf(todo)
  <2>1. c.do # "event"
    BY <1>3
  <2>2. QED
    BY <1>5, <2>1
<1>17. Held' = Held
  <2>1. Held' = Range(events') \cup EventsOf(todo')
    BY DEF Held, EventsOf
  <2>2. QED
    BY <1>3, <1>16, <2>1, NewsAre
<1>18. News' = News /\ Mine' = Mine /\ AllGaps' = AllGaps
  BY <1>3, <1>17 DEF News, Mine, AllGaps
<1>19. Accounted' = Accounted
  BY <1>3, <1>18 DEF Accounted
<1>20. SpansIn(Mine', Mine) /\ SpansIn(AllGaps', AllGaps)
  BY <1>18 DEF SpansIn
<1> HIDE DEF c, I, D
<1>21. QED
  BY <1>1, <1>3, <1>4, <1>14, <1>15, <1>18, <1>19, <1>20, AccountKept

\* A gap event is queued.
LEMMA RecordGapAccount ==
    ASSUME AccountInv, RecordGap
    PROVE  AccountInv'
<1> DEFINE c == todo[1]
           w == Tail(todo)
           D == Delivered
           X == Accounted
           N == News
<1>1. ProgressInv /\ ProgressInv'
  BY RecordGapProgress DEF AccountInv
<1>2. /\ todo \in Seq(CommandType(sent)) /\ sent \in 0 .. MaxTrades /\ events \in Seq(GapType(sent))
  BY <1>1 DEF ProgressInv, TypedInv
<1>3. /\ todo # <<>> /\ c.do = "event" /\ Head(todo) = c
      /\ events' = Append(events, c.event) /\ todo' = <<Flush>> \o w
      /\ UNCHANGED <<up, last, jobs, chan, logged, gaps, blind, dropped>>
  BY <1>2, TailSeq DEF RecordGap, tp, ghosts
<1>4. up /\ up'
  BY <1>1, <1>3 DEF ProgressInv, TypedInv, Nothing
<1>5. c \in CommandType(sent) /\ w \in Seq(CommandType(sent))
  BY <1>2, <1>3, TailSeq
<1>6. c.event \in GapType(sent)
  <2> HIDE DEF c
  <2>1. QED
    BY <1>3, <1>5 DEF CommandType, Flush, Pump
<1>7. /\ AllRowIds(todo) = RowIds(todo, 2) \cup AllRowIds(w)
      /\ EventsOf(todo) = EventsOf(w) \cup (IF c.do = "event" THEN {c.event} ELSE {})
  BY <1>2, <1>3, AllRowIdsTail, EventsOfTail
<1>8. RowIds(todo, 2) = {}
  <2>1. todo[1].do # "row"
    BY <1>3
  <2>2. QED
    BY <2>1, FirstRowId
<1>9. ListFollows(todo, D, X, N)
  BY DEF AccountInv, Chain, Delivered
<1>10. ListFollows(w, D, X, N)
  <2>1. ListFollows(w, D \cup RowIds(todo, 2), X, N)
    BY <1>2, <1>3, <1>9, ListFollowsTail
  <2>2. D \cup RowIds(todo, 2) = D
    BY <1>8
  <2>3. QED
    BY <2>1, <2>2
<1>11. /\ todo' \in Seq(CommandType(sent)) /\ todo' # <<>> /\ todo'[1] = Flush
       /\ Tail(todo') = w
  <2> DEFINE T == CommandType(sent)
  <2>1. w \in Seq(T) /\ Flush \in T
    BY <1>5 DEF CommandType
  <2> HIDE DEF T, w
  <2>2. QED
    BY <1>3, <2>1 DEF T
<1> HIDE DEF w
<1>12. todo'[1].do # "row" /\ todo'[1].do # "event" /\ RowIds(todo', 2) = {}
  <2>1. todo'[1].do = "flush"
    BY <1>11 DEF Flush
  <2>2. todo'[1].do # "row" /\ todo'[1].do # "event"
    BY <2>1
  <2>3. QED
    BY <2>2, FirstRowId
<1>13. AllRowIds(todo') = AllRowIds(todo)
  <2>1. AllRowIds(todo') = RowIds(todo', 2) \cup AllRowIds(Tail(todo'))
    BY <1>11, AllRowIdsTail
  <2>2. QED
    BY <1>7, <1>8, <1>11, <1>12, <2>1
<1>14. EventsOf(todo') = EventsOf(w)
  <2>1. EventsOf(todo') = EventsOf(Tail(todo')) \cup (IF todo'[1].do = "event" THEN {todo'[1].event} ELSE {})
    BY <1>11, EventsOfTail
  <2>2. QED
    BY <1>11, <1>12, <2>1
<1>15. Held' = Held
  <2>1. Range(events') = Range(events) \cup {c.event}
    <3> HIDE DEF c
    <3>1. QED
      BY <1>2, <1>3, <1>6, AppendRange
  <2>2. EventsOf(todo) = EventsOf(w) \cup {c.event}
    BY <1>3, <1>7
  <2>3. Held' = Range(events') \cup EventsOf(todo')
    BY DEF Held, EventsOf
  <2>4. QED
    BY <1>14, <2>1, <2>2, <2>3, NewsAre
<1>16. News' = News /\ Mine' = Mine /\ AllGaps' = AllGaps
  BY <1>3, <1>15 DEF News, Mine, AllGaps
<1>17. Accounted' = Accounted
  BY <1>3, <1>16 DEF Accounted
<1>18. SpansIn(Mine', Mine) /\ SpansIn(AllGaps', AllGaps)
  BY <1>16 DEF SpansIn
<1>19. Delivered' = D
  BY <1>3 DEF Delivered
<1>20. OnTheWay' = OnTheWay
  BY <1>13, <1>19 DEF OnTheWay
<1>21. ListFollows(todo', D, X, N)
  <2>1. CommandFollows(todo'[1], D, X, N)
    BY <1>12 DEF CommandFollows
  <2> HIDE DEF D, X, N
  <2>2. QED
    BY <1>10, <1>11, <1>12, <2>1, ListFollowsFirst
<1>22. Chain(LoggedIds(logged'), chan', todo', X, N)
  BY <1>3, <1>21 DEF AccountInv, Chain, Delivered
<1> HIDE DEF c, D
<1>23. QED
  BY <1>1, <1>3, <1>4, <1>16, <1>17, <1>18, <1>20, <1>22, AccountKept

\* TP takes the rows before an event, and the event or not: it knows no less.
LEMMA AnsweredAccount ==
    ASSUME AccountInv, events # <<>>, Answered(Head(events))
    PROVE  /\ CoveredBy(gaps) \subseteq CoveredBy(gaps')
           /\ LoggedIds(logged') = Delivered /\ LogFollows(Delivered, Accounted, News)
           /\ chan' = <<>> /\ ChanIds(chan', 0, Len(chan')) = {}
<1> DEFINE t == LogRows(chan)
           e == Head(events)
<1>1. /\ LoggedIds(t.logged) = Delivered /\ LogFollows(Delivered, Accounted, News)
      /\ SpansIn(gaps, t.gaps)
  BY AllLogsAccount
<1>2. logged' = t.logged /\ gaps' \in {t.gaps, NoteGap(t.gaps, e)} /\ chan' = <<>>
  BY DEF Answered
<1>3. ChanIds(chan', 0, Len(chan')) = {}
  BY <1>2, EmptyLists
<1>4. e \in Mine
  <2>1. events \in Seq(GapType(sent))
    BY DEF AccountInv, ProgressInv, TypedInv
  <2>2. e \in Range(events)
    BY <2>1, TailSeq, TailRange
  <2>3. QED
    BY <2>2, NewsAre
<1>5. \A g \in gaps : g.first = e.first => g.last <= e.last
  BY <1>4, AllGapsAre DEF AccountInv, NotLarger
<1>6. \A g \in gaps : g.first \in Nat /\ g.last \in Nat
  BY AllGapsNat, AllGapsAre DEF AccountInv, ProgressInv, NatSpans
<1>7. e.first \in Nat /\ e.last \in Nat
  BY <1>4, AllGapsNat DEF AccountInv, ProgressInv, NatSpans, Mine, AllGaps
<1> HIDE DEF t, e
<1>8. ASSUME NEW i \in Ids, NEW g \in gaps, Covers(g, i)
      PROVE  \E h \in NoteGap(t.gaps, e) : Covers(h, i)
  <2>1. PICK h \in t.gaps : g.first = h.first /\ g.last = h.last
    BY <1>1 DEF SpansIn
  <2>2. CASE h.first # e.first
    BY <1>8, <2>1, <2>2 DEF NoteGap, Covers
  <2>3. CASE h.first = e.first
    <3>1. g.last <= e.last /\ g.first = e.first
      BY <1>5, <2>1, <2>3
    <3>2. Covers(e, i)
      BY <1>6, <1>7, <1>8, <3>1 DEF Covers, Ids
    <3>3. QED
      BY <3>2 DEF NoteGap
  <2>4. QED
    BY <2>2, <2>3
<1>9. CoveredBy(gaps) \subseteq CoveredBy(NoteGap(t.gaps, e)) /\ CoveredBy(gaps) \subseteq CoveredBy(t.gaps)
  <2>1. CoveredBy(gaps) \subseteq CoveredBy(NoteGap(t.gaps, e))
    BY <1>8 DEF CoveredBy
  <2>2. QED
    BY <1>1, <2>1, CoveredMore
<1>10. QED
  BY <1>1, <1>2, <1>3, <1>9

\* The event at the head is still queued, or TP knows its gap, or its ids are excused.
Told ==
    \/ events' = events
    \/ Head(events) \in gaps'
    \/ Head(events).status = "detected" => Head(events).first .. Head(events).last \subseteq dropped'

\* A flush has sent an event, or has not.
LEMMA FlushedAccount ==
    ASSUME AccountInv, ProgressInv', Flushing, GoesOn, UNCHANGED <<up, last, jobs, blind>>,
           UNCHANGED <<chan, logged, gaps>> \/ Answered(Head(events)),
           dropped \subseteq dropped', Told
    PROVE  AccountInv'
<1> DEFINE L == LoggedIds(logged)
           M == LoggedIds(logged')
           D == Delivered
           X == Accounted
           N == News
           e == Head(events)
<1>1. ProgressInv /\ events # <<>> /\ todo # <<>>
  BY DEF AccountInv, Flushing
<1>2. todo \in Seq(CommandType(sent)) /\ events \in Seq(GapType(sent))
  BY <1>1 DEF ProgressInv, TypedInv
<1>3. up'
  BY <1>1 DEF ProgressInv, TypedInv, Nothing
<1>4. /\ AllRowIds(todo') = AllRowIds(todo) /\ EventsOf(todo') = EventsOf(todo)
      /\ Range(events') \subseteq Range(events)
  BY <1>1, GoesOnGood
<1>5. Delivered' = D /\ SpansIn(gaps', AllGaps)
  <2>1. CASE UNCHANGED <<chan, logged, gaps>>
    BY <2>1, AllGapsAre DEF Delivered, SpansIn
  <2>2. CASE Answered(Head(events))
    BY <1>1, <2>2, AnsweredGood
  <2>3. QED
    BY <2>1, <2>2
<1>6. OnTheWay' = OnTheWay
  BY <1>4, <1>5 DEF OnTheWay
<1>7. LogFollows(L, X, N) /\ ChanFollows(chan, L, X, N) /\ ListFollows(todo, D, X, N)
  BY DEF AccountInv, Chain, Delivered
<1>8. CoveredBy(gaps) \subseteq CoveredBy(gaps') /\ L \subseteq M /\ LogFollows(M, X, N)
      /\ ChanFollows(chan', M, X, N)
  <2>1. CASE UNCHANGED <<chan, logged, gaps>>
    BY <1>7, <2>1
  <2>2. CASE Answered(Head(events))
    <3>1. /\ CoveredBy(gaps) \subseteq CoveredBy(gaps') /\ M = D /\ LogFollows(D, X, N)
          /\ chan' = <<>>
      BY <1>1, <2>2, AnsweredAccount
    <3>2. ChanFollows(chan', M, X, N)
      BY <3>1 DEF ChanFollows
    <3>3. L \subseteq D
      BY DEF Delivered
    <3> HIDE DEF L, M, D, X, N
    <3>4. QED
      BY <3>1, <3>2, <3>3
  <2>3. QED
    BY <2>1, <2>2
<1>9. ListFollows(todo', D, X, N)
  <2>1. RowIds(todo, 2) = {}
    <3>1. todo[1].do = "flush"
      BY <1>2, TailSeq DEF Flushing
    <3>2. todo[1].do # "row"
      BY <3>1
    <3>3. QED
      BY <3>2, FirstRowId
  <2>2. D \cup RowIds(todo, 2) = D
    BY <2>1
  <2> HIDE DEF D, X, N
  <2>3. ListFollows(Rest(<<>>), D, X, N) /\ ListFollows(Rest(events), D, X, N)
    BY <1>1, <1>2, <1>7, <2>2, RestFollows
  <2>4. Rest(events) = Tail(todo)
    BY <1>1 DEF Rest
  <2>5. todo' \in {todo, Rest(<<>>), Rest(events)}
    BY <2>4 DEF GoesOn, Sent
  <2>6. QED
    BY <1>7, <2>3, <2>5
<1>10. Chain(M, chan', todo', X, N)
  <2>1. M \cup ChanIds(chan', 0, Len(chan')) = D
    BY <1>5 DEF Delivered
  <2> HIDE DEF M, D, X, N
  <2>2. QED
    BY <1>8, <1>9, <2>1 DEF Chain
<1>11. Held' = Range(events') \cup EventsOf(todo) /\ Held = Range(events) \cup EventsOf(todo)
  <2>1. Held' = Range(events') \cup EventsOf(todo')
    BY DEF Held, EventsOf
  <2>2. QED
    BY <1>4, <2>1, NewsAre
<1>12. Held' \subseteq Held
  BY <1>4, <1>11
<1>13. News' \subseteq News /\ Mine' \subseteq Mine
  BY <1>12 DEF News, Mine
<1>14. SpansIn(Mine', Mine) /\ SpansIn(AllGaps', AllGaps)
  <2>1. AllGaps' \subseteq gaps' \cup AllGaps
    BY <1>12 DEF AllGaps
  <2>2. QED
    BY <1>5, <1>13, <2>1 DEF SpansIn
<1>15. ASSUME NEW x \in News
       PROVE  x \in News' \/ x \in gaps' \/ x.first .. x.last \subseteq dropped'
  <2>1. x \in Held /\ x.status = "detected"
    BY DEF News
  <2>2. CASE x \in Held'
    BY <2>1, <2>2 DEF News
  <2>3. CASE x \notin Held'
    <3>1. x \in Range(events) /\ x \notin Range(events') /\ events' # events
      BY <1>11, <2>1, <2>3
    <3>2. events' = Tail(events)
      BY <3>1 DEF GoesOn, Sent
    <3>3. x = e
      BY <1>1, <1>2, <3>1, <3>2, TailSeq, TailRange
    <3>4. QED
      BY <2>1, <3>1, <3>3 DEF Told
  <2>4. QED
    BY <2>2, <2>3
<1>16. Accounted \subseteq Accounted'
  <2>1. ASSUME NEW i \in CoveredBy(News)
        PROVE  i \in CoveredBy(gaps') \cup CoveredBy(News') \cup dropped'
    <3>1. PICK x \in News : Covers(x, i)
      BY DEF CoveredBy
    <3>2. i \in Ids /\ i \in Nat
      BY DEF CoveredBy, Ids
    <3>3. x.first \in Nat /\ x.last \in Nat
      BY <1>1, AllGapsNat DEF ProgressInv, News, AllGaps, NatSpans
    <3>4. i \in x.first .. x.last
      BY <3>1, <3>2, <3>3 DEF Covers
    <3>5. QED
      BY <1>15, <3>1, <3>2, <3>4 DEF CoveredBy
  <2>2. Accounted' = CoveredBy(gaps') \cup CoveredBy(News') \cup blind \cup dropped'
    BY DEF Accounted
  <2>3. QED
    BY <1>8, <2>1, <2>2 DEF Accounted
<1> HIDE DEF e, D
<1>17. QED
  BY <1>3, <1>6, <1>8, <1>10, <1>13, <1>14, <1>16, AccountKept

\* TP acknowledges an event.
LEMMA EventAckedAccount ==
    ASSUME AccountInv, EventAcked
    PROVE  AccountInv'
<1>1. ProgressInv'
  BY EventAckedProgress DEF AccountInv
<1>2. /\ Flushing /\ GoesOn /\ UNCHANGED <<up, last, jobs, blind, dropped>> /\ Answered(Head(events))
      /\ Head(events) \in gaps'
  BY DEF EventAcked, GoesOn, TpEvent, Answered, NoteGap, ghosts
<1>3. QED
  BY <1>1, <1>2, FlushedAccount DEF Told

\* No acknowledgement comes.
LEMMA EventUnackedAccount ==
    ASSUME AccountInv, EventUnacked
    PROVE  AccountInv'
<1>1. ProgressInv'
  BY EventUnackedProgress DEF AccountInv
<1>2. /\ Flushing /\ GoesOn /\ UNCHANGED <<up, last, jobs, blind, dropped, events>>
      /\ UNCHANGED <<chan, logged, gaps>> \/ Answered(Head(events))
  BY DEF EventUnacked, GoesOn, TpEvent, Answered, tp, ghosts
<1>3. QED
  BY <1>1, <1>2, FlushedAccount DEF Told

\* TP rejects an event; that its ids are excused is the only account of them.
LEMMA EventRejectedAccount ==
    ASSUME AccountInv, EventRejected
    PROVE  AccountInv'
<1>1. ProgressInv'
  BY EventRejectedProgress DEF AccountInv
<1>2. /\ Flushing /\ GoesOn /\ UNCHANGED <<up, last, jobs, blind>> /\ Answered(Head(events))
      /\ dropped \subseteq dropped' /\ Told
  BY DEF EventRejected, GoesOn, Answered, Told
<1>3. QED
  BY <1>1, <1>2, FlushedAccount

\* What the pump says of a gap is no news, and its rows are inside the first gap.
Quiet(td) == \A e \in EventsOf(td) : e.status # "detected"

\* No status that the pump gives is the first one.
LEMMA OtherStatuses == \A x \in {"partial", "recovered", "unrecoverable"} : x # "detected"
OBVIOUS

\* One event of the pump.
LEMMA OneQuiet ==
    ASSUME NEW g, NEW status \in {"partial", "recovered", "unrecoverable"}
    PROVE  Quiet(<<Record(GapEvent(g, status))>>)
<1> DEFINE ev == GapEvent(g, status)
           a == Record(ev)
           td == <<a>>
<1>1. a.event = ev /\ ev.status = status /\ Range(td) = {a}
  BY DEF Record, GapEvent, Range
<1>2. \A e \in EventsOf(td) : e = ev
  <2> HIDE DEF a, td
  <2>1. QED
    BY <1>1 DEF EventsOf
<1>3. ev.status # "detected"
  BY <1>1, OtherStatuses
<1> HIDE DEF td, ev
<1>4. Quiet(td)
  BY <1>2, <1>3 DEF Quiet
<1>5. QED
  BY <1>4 DEF td, a, ev

\* The rows of a page are inside the gap, and its event is no news.
LEMMA OutcomeQuiet ==
    ASSUME NEW s \in Nat, NEW q \in Seq(JobType(s)), q # <<>>, NEW res, Outcome(res, q, s),
           NEW D, NEW G, NatSpans(G), JobsGood(q, D, G), Range(q) \subseteq G
    PROVE  Quiet(res.out) /\ AllRowIds(res.out) \subseteq 1 .. q[1].last
<1>1. CASE GivenUp(res, q)
  <2>1. AllRowIds(res.out) = {}
    BY <1>1, GivenUpGood
  <2>2. Quiet(res.out)
    BY <1>1, OneQuiet DEF GivenUp
  <2>3. QED
    BY <2>1, <2>2
<1>2. CASE Retried(res, q, s)
  <2>1. res.out = <<>>
    BY <1>2 DEF Retried
  <2>2. QED
    BY <2>1, EmptyLists DEF Quiet
<1>3. ASSUME NEW n \in Nat \ {0}, NEW g \in JobType(s), NEW status \in Statuses,
             Gained(res, q, s, n, g, status)
      PROVE  Quiet(res.out) /\ AllRowIds(res.out) \subseteq 1 .. q[1].last
  <2> DEFINE h == q[1]
             from == NextNeeded(h)
             ev == GapEvent(g, status)
             e == Record(ev)
             u == res.out
  <2>1. /\ g.last = h.last /\ g.through = from + n - 1 /\ g.through <= g.last
        /\ u = RowsThen(from, n, e) /\ status \in {"recovered", "partial"}
    BY <1>3 DEF Gained
  <2>2. h \in JobType(s) /\ Sound(h, D, G) /\ h.last \in Nat /\ h.last <= s
    BY TailSeq, JobsGoodTail, JobFields
  <2>3. from \in Nat \ {0}
    BY <2>2, BeforeNeeded
  <2>4. e \in CommandType(s) /\ e.do = "event" /\ e.event = ev /\ ev.status = status
    BY GapEventTyped DEF Record, GapEvent
  <2> HIDE DEF h, from, ev, e, u
  <2>5. from + n - 1 <= h.last /\ from + n - 1 <= s /\ n \in Nat
    BY <2>1, <2>2, <2>3
  <2>6. HasRowsThen(u, s, from, n, e)
    BY <2>1, <2>3, <2>4, <2>5, RowsThenIs
  <2>7. /\ \A k \in 1 .. n + 1 : RowIds(u, k) = from .. (from + k - 2)
        /\ AllRowIds(u) = from .. (from + n - 1)
        /\ EventsOf(u) = {e.event}
    BY <2>3, <2>4, <2>5, <2>6, PageRowIds
  <2>8. Quiet(u)
    BY <2>1, <2>4, <2>7, OtherStatuses DEF Quiet
  <2>9. AllRowIds(u) \subseteq 1 .. h.last
    BY <2>2, <2>3, <2>5, <2>7
  <2>10. QED
    BY <2>8, <2>9 DEF u, h
<1>4. QED
  BY <1>1, <1>2, <1>3 DEF Outcome

\* Nor are the events of gaps that need no request.
LEMMA SettleQuiet ==
    ASSUME NEW s \in Nat, NEW q \in Seq(JobType(s))
    PROVE  Quiet(Settle(q).out)
<1> DEFINE St(k) == IF OutOfReach(q[k]) THEN "unrecoverable" ELSE "recovered"
           o == Settle(q).out
<1>1. PICK n : Settles(q, n)
  BY SettleIs
<1>2. n \in 0 .. Len(q) /\ Len(q) \in Nat /\ o = [k \in 1 .. n |-> Record(GapEvent(q[k], St(k)))]
  BY <1>1 DEF Settles
<1>3. DOMAIN o = 1 .. n /\ \A k \in 1 .. n : o[k] = Record(GapEvent(q[k], St(k)))
  BY <1>2
<1> HIDE DEF o
<1>4. \A k \in 1 .. n : o[k].event.status \in {"recovered", "unrecoverable"}
  BY <1>3 DEF Record, GapEvent
<1>5. \A d \in Range(o) : d.event.status \in {"recovered", "unrecoverable"}
  BY <1>3, <1>4 DEF Range
<1>6. \A e \in EventsOf(o) : e.status \in {"recovered", "unrecoverable"}
  BY <1>5 DEF EventsOf
<1>7. QED
  BY <1>6, OtherStatuses DEF Quiet, o

\* The pump.
LEMMA PumpAccount ==
    ASSUME AccountInv, NEW granted \in BOOLEAN, PumpBackfill(granted)
    PROVE  AccountInv'
<1> DEFINE D == Delivered
           G == Range(jobs)
           a == Taken.out
           b == Settled.out
           E == D \cup AllRowIds(a)
           X == Accounted
           N == News
<1>1. ProgressInv /\ ProgressInv' /\ TypedInv
  BY PumpProgress DEF AccountInv, ProgressInv
<1>2. /\ todo # <<>> /\ Head(todo).do = "pump" /\ jobs' = Settled.jobs /\ todo' = a \o b
      /\ UNCHANGED <<up, last, events, chan, logged, gaps, blind, dropped>>
  BY PumpParts DEF tp, ghosts
<1>3. up'
  BY <1>1, <1>2 DEF TypedInv, Nothing
<1>4. AllRowIds(todo) = {} /\ EventsOf(todo) = {}
  BY <1>1, <1>2, PumpAlone
<1>5. OnTheWay = D /\ Delivered' = D
  BY <1>2, <1>4 DEF OnTheWay, Delivered
<1>6. NatSpans(G) /\ SpansIn(G, AllGaps)
  BY <1>1, AllGapsNat, AllGapsAre DEF NatSpans, SpansIn
<1>7. JobsGood(jobs, D, G) /\ TrackerGood(last, D, G)
  <2>1. JobsGood(jobs, D, AllGaps) /\ TrackerGood(last, D, AllGaps)
    BY <1>1, <1>5 DEF ProgressInv
  <2> HIDE DEF D, G
  <2>2. QED
    BY <1>6, <2>1, QueuesGoodFewer, TrackerGoodFewer
<1>8. a \in Seq(CommandType(sent)) /\ b \in Seq(CommandType(sent)) /\ todo' \in Seq(CommandType(sent))
  <2>1. a \in Seq(CommandType(sent)) /\ b \in Seq(CommandType(sent))
    BY <1>1, TakenTyped, SettledTyped DEF Outs
  <2>2. QED
    BY <1>2, <2>1, ConcatIs
<1>9. /\ sent \in Nat /\ last \in Nat /\ jobs \in Seq(JobType(sent))
      /\ Taken.jobs \in Seq(JobType(sent))
  BY <1>1, TakenTyped, TradeConstants DEF TypedInv
<1>10. Quiet(a) /\ AllRowIds(a) \subseteq 1 .. last
  <2>1. CASE fetch.st = "page"
    <3>1. jobs # <<>>
      BY <1>1, <2>1 DEF TypedInv, AnswerFitsGap
    <3>2. Outcome(Taken, jobs, sent)
      BY <1>9, <2>1, <3>1, PageOutcome DEF Taken
    <3>3. Quiet(a) /\ AllRowIds(a) \subseteq 1 .. jobs[1].last
      <4> HIDE DEF D
      <4>1. QED
        BY <1>6, <1>7, <1>9, <3>1, <3>2, OutcomeQuiet
    <3>4. jobs[1].last <= last /\ jobs[1].last \in Nat
      <4>1. jobs[1] \in Range(jobs) /\ jobs[1] \in JobType(sent)
        BY <1>9, <3>1, TailSeq, TailRange
      <4>2. QED
        BY <1>9, <4>1, JobFields DEF AccountInv, Mine
    <3>5. 1 .. jobs[1].last \subseteq 1 .. last
      BY <1>9, <3>4
    <3> HIDE DEF a
    <3>6. QED
      BY <3>3, <3>5
  <2>2. CASE fetch.st # "page"
    <3>1. a = <<>>
      BY <2>2 DEF Taken
    <3>2. QED
      BY <3>1, EmptyLists DEF Quiet
  <2>3. QED
    BY <2>1, <2>2
<1>11. Quiet(b)
  <2>1. CASE fetch.st = "asked"
    <3>1. b = <<>>
      BY <2>1 DEF Settled
    <3>2. QED
      BY <3>1, EmptyLists DEF Quiet
  <2>2. CASE fetch.st # "asked"
    <3>1. Settled = Settle(Taken.jobs)
      BY <2>2 DEF Settled
    <3>2. QED
      BY <1>9, <3>1, SettleQuiet
  <2>3. QED
    BY <2>1, <2>2
<1> HIDE DEF D, G
<1>12. Pumped(Taken, D, E, G) /\ Pumped(Settled, E, E, G) /\ AllRowIds(b) = {}
  <2>1. Pumped(Taken, D, E, G)
    <3>1. Range(jobs) \subseteq G
      BY DEF G
    <3>2. QED
      BY <1>1, <1>6, <1>7, <3>1, TakenGood
  <2>2. JobsGood(Taken.jobs, E, G) /\ SpansIn(Range(Taken.jobs), G)
    BY <2>1 DEF Pumped
  <2>3. QED
    BY <1>1, <1>6, <2>1, <2>2, SettledGood
<1>13. /\ ListGood(a, D, G) /\ ListGood(b, E, G) /\ SpansIn(EventsOf(a), G) /\ SpansIn(EventsOf(b), G)
       /\ SpansIn(Range(jobs'), G)
  BY <1>2, <1>12 DEF Pumped
<1> HIDE DEF a, b
<1>14. AllRowIds(todo') = AllRowIds(a) /\ EventsOf(todo') = EventsOf(a) \cup EventsOf(b)
  <2>1. ListGood(b, D \cup AllRowIds(a), G)
    BY <1>13
  <2> HIDE DEF E
  <2>2. /\ ListGood(a \o b, D, G) /\ AllRowIds(a \o b) = AllRowIds(a) \cup AllRowIds(b)
        /\ EventsOf(a \o b) = EventsOf(a) \cup EventsOf(b)
    BY <1>8, <1>13, <2>1, ConcatGood
  <2>3. QED
    BY <1>2, <1>12, <2>2
<1>15. OnTheWay' = D \cup AllRowIds(a)
  BY <1>5, <1>14 DEF OnTheWay
<1>16. Held' = Range(events) \cup EventsOf(todo') /\ Held = Range(events)
  <2>1. Held' = Range(events') \cup EventsOf(todo')
    BY DEF Held, EventsOf
  <2>2. QED
    BY <1>2, <1>4, <2>1, NewsAre
<1>17. News' = News
  <2>1. Quiet(todo')
    BY <1>10, <1>11, <1>14 DEF Quiet
  <2>2. QED
    BY <1>16, <2>1 DEF News, Quiet
<1>18. Accounted' = Accounted
  BY <1>2, <1>17 DEF Accounted
<1>19. SpansIn(Mine', Mine) /\ SpansIn(AllGaps', AllGaps)
  <2>1. Mine' = Range(events) \cup EventsOf(todo') \cup Range(jobs') /\ Mine = Range(events) \cup G
    BY <1>16 DEF Mine, G
  <2>2. SpansIn(Mine', Mine)
    BY <1>13, <1>14, <2>1 DEF SpansIn
  <2>3. AllGaps' = gaps \cup Mine' /\ AllGaps = gaps \cup Mine
    BY <1>2 DEF AllGaps, Mine
  <2>4. QED
    BY <2>2, <2>3 DEF SpansIn
<1>20. ASSUME NEW i \in AllRowIds(a)
       PROVE  Follows(i, D, X, N)
  <2>1. i \in 1 .. last /\ last > 0
    BY <1>9, <1>10
  <2>2. 1 .. last \subseteq D \cup X /\ NewsPassed(N, D)
    BY <1>5, <2>1 DEF AccountInv, TrackerCovers
  <2> HIDE DEF X, N
  <2>3. 1 .. i - 1 \subseteq D \cup X
    BY <1>9, <2>1, <2>2
  <2>4. QED
    BY <2>2, <2>3 DEF Follows, NewsPassed
<1>21. ListFollows(todo', D, X, N)
  <2>1. \A e \in EventsOf(todo') : e.status # "detected"
    BY <1>10, <1>11, <1>14 DEF Quiet
  <2>2. \A i \in AllRowIds(todo') : Follows(i, D, X, N)
    BY <1>14, <1>20
  <2> HIDE DEF X, N
  <2>3. QED
    BY <1>8, <2>1, <2>2, ListFollowsFree
<1>22. Chain(LoggedIds(logged'), chan', todo', X, N)
  BY <1>2, <1>21 DEF AccountInv, Chain, Delivered, D
<1>23. OnTheWay \subseteq OnTheWay' /\ OnTheWay' \subseteq OnTheWay \cup (1 .. last)
  BY <1>5, <1>10, <1>15
<1>24. QED
  BY <1>1, <1>2, <1>3, <1>17, <1>18, <1>19, <1>22, <1>23, AccountKept


-----------------------------------------------------------------------------
(* Starts, kills and messages *)

\* A handler starts without a trade state.
LEMMA StartBlindAccount ==
    ASSUME AccountInv, StartBlind
    PROVE  AccountInv'
<1>1. ProgressInv' /\ up' /\ UNCHANGED <<last, jobs, events, todo, chan, logged, gaps, blind, dropped>>
  BY StartBlindProgress DEF StartBlind, handler, tp, ghosts, AccountInv
<1>2. QED
  BY <1>1, AccountSame

\* A trade that no handler reads.
LEMMA MissedAccount ==
    ASSUME AccountInv, Missed
    PROVE  AccountInv'
<1>1. ProgressInv' /\ UNCHANGED <<up, last, jobs, events, todo, chan, logged, gaps, blind, dropped>>
  BY MissedProgress DEF Missed, handler, tp, ghosts, AccountInv
<1>2. QED
  BY <1>1, AccountSame

\* The connection breaks.
LEMMA BreakAccount ==
    ASSUME AccountInv, Break
    PROVE  AccountInv'
<1>1. ProgressInv' /\ UNCHANGED <<up, last, jobs, events, todo, chan, logged, gaps, blind, dropped>>
  BY BreakProgress DEF Break, handler, tp, ghosts, AccountInv
<1>2. QED
  BY <1>1, AccountSame

\* The worker's request ends.
LEMMA WorkerFetchesAccount ==
    ASSUME AccountInv, WorkerFetches
    PROVE  AccountInv'
<1>1. ProgressInv' /\ UNCHANGED <<up, last, jobs, events, todo, chan, logged, gaps, blind, dropped>>
  BY WorkerFetchesProgress DEF WorkerFetches, tp, ghosts, AccountInv
<1>2. QED
  BY <1>1, AccountSame

\* A message that cannot be read.
LEMMA ReadUnreadableAccount ==
    ASSUME AccountInv, ReadUnreadable
    PROVE  AccountInv'
<1>1. ProgressInv'
  BY ReadUnreadableProgress DEF AccountInv
<1>2. /\ todo = <<>> /\ todo' = <<Pump>> /\ up'
      /\ UNCHANGED <<last, jobs, events, chan, logged, gaps, blind, dropped>>
  BY DEF ReadUnreadable, Idle, tp, ghosts
<1>3. QED
  BY <1>1, <1>2, OtherAccount

\* A trade of another symbol.
LEMMA ReadOtherAccount ==
    ASSUME AccountInv, ReadOther
    PROVE  AccountInv'
<1>1. ProgressInv'
  BY ReadOtherProgress DEF AccountInv
<1>2. /\ todo = <<>> /\ todo' = <<Row(0, FALSE), Flush, Pump>> /\ up'
      /\ UNCHANGED <<last, jobs, events, chan, logged, gaps, blind, dropped>>
  BY DEF ReadOther, Idle, tp, ghosts
<1>3. QED
  BY <1>1, <1>2, OtherAccount

\* A handler starts with TP's last id, up to which all is accounted for, and with the
\* open gaps, which all end before it.
LEMMA StartAccount ==
    ASSUME AccountInv, Start
    PROVE  AccountInv'
<1> DEFINE L == LoggedIds(logged)
           S == {Job(g) : g \in OpenGaps}
           X == Accounted
           N == News
<1>1. TypedInv /\ ProgressInv' /\ ~up
  BY StartProgress DEF AccountInv, ProgressInv, Start
<1>2. /\ Nothing /\ TpTyped(TpNow, sent) /\ sent \in Nat /\ last' = LastId /\ jobs' \in ByFirstId(S)
      /\ up' /\ UNCHANGED <<events, todo, chan, logged, gaps, blind, dropped>>
  BY <1>1, TradeConstants DEF Start, TypedInv, tp, ghosts
<1>3. Delivered = L /\ OnTheWay = L /\ AllGaps = gaps
  BY <1>2, OnlyTheLog
<1>4. Delivered' = Delivered /\ OnTheWay' = OnTheWay /\ Held' = Held
  BY <1>2 DEF Delivered, OnTheWay, Held
<1>5. News' = N
  BY <1>4 DEF News
<1>6. Accounted' = X
  BY <1>2, <1>5 DEF Accounted
<1>7. L \subseteq 1 .. sent /\ gaps \subseteq GapType(sent)
      /\ \A g, h \in gaps : g.first = h.first => g = h
  BY <1>2 DEF TpTyped, TpNow
<1>8. LastId \in 0 .. sent /\ (LastId # 0 => LastId \in L) /\ \A i \in L : i <= LastId
  BY <1>2, <1>7, LastIdIs DEF LastId
<1>9. LogFollows(L, X, N) /\ \A g \in OpenGaps : g.last <= LastId
  BY <1>1 DEF AccountInv, Chain
<1>10. Range(jobs') \subseteq S
  <2>1. jobs' \in [1 .. Cardinality(S) -> S]
    BY <1>2 DEF ByFirstId
  <2> HIDE DEF S
  <2>2. QED
    BY <2>1 DEF Range
<1>11. ASSUME NEW j \in S
       PROVE  \E g \in OpenGaps : j.first = g.first /\ j.last = g.last
  BY DEF Job
<1>12. Held = {}
  BY <1>2, EmptyLists, NewsAre DEF Nothing
<1> HIDE DEF L, S, X, N
<1>13. TrackerCovers(last', L, X)
  <2>1. ASSUME LastId > 0
        PROVE  1 .. LastId \subseteq L \cup X
    <3>1. LastId \in L /\ LastId \in Nat
      BY <1>2, <1>8, <2>1
    <3>2. 1 .. LastId - 1 \subseteq L \cup X
      BY <1>9, <3>1 DEF LogFollows, Follows
    <3>3. 1 .. LastId = (1 .. LastId - 1) \cup {LastId}
      BY <2>1, <3>1
    <3>4. QED
      BY <3>1, <3>2, <3>3
  <2>2. QED
    BY <1>2, <1>8, <2>1 DEF TrackerCovers
<1>14. Mine' = Range(jobs') /\ AllGaps' = gaps \cup Range(jobs')
  BY <1>2, <1>4, <1>12 DEF Mine, AllGaps
<1>15. \A h \in Mine' : h.last <= last'
  BY <1>2, <1>9, <1>10, <1>11, <1>14
<1>16. NotLarger(AllGaps', Mine')
  <2>1. NotLarger(gaps, gaps)
    <3>1. \A g \in gaps : g.last \in Nat
      BY <1>2, <1>7, GapFields
    <3>2. \A g \in gaps : g.last <= g.last
      BY <3>1
    <3>3. QED
      BY <1>7, <3>2 DEF NotLarger
  <2>2. SpansIn(Range(jobs'), gaps)
    BY <1>10, <1>11 DEF SpansIn, OpenGaps
  <2>3. SpansIn(gaps \cup Range(jobs'), gaps)
    BY <2>2 DEF SpansIn
  <2>4. NotLarger(gaps \cup Range(jobs'), Range(jobs'))
    BY <2>1, <2>2, <2>3, NotLargerFewer
  <2>5. QED
    BY <1>14, <2>4
<1>17. Chain(LoggedIds(logged'), chan', todo', Accounted', News')
  BY <1>2, <1>5, <1>6 DEF AccountInv, X, N
<1>18. NewsPassed(News', OnTheWay')
  BY <1>4, <1>5 DEF AccountInv, N
<1>19. TrackerCovers(last', OnTheWay', Accounted')
  BY <1>3, <1>4, <1>6, <1>13
<1>20. OnTheWay' \subseteq LoggedIds(logged')
  BY <1>2, <1>3, <1>4 DEF L
<1>21. QED
  BY <1>1, <1>2, <1>15, <1>16, <1>17, <1>18, <1>19, <1>20 DEF AccountInv


\* News of gaps behind all that is logged account for none of it.
LEMMA ForgetNews ==
    ASSUME NEW M, M \subseteq Nat, NEW Z, NEW N, LogFollows(M, Z \cup CoveredBy(N), N),
           \A e \in N : e.first \in Nat /\ \A j \in M : j < e.first
    PROVE  LogFollows(M, Z, {})
<1>1. ASSUME NEW j \in M, NEW i \in 1 .. j - 1
      PROVE  i \in M \cup Z
  <2>1. i \in M \cup (Z \cup CoveredBy(N))
    BY DEF LogFollows, Follows
  <2>2. i \notin CoveredBy(N)
    BY DEF CoveredBy, Covers
  <2>3. QED
    BY <2>1, <2>2
<1>2. QED
  BY <1>1 DEF LogFollows, Follows

\* A handler ends when the log and the records of the gaps agree: no news are lost of a
\* gap that the log has come to.
LEMMA KilledAccount ==
    ASSUME AccountInv, Killed, KillAnywhere = FALSE
    PROVE  AccountInv'
<1>1. PICK n \in 0 .. Len(chan) : /\ ~ Disagree(LogRows(SubSeq(chan, 1, n)))
                                  /\ logged' = LogRows(SubSeq(chan, 1, n)).logged
                                  /\ gaps' = LogRows(SubSeq(chan, 1, n)).gaps
  BY DEF Killed
<1> DEFINE M == LoggedIds(logged')
           X == Accounted
           N == News
           Z == CoveredBy(gaps') \cup blind \cup dropped
           t == LogRows(SubSeq(chan, 1, n))
<1>2. /\ chan' = <<>> /\ last' = 0 /\ jobs' = <<>> /\ events' = <<>> /\ todo' = <<>>
      /\ up' = FALSE /\ UNCHANGED <<blind, dropped>>
  BY DEF Killed, ghosts
<1>3. ProgressInv' /\ TypedInv /\ Nothing'
  BY <1>2, KilledProgress DEF AccountInv, ProgressInv, TypedInv
<1>4. /\ M = LoggedIds(logged) \cup ChanIds(chan, 0, n) /\ LogFollows(M, X, N)
      /\ SpansIn(gaps', gaps) /\ SpansIn(gaps, gaps')
  BY <1>1, LogsAccount
<1>5. sent' \in Nat /\ M \subseteq 1 .. sent' /\ gaps' \subseteq GapType(sent')
  <2>1. sent' \in 0 .. MaxTrades /\ TpTyped(TpNow', sent')
    BY <1>3 DEF ProgressInv, TypedInv
  <2>2. sent' \in Nat
    BY <2>1, TradeConstants
  <2>3. TpNow'.logged = logged' /\ TpNow'.gaps = gaps'
    BY DEF TpNow
  <2>4. QED
    BY <2>1, <2>2, <2>3 DEF TpTyped
<1>6. LastId' \in 0 .. sent' /\ \A i \in M : i <= LastId'
  BY <1>5, LastIdIs DEF LastId
<1>7. ~ Disagree(t) /\ Max(LoggedIds(t.logged) \cup {0}) = LastId' /\ t.gaps = gaps'
  BY <1>1 DEF LastId
<1> HIDE DEF t
<1>8. /\ \A e \in Range(events) : ~ (e.status = "detected" /\ e.last < LastId')
      /\ \A g \in gaps' : ~ (g.status \in OpenStatuses /\ LastId' < g.last)
  BY <1>7 DEF Disagree
<1>9. M \subseteq Delivered
  <2>1. Len(chan) \in Nat
    BY <1>3 DEF TypedInv
  <2>2. ChanIds(chan, 0, n) \subseteq ChanIds(chan, 0, Len(chan))
    BY <2>1 DEF ChanIds
  <2>3. QED
    BY <1>4, <2>2 DEF Delivered
<1>10. NatSpans(AllGaps)
  BY <1>3, AllGapsNat
<1>11. ASSUME NEW e \in N
       PROVE  e.first \in Nat /\ \A j \in M : j < e.first
  <2>1. e \in Range(events) \cup EventsOf(todo) /\ e.status = "detected"
    BY NewsAre
  <2>2. e.first \in Nat /\ e.last \in Nat
    BY <1>10, <2>1, AllGapsAre DEF NatSpans
  <2>3. CASE e \in Range(events)
    <3>1. ~ (e.last < LastId')
      BY <1>8, <2>1, <2>3
    <3>2. ASSUME NEW j \in M, e.first <= j
          PROVE  FALSE
      <4>1. PICK i \in M \cup {j} : e.last < i
        BY <1>4, <3>2 DEF LogFollows, Follows
      <4> HIDE DEF M
      <4>2. i \in M
        BY <4>1
      <4>3. i <= LastId' /\ i \in Nat /\ LastId' \in Nat
        BY <1>5, <1>6, <4>2
      <4>4. QED
        BY <2>2, <3>1, <4>1, <4>3
    <3> HIDE DEF M
    <3>3. QED
      BY <1>5, <2>2, <3>2
  <2>4. CASE e \in EventsOf(todo)
    <3>1. PICK k \in 1 .. Len(todo) : todo[k].do = "event" /\ todo[k].event = e
      <4>1. PICK c \in Range(todo) : c.do = "event" /\ c.event = e
        BY <2>4 DEF EventsOf
      <4>2. DOMAIN todo = 1 .. Len(todo)
        BY <1>3 DEF TypedInv
      <4>3. QED
        BY <4>1, <4>2 DEF Range
    <3>2. CommandFollows(todo[k], Delivered \cup RowIds(todo, k), X, N)
      BY DEF AccountInv, Chain, ListFollows, Delivered
    <3>3. \A i \in Delivered : i < e.first
      BY <2>1, <3>1, <3>2 DEF CommandFollows
    <3>4. QED
      BY <1>9, <2>2, <3>3
  <2>5. QED
    BY <2>1, <2>3, <2>4
<1>12. LogFollows(M, Z, {})
  <2>1. CoveredBy(gaps) \subseteq CoveredBy(gaps')
    BY <1>4, CoveredMore
  <2>2. X \subseteq Z \cup CoveredBy(N)
    BY <2>1 DEF Accounted
  <2> HIDE DEF X, Z, N, M
  <2>3. LogFollows(M, Z \cup CoveredBy(N), N)
    BY <1>4, <2>2, FollowsMore DEF LogFollows
  <2>4. M \subseteq Nat
    BY <1>5
  <2>5. QED
    BY <1>11, <2>3, <2>4, ForgetNews
<1>13. Held' = {} /\ Mine' = {} /\ News' = {}
  <2>1. Held' = Range(events') \cup EventsOf(todo')
    BY DEF Held, EventsOf
  <2>2. Held' = {} /\ Range(jobs') = {}
    BY <1>2, <2>1, EmptyLists
  <2>3. QED
    BY <2>2 DEF Mine, News
<1>14. OnTheWay' = M
  <2>1. (Nothing => OnTheWay = LoggedIds(logged))'
    BY OnlyTheLog, PTL
  <2>2. QED
    BY <1>3, <2>1
<1>15. Accounted' = Z
  <2>1. CoveredBy({}) = {}
    BY DEF CoveredBy
  <2>2. QED
    BY <1>2, <1>13, <2>1 DEF Accounted
<1>16. Chain(M, chan', todo', Z, {})
  <2>1. Len(chan') = 0 /\ Len(todo') = 0
    BY <1>2
  <2> HIDE DEF M, Z
  <2>2. QED
    BY <1>12, <2>1 DEF Chain, ChanFollows, ListFollows
<1>17. \A g \in OpenGaps' : g.last <= LastId'
  <2>1. \A g \in gaps' : g.last \in Nat
    BY <1>5, GapFields
  <2>2. QED
    BY <1>6, <1>8, <2>1 DEF OpenGaps
<1> HIDE DEF M, Z
<1>18. Chain(LoggedIds(logged'), chan', todo', Accounted', News')
  BY <1>13, <1>15, <1>16 DEF M
<1>19. OnTheWay' \subseteq LoggedIds(logged')
  BY <1>14 DEF M
<1>20. /\ NewsPassed(News', OnTheWay') /\ NotLarger(AllGaps', Mine')
       /\ TrackerCovers(last', OnTheWay', Accounted') /\ \A h \in Mine' : h.last <= last'
  <2>1. ~ (last' > 0)
    BY <1>2
  <2>2. QED
    BY <1>13, <2>1 DEF NewsPassed, NotLarger, TrackerCovers
<1>21. QED
  BY <1>2, <1>3, <1>17, <1>18, <1>19, <1>20 DEF AccountInv


\* The commands of a message come after the ids D when its row does and its news do.
LEMMA MessageFollows ==
    ASSUME NEW a, a.do = "event", NEW i \in Nat, i >= 1, NEW D, NEW X, NEW N, Follows(i, D, X, N)
    PROVE  LET b == Row(i, FALSE)
               v == <<a, b, Flush, Pump>>
               w == <<b, Flush, Pump>>
           IN  /\ ListFollows(w, D, X, N)
               /\ CommandFollows(a, D, X, N) => ListFollows(v, D, X, N)
<1> DEFINE b == Row(i, FALSE)
           v == <<a, b, Flush, Pump>>
           w == <<b, Flush, Pump>>
<1>1. /\ Len(v) = 4 /\ v[1] = a /\ v[2] = b /\ v[3] = Flush /\ v[4] = Pump
      /\ Len(w) = 3 /\ w[1] = b /\ w[2] = Flush /\ w[3] = Pump
  OBVIOUS
<1>2. b.do = "row" /\ b.id = i /\ Flush.do = "flush" /\ Pump.do = "pump"
  BY DEF Row, Flush, Pump
<1> HIDE DEF v, w, b
<1>3. RowIds(w, 1) = {} /\ RowIds(v, 1) = {} /\ RowIds(v, 2) = {}
  BY <1>1, <1>2, FirstRowId
<1>4. /\ CommandFollows(b, D, X, N)
      /\ \A L : CommandFollows(Flush, L, X, N) /\ CommandFollows(Pump, L, X, N)
  BY <1>2 DEF CommandFollows
<1>5. ListFollows(w, D, X, N)
  <2>1. ASSUME NEW k \in 1 .. 3
        PROVE  CommandFollows(w[k], D \cup RowIds(w, k), X, N)
    <3>1. CASE k = 1
      BY <1>1, <1>3, <1>4, <3>1
    <3>2. CASE k # 1
      BY <1>1, <1>4, <3>2
    <3>3. QED
      BY <3>1, <3>2
  <2>2. QED
    BY <1>1, <2>1 DEF ListFollows
<1>6. ASSUME CommandFollows(a, D, X, N)
      PROVE  ListFollows(v, D, X, N)
  <2>1. ASSUME NEW k \in 1 .. 4
        PROVE  CommandFollows(v[k], D \cup RowIds(v, k), X, N)
    <3>1. CASE k = 1
      BY <1>1, <1>3, <1>6, <3>1
    <3>2. CASE k = 2
      BY <1>1, <1>3, <1>4, <3>2
    <3>3. CASE k # 1 /\ k # 2
      BY <1>1, <1>4, <3>3
    <3>4. QED
      BY <3>1, <3>2, <3>3
  <2>2. QED
    BY <1>1, <2>1 DEF ListFollows
<1>7. QED
  BY <1>5, <1>6 DEF v, w, b

\* News of a gap behind the log and the channel disturb neither.
LEMMA NewsBehind ==
    ASSUME NEW L, NEW q, NEW X, NEW Y, X \subseteq Y, NEW N, NEW e, Len(q) \in Nat,
           \A j \in L \cup ChanIds(q, 0, Len(q)) : ~ (e.first <= j),
           LogFollows(L, X, N), ChanFollows(q, L, X, N)
    PROVE  LogFollows(L, Y, N \cup {e}) /\ ChanFollows(q, L, Y, N \cup {e})
<1>1. ASSUME NEW j, ~ (e.first <= j), NEW M, Follows(j, M, X, N)
      PROVE  Follows(j, M, Y, N \cup {e})
  BY <1>1 DEF Follows
<1>2. LogFollows(L, Y, N \cup {e})
  BY <1>1 DEF LogFollows
<1>3. ASSUME NEW k \in 1 .. Len(q)
      PROVE  Follows(q[k].id, L \cup ChanIds(q, 0, k - 1), Y, N \cup {e})
  <2>1. q[k].id \in ChanIds(q, 0, Len(q))
    BY DEF ChanIds
  <2>2. Follows(q[k].id, L \cup ChanIds(q, 0, k - 1), X, N)
    BY DEF ChanFollows
  <2>3. QED
    BY <1>1, <2>1, <2>2
<1>4. QED
  BY <1>2, <1>3 DEF ChanFollows

\* A message that shows no gap.  Without a trade state, what it may have missed is
\* counted as such.
LEMMA NoGapAccount ==
    ASSUME AccountInv, ProgressInv', todo = <<>>, NEW i \in Nat, i >= 1, ProcessMessage(i),
           ~ IsGap(i), up', UNCHANGED <<events, chan, logged, gaps, dropped>>,
           i \in 1 .. last \/ i = sent + 1
    PROVE  AccountInv'
<1> DEFINE D == Delivered
           L == LoggedIds(logged)
           X == Accounted
           Y == Accounted'
           N == News
           td == <<Row(i, FALSE), Flush, Pump>>
<1>1. TypedInv
  BY DEF AccountInv, ProgressInv
<1>2. /\ todo' = td /\ jobs' = jobs /\ last' = Max({last, i})
      /\ blind' = IF last = 0 THEN blind \cup ((LastId + 1) .. (i - 1)) ELSE blind
  BY DEF ProcessMessage, ValidateTradeId
<1>3. last \in Nat /\ sent \in Nat /\ last <= sent /\ chan \in Seq(RowType(sent)) /\ L \subseteq 1 .. sent
  BY <1>1, TradeConstants DEF TypedInv, TpTyped, TpNow
<1>4. last' = IF last >= i THEN last ELSE i
  BY <1>2, <1>3, MaxOfTwo
<1>5. AllRowIds(todo') = {i} /\ EventsOf(todo') = {} /\ AllRowIds(todo) = {} /\ EventsOf(todo) = {}
  <2>1. Record(0).do = "event"
    BY DEF Record
  <2>2. AllRowIds(td) = {i} /\ EventsOf(td) = {}
    BY <2>1, MessageRows
  <2>3. QED
    BY <1>2, <2>2, EmptyLists
<1>6. OnTheWay = D /\ Delivered' = D /\ OnTheWay' = D \cup {i}
  BY <1>5 DEF OnTheWay, Delivered
<1>7. Held' = Held
  <2>1. Held' = Range(events') \cup EventsOf(todo')
    BY DEF Held, EventsOf
  <2>2. QED
    BY <1>5, <2>1, NewsAre
<1>8. News' = N /\ Mine' = Mine /\ AllGaps' = AllGaps
  BY <1>2, <1>7 DEF News, Mine, AllGaps
<1>9. X \subseteq Y /\ (last = 0 => (LastId + 1) .. (i - 1) \subseteq Y)
  BY <1>2, <1>8 DEF Accounted
<1>10. /\ LogFollows(L, X, N) /\ ChanFollows(chan, L, X, N)
       /\ NewsPassed(N, D) /\ TrackerCovers(last, D, X) /\ (last = 0 => D \subseteq L)
       /\ (\A h \in Mine : h.last <= last) /\ NotLarger(AllGaps, Mine)
  BY <1>6 DEF AccountInv, Chain
<1>11. D \subseteq 1 .. sent
  BY <1>1, <1>6, AllGapsNat
<1>12. LastId \in 0 .. sent /\ (LastId # 0 => LastId \in L) /\ \A j \in L : j <= LastId
  BY <1>3, LastIdIs DEF LastId
<1> HIDE DEF D, X, Y, N
<1>13. 1 .. i - 1 \subseteq D \cup Y
  <2>1. CASE last > 0
    <3>1. i <= last + 1
      BY <1>3, <2>1 DEF IsGap
    <3>2. 1 .. last \subseteq D \cup X
      BY <1>10, <2>1 DEF TrackerCovers
    <3>3. QED
      BY <1>3, <1>9, <3>1, <3>2
  <2>2. CASE last = 0
    <3>1. L \subseteq D
      BY DEF D, Delivered
    <3> HIDE DEF L
    <3>2. LastId > 0 => 1 .. LastId - 1 \subseteq L \cup X
      BY <1>10, <1>12 DEF LogFollows, Follows
    <3>3. ASSUME NEW j \in 1 .. i - 1
          PROVE  j \in D \cup Y
      <4>1. j \in (LastId + 1) .. (i - 1) \/ j = LastId \/ (j < LastId /\ j \in 1 .. LastId - 1)
        BY <1>3, <1>12
      <4>2. j \in Nat /\ j > 0
        OBVIOUS
      <4>3. CASE j \in (LastId + 1) .. (i - 1)
        BY <1>9, <2>2, <4>3
      <4>4. CASE j = LastId
        BY <1>12, <3>1, <4>2, <4>4
      <4>5. CASE j < LastId /\ j \in 1 .. LastId - 1
        <5>1. LastId > 0
          BY <1>3, <1>12, <4>2, <4>5
        <5>2. QED
          BY <1>9, <3>1, <3>2, <4>5, <5>1
      <4>6. QED
        BY <4>1, <4>3, <4>4, <4>5
    <3>4. QED
      BY <3>3
  <2>3. QED
    BY <1>3, <2>1, <2>2
<1>14. Follows(i, D, Y, N)
  BY <1>10, <1>13 DEF Follows, NewsPassed
<1>15. ListFollows(todo', D, Y, N)
  <2>1. Record(0).do = "event"
    BY DEF Record
  <2>2. QED
    BY <1>2, <1>14, <2>1, MessageFollows
<1>16. Chain(L, chan', todo', Y, N)
  <2>1. LogFollows(L, Y, N) /\ ChanFollows(chan', L, Y, N)
    <3>1. N \subseteq N
      OBVIOUS
    <3>2. LogFollows(L, Y, N)
      BY <1>9, <1>10, <3>1, FollowsMore DEF LogFollows
    <3>3. ASSUME NEW k \in 1 .. Len(chan)
          PROVE  Follows(chan[k].id, L \cup ChanIds(chan, 0, k - 1), Y, N)
      <4>1. Follows(chan[k].id, L \cup ChanIds(chan, 0, k - 1), X, N)
        BY <1>10 DEF ChanFollows
      <4>2. QED
        BY <1>9, <4>1, FollowsMore
    <3>4. QED
      BY <3>2, <3>3 DEF ChanFollows
  <2>2. QED
    BY <1>15, <2>1 DEF Chain, D, Delivered
<1>17. NewsPassed(N, D \cup {i})
  BY <1>10 DEF NewsPassed
<1>18. TrackerCovers(last', D \cup {i}, Y)
  <2>1. CASE last >= i
    BY <1>3, <1>4, <1>9, <1>10, <2>1 DEF TrackerCovers
  <2>2. CASE ~ (last >= i)
    <3>1. last' = i /\ i = sent + 1
      BY <1>3, <1>4, <2>2
    <3>2. 1 .. i \subseteq (D \cup {i}) \cup Y
      BY <1>13
    <3>3. \A j \in D \cup {i} : j <= i
      BY <1>3, <1>11, <3>1
    <3>4. QED
      BY <3>1, <3>2, <3>3 DEF TrackerCovers
  <2>3. QED
    BY <2>1, <2>2
<1>19. last' > 0 /\ last' >= last
  BY <1>3, <1>4
<1>20. \A h \in Mine : h.last <= last'
  <2>1. NatSpans(AllGaps) /\ Mine \subseteq AllGaps
    BY <1>1, AllGapsNat DEF Mine, AllGaps
  <2>2. \A h \in Mine : h.last \in Nat
    BY <2>1 DEF NatSpans
  <2>3. last' \in Nat
    BY <1>3, <1>4
  <2>4. QED
    BY <1>3, <1>10, <1>19, <2>2, <2>3
<1>21. /\ Chain(LoggedIds(logged'), chan', todo', Accounted', News')
       /\ NewsPassed(News', OnTheWay') /\ TrackerCovers(last', OnTheWay', Accounted')
  <2>1. Chain(LoggedIds(logged'), chan', todo', Accounted', News')
    BY <1>8, <1>16 DEF Y
  <2>2. QED
    BY <1>6, <1>8, <1>17, <1>18, <2>1 DEF Y
<1>22. last' # 0
  BY <1>19
<1>23. QED
  BY <1>8, <1>10, <1>20, <1>21, <1>22 DEF AccountInv


\* A message that shows a gap: its event goes out before its row, and the gap covers all
\* between the tracker's id and the message's.
LEMMA GapAccount ==
    ASSUME AccountInv, ProgressInv', todo = <<>>, NEW i \in Nat, i >= 1, ProcessMessage(i),
           IsGap(i), up', UNCHANGED <<events, chan, logged, gaps, dropped>>,
           i \in 1 .. last \/ i = sent + 1
    PROVE  AccountInv'
<1> DEFINE D == Delivered
           L == LoggedIds(logged)
           X == Accounted
           Y == Accounted'
           N == News
           gap == [first |-> last + 1, last |-> i - 1, through |-> 0]
           ev == GapEvent(gap, "detected")
           a == Record(ev)
           j == Job(gap)
           td == <<a, Row(i, FALSE), Flush, Pump>>
<1>1. TypedInv
  BY DEF AccountInv, ProgressInv
<1>2. /\ todo' = td /\ jobs' = Append(jobs, j) /\ last' = Max({last, i})
      /\ blind' = IF last = 0 THEN blind \cup ((LastId + 1) .. (i - 1)) ELSE blind
  BY DEF ProcessMessage, ValidateTradeId
<1>3. /\ last \in Nat /\ sent \in Nat /\ last <= sent /\ chan \in Seq(RowType(sent))
      /\ L \subseteq 1 .. sent /\ jobs \in Seq(JobType(sent)) /\ sent <= MaxTrades /\ MaxTrades \in Nat
  BY <1>1, TradeConstants DEF TypedInv, TpTyped, TpNow
<1>4. last > 0 /\ i > last + 1 /\ i = sent + 1 /\ last' = i /\ blind' = blind
  <2>1. last > 0 /\ i > last + 1
    BY DEF IsGap
  <2>2. QED
    BY <1>2, <1>3, <2>1, MaxOfTwo
<1>5. /\ ev.first = last + 1 /\ ev.last = i - 1 /\ ev.status = "detected"
      /\ a.do = "event" /\ a.event = ev /\ j.first = last + 1 /\ j.last = i - 1
  BY DEF GapEvent, Record, Job
<1> HIDE DEF ev, a, j, gap
<1>6. /\ AllRowIds(todo') = {i} /\ EventsOf(todo') = {ev}
      /\ AllRowIds(todo) = {} /\ EventsOf(todo) = {}
  BY <1>2, <1>5, MessageRows, EmptyLists
<1>7. OnTheWay = D /\ Delivered' = D /\ OnTheWay' = D \cup {i}
  BY <1>6 DEF OnTheWay, Delivered
<1>8. Held' = Held \cup {ev}
  <2>1. Held' = Range(events') \cup EventsOf(todo')
    BY DEF Held, EventsOf
  <2>2. QED
    BY <1>6, <2>1, NewsAre
<1>9. Range(jobs') = Range(jobs) \cup {j}
  <2> DEFINE T == JobType(sent) \cup {j}
  <2>1. jobs \in Seq(T) /\ j \in T
    <3>1. Seq(JobType(sent)) \subseteq Seq(T)
      BY SeqGrows
    <3>2. QED
      BY <1>3, <3>1
  <2> HIDE DEF T
  <2>2. QED
    BY <1>2, <2>1, AppendRange
<1>10. /\ News' = N \cup {ev} /\ Mine' = Mine \cup {ev, j} /\ AllGaps' = AllGaps \cup {ev, j}
  BY <1>5, <1>8, <1>9 DEF News, Mine, AllGaps
<1>11. X \subseteq Y /\ last + 1 .. i - 1 \subseteq Y
  <2>1. X \subseteq Y
    BY <1>4, <1>10 DEF Accounted, CoveredBy
  <2>2. last + 1 .. i - 1 \subseteq CoveredBy({ev})
    BY <1>3, <1>4, <1>5 DEF CoveredBy, Covers, Ids
  <2>3. CoveredBy({ev}) \subseteq CoveredBy(News')
    BY <1>10 DEF CoveredBy
  <2>4. QED
    BY <2>1, <2>2, <2>3 DEF Accounted
<1>12. /\ LogFollows(L, X, N) /\ ChanFollows(chan, L, X, N)
       /\ NewsPassed(N, D) /\ TrackerCovers(last, D, X)
       /\ (\A h \in Mine : h.last <= last) /\ NotLarger(AllGaps, Mine)
  BY <1>7 DEF AccountInv, Chain
<1>13. D \subseteq 1 .. sent /\ NatSpans(AllGaps) /\ \A g \in AllGaps : g.last <= sent
  BY <1>1, <1>7, AllGapsNat
<1>14. Mine \subseteq AllGaps /\ N \subseteq AllGaps
  BY DEF Mine, AllGaps, News
<1> HIDE DEF D, X, Y, N
<1>15. 1 .. last \subseteq D \cup X /\ \A k \in D : k <= last
  BY <1>4, <1>12 DEF TrackerCovers
<1>16. 1 .. i - 1 \subseteq D \cup Y
  <2>1. \A k \in 1 .. i - 1 : k \in 1 .. last \/ k \in last + 1 .. i - 1
    BY <1>3
  <2>2. QED
    BY <1>11, <1>15, <2>1
<1>17. \A e \in N \cup {ev} : e.last < i
  <2>1. \A e \in N : e.last \in Nat /\ e.last <= sent
    BY <1>13, <1>14 DEF NatSpans
  <2>2. QED
    BY <1>3, <1>4, <1>5, <2>1
<1>18. Follows(i, D, Y, N \cup {ev})
  BY <1>16, <1>17 DEF Follows
<1>19. CommandFollows(a, D, Y, N \cup {ev})
  <2>1. \A k \in D : k < ev.first
    <3>1. \A k \in D : k \in Nat /\ k <= last
      BY <1>3, <1>13, <1>15
    <3>2. ev.first = last + 1 /\ last \in Nat
      BY <1>3, <1>5
    <3>3. QED
      BY <3>1, <3>2
  <2>2. a.do # "row"
    BY <1>5
  <2>3. QED
    BY <1>5, <2>1, <2>2 DEF CommandFollows
<1>20. ListFollows(todo', D, Y, N \cup {ev})
  BY <1>2, <1>5, <1>18, <1>19, MessageFollows
<1>21. Chain(L, chan', todo', Y, N \cup {ev})
  <2>1. D = L \cup ChanIds(chan, 0, Len(chan)) /\ Len(chan) \in Nat
    BY <1>3 DEF D, Delivered
  <2>2. \A k \in D : ~ (ev.first <= k)
    BY <1>3, <1>5, <1>13, <1>15
  <2> HIDE DEF L
  <2>3. LogFollows(L, Y, N \cup {ev}) /\ ChanFollows(chan, L, Y, N \cup {ev})
    BY <1>11, <1>12, <2>1, <2>2, NewsBehind
  <2>4. QED
    BY <1>20, <2>1, <2>3 DEF Chain
<1>22. NewsPassed(N \cup {ev}, D \cup {i})
  BY <1>17 DEF NewsPassed
<1>23. TrackerCovers(last', D \cup {i}, Y)
  <2>1. 1 .. i \subseteq (D \cup {i}) \cup Y
    BY <1>16
  <2>2. \A k \in D \cup {i} : k <= i
    BY <1>3, <1>4, <1>13
  <2>3. QED
    BY <1>4, <2>1, <2>2 DEF TrackerCovers
<1>24. \A h \in Mine' : h.last <= last'
  <2>1. \A h \in Mine : h.last \in Nat /\ h.last <= sent
    BY <1>13, <1>14 DEF NatSpans
  <2>2. QED
    BY <1>3, <1>4, <1>5, <1>10, <2>1
<1>25. NotLarger(AllGaps', Mine')
  <2>1. ASSUME NEW g \in AllGaps, NEW h \in {ev, j}
        PROVE  g.last <= h.last
    BY <1>3, <1>4, <1>5, <1>13 DEF NatSpans
  <2>2. ASSUME NEW g \in {ev, j}, NEW h \in Mine
        PROVE  g.first # h.first
    <3>1. h.first \in Nat /\ h.last \in Nat /\ h.first <= h.last /\ h.last <= last
      BY <1>12, <1>13, <1>14 DEF NatSpans
    <3>2. QED
      BY <1>3, <1>5, <3>1
  <2>3. \A g \in {ev, j} : \A h \in {ev, j} : g.last <= h.last
    BY <1>4, <1>5
  <2>4. QED
    BY <1>10, <1>12, <2>1, <2>2, <2>3 DEF NotLarger
<1>26. /\ Chain(LoggedIds(logged'), chan', todo', Accounted', News')
       /\ NewsPassed(News', OnTheWay') /\ TrackerCovers(last', OnTheWay', Accounted')
  <2>1. Chain(LoggedIds(logged'), chan', todo', Accounted', News')
    BY <1>10, <1>21 DEF Y
  <2>2. QED
    BY <1>7, <1>10, <1>22, <1>23, <2>1 DEF Y
<1>27. last' # 0
  BY <1>4
<1>28. QED
  BY <1>24, <1>25, <1>26, <1>27 DEF AccountInv

\* The next trade.
LEMMA ReadAccount ==
    ASSUME AccountInv, Read
    PROVE  AccountInv'
<1>1. ProgressInv' /\ sent \in Nat
  BY ReadProgress, TradeConstants DEF AccountInv, ProgressInv, TypedInv
<1>2. /\ todo = <<>> /\ ProcessMessage(sent + 1) /\ up'
      /\ UNCHANGED <<events, chan, logged, gaps, dropped>>
  BY DEF Read, Idle, tp
<1>3. sent + 1 \in Nat /\ sent + 1 >= 1
  BY <1>1
<1>4. QED
  BY <1>1, <1>2, <1>3, GapAccount, NoGapAccount

\* A trade delivered again, or late.
LEMMA ReadOldAccount ==
    ASSUME AccountInv, ReadOld
    PROVE  AccountInv'
<1>1. ProgressInv' /\ last \in Nat
  BY ReadOldProgress, TradeConstants DEF AccountInv, ProgressInv, TypedInv
<1>2. PICK i \in 1 .. last : ProcessMessage(i)
  BY DEF ReadOld
<1>3. todo = <<>> /\ up' /\ UNCHANGED <<events, chan, logged, gaps, dropped>>
  BY DEF ReadOld, Idle, tp
<1>4. i \in Nat /\ i >= 1
  BY <1>1
<1>5. QED
  BY <1>1, <1>2, <1>3, <1>4, GapAccount, NoGapAccount

-----------------------------------------------------------------------------
(* The account *)

\* Nothing is logged at first.
LEMMA AccountInit ==
    ASSUME Init
    PROVE  AccountInv
<1>1. ProgressInv
  BY ProgressInit
<1>2. Nothing /\ gaps = {} /\ last = 0 /\ logged = [i \in Ids |-> 0]
  BY DEF Init, Nothing
<1>3. OnTheWay = LoggedIds(logged) /\ LoggedIds(logged) = {}
  BY <1>2, OnlyTheLog DEF LoggedIds
<1>4. Mine = {} /\ News = {}
  BY <1>2, EmptyLists, NewsAre DEF Nothing
<1>5. Len(chan) = 0 /\ Len(todo) = 0
  BY <1>2 DEF Nothing
<1>6. Chain(LoggedIds(logged), chan, todo, Accounted, News)
  BY <1>3, <1>5 DEF Chain, LogFollows, ChanFollows, ListFollows
<1>7. ~ (last > 0)
  BY <1>2
<1>8. QED
  BY <1>1, <1>2, <1>3, <1>4, <1>6, <1>7
     DEF AccountInv, NewsPassed, TrackerCovers, NotLarger, OpenGaps

\* Every step keeps it.
LEMMA AccountNext ==
    ASSUME KillAnywhere = FALSE, AccountInv, [Next]_vars
    PROVE  AccountInv'
<1>1. CASE UNCHANGED vars
  <2>1. ProgressInv'
    BY <1>1, ProgressNext DEF AccountInv
  <2>2. UNCHANGED <<up, last, jobs, events, todo, chan, logged, gaps, blind, dropped>>
    BY <1>1 DEF vars, handler, tp, ghosts
  <2>3. QED
    BY <2>1, <2>2, AccountSame
<1>2. ASSUME NEW granted \in BOOLEAN, PumpBackfill(granted)
      PROVE  AccountInv'
  BY <1>2, PumpAccount
<1>3. QED
  BY <1>1, <1>2, TpLogsAccount, StartAccount, StartBlindAccount, KilledAccount, ReadAccount,
     ReadOldAccount, ReadUnreadableAccount, ReadOtherAccount, MissedAccount,
     PublishRowAccount, RecordGapAccount, EventAckedAccount, EventUnackedAccount,
     EventRejectedAccount, BreakAccount, WorkerFetchesAccount
     DEF Next

\* Below the last id that is logged, all is accounted for.
LEMMA AccountIsNoForgottenGap ==
    ASSUME AccountInv
    PROVE  NoForgottenGap
<1> DEFINE L == LoggedIds(logged)
<1>1. sent \in Nat /\ L \subseteq 1 .. sent /\ LogFollows(L, Accounted, News) /\ logged \in [Ids -> Nat]
  BY TradeConstants DEF AccountInv, ProgressInv, TypedInv, TpTyped, TpType, TpNow, Chain
<1>2. LastId \in 0 .. sent /\ (LastId # 0 => LastId \in L)
  BY <1>1, LastIdIs DEF LastId
<1>3. ASSUME NEW i \in Ids, i < LastId
      PROVE  logged[i] > 0 \/ (\E g \in gaps \cup Held : Covers(g, i)) \/ i \in blind \cup dropped
  <2>1. i \in Nat /\ i >= 1 /\ LastId \in Nat
    BY <1>1, <1>2, TradeConstants DEF Ids
  <2>2. LastId \in L /\ i \in 1 .. LastId - 1
    BY <1>2, <1>3, <2>1
  <2>3. i \in L \cup Accounted
    BY <1>1, <2>2 DEF LogFollows, Follows
  <2>4. i \in L => logged[i] > 0
    BY DEF LoggedIds
  <2>5. i \in Accounted => (\E g \in gaps \cup Held : Covers(g, i)) \/ i \in blind \cup dropped
    BY DEF Accounted, CoveredBy, News
  <2>6. QED
    BY <2>3, <2>4, <2>5
<1>4. QED
  BY <1>3 DEF NoForgottenGap

\* With no kill while a gap's record and the row behind it disagree, AccountInv always
\* holds.
THEOREM AccountSafe ==
    ASSUME KillAnywhere = FALSE
    PROVE  Spec => []AccountInv
<1>1. Init => AccountInv
  BY AccountInit
<1>2. AccountInv /\ [Next]_vars => AccountInv'
  BY AccountNext
<1>3. QED
  BY <1>1, <1>2, PTL DEF Spec

\* Then no gap goes unrecorded: below the last id that TP has logged, every trade is in
\* the log, in a gap TP knows, in an event the handler holds, or excused, through lost
\* messages, broken connections, lost acknowledgements, rejected events and restarts
\* (TradeFeedHandler::validateTradeId records a gap before the row that showed it is
\* published, recordGap keeps the event until TP acknowledges it, and a start takes up
\* TP's last id and open gaps, trade_feed_handler.cpp:95-107, 193-234).
THEOREM NothingForgotten ==
    ASSUME KillAnywhere = FALSE
    PROVE  Spec => []NoForgottenGap
<1>1. AccountInv => NoForgottenGap
  BY AccountIsNoForgottenGap
<1>2. QED
  BY <1>1, AccountSafe, PTL

-----------------------------------------------------------------------------
(***************************************************************************)
(* Once.  An id goes to TP on one of two ways: as a live row, or as a row  *)
(* of the one gap that covers it.  So an id on its way is not there yet,   *)
(* nor before it on the way; what a job still needs is not on the way at   *)
(* all, and no two jobs need the same.  Ids the exchange delivered again   *)
(* (X below) are left out.                                                 *)
(***************************************************************************)

\* The id i is not among the ids L.
Fresh(i, L, X) == i \in X \/ i \notin L

LogOnce(lg, X) == \A i \in Ids : i \in X \/ lg[i] <= 1

ChanFresh(q, L, X) == \A k \in 1 .. Len(q) : Fresh(q[k].id, L \cup ChanIds(q, 0, k - 1), X)

RowFresh(c, L, X) == c.do = "row" /\ c.id > 0 => Fresh(c.id, L, X)

ListFresh(td, D, X) == \A k \in 1 .. Len(td) : RowFresh(td[k], D \cup RowIds(td, k), X)

\* The channel and the commands, one after the other.
LineFresh(L, q, td, X) == ChanFresh(q, L, X) /\ ListFresh(td, L \cup ChanIds(q, 0, Len(q)), X)

\* Of what is still needed of a gap nothing is among the ids A.
Untaken(g, A, X) == \A i \in NextNeeded(g) .. g.last : Fresh(i, A, X)

JobsUntaken(q, A, X) == \A k \in 1 .. Len(q) : Untaken(q[k], A, X)

JobsApart(q) == \A j, k \in 1 .. Len(q) : j < k => q[j].last < q[k].first

\* No two gaps overlap.
Apart(G) == \A g, h \in G : g.first = h.first \/ g.last < h.first \/ h.last < g.first

\* The open gaps are ones that a handler can take up without fetching an id again.
Resumable == Apart(OpenGaps) /\ \A g \in OpenGaps : Untaken(g, LoggedIds(logged), again)

OnceInv ==
    /\ AccountInv
    /\ LogOnce(logged, again)
    /\ LineFresh(LoggedIds(logged), chan, todo, again)
    /\ JobsUntaken(jobs, OnTheWay, again)
    /\ JobsApart(jobs)
    /\ ~up => Resumable

\* Fewer ids, and more that are left out.
LEMMA FreshLess ==
    ASSUME NEW L, NEW M, M \subseteq L, NEW X, NEW Y, X \subseteq Y
    PROVE  /\ \A i : Fresh(i, L, X) => Fresh(i, M, Y)
           /\ \A c : RowFresh(c, L, X) => RowFresh(c, M, Y)
           /\ \A g : Untaken(g, L, X) => Untaken(g, M, Y)
           /\ \A q : JobsUntaken(q, L, X) => JobsUntaken(q, M, Y)
<1>1. \A i : Fresh(i, L, X) => Fresh(i, M, Y)
  BY DEF Fresh
<1>2. \A c : RowFresh(c, L, X) => RowFresh(c, M, Y)
  BY <1>1 DEF RowFresh
<1>3. \A g : Untaken(g, L, X) => Untaken(g, M, Y)
  BY <1>1 DEF Untaken
<1>4. \A q : JobsUntaken(q, L, X) => JobsUntaken(q, M, Y)
  BY <1>3 DEF JobsUntaken
<1>5. QED
  BY <1>1, <1>2, <1>3, <1>4

\* The first row of the channel is logged.
LEMMA ChanFreshTail ==
    ASSUME NEW T, NEW q \in Seq(T), q # <<>>, NEW L, NEW X, ChanFresh(q, L, X)
    PROVE  ChanFresh(Tail(q), L \cup {q[1].id}, X) /\ Fresh(q[1].id, L, X)
<1> DEFINE w == Tail(q)
           n == Len(q)
           M == L \cup {q[1].id}
<1>1. n \in Nat /\ n >= 1 /\ Len(w) = n - 1 /\ \A i \in 1 .. n - 1 : w[i] = q[i + 1]
  BY TailSeq
<1>2. ASSUME NEW k \in 1 .. n - 1
      PROVE  Fresh(w[k].id, M \cup ChanIds(w, 0, k - 1), X)
  <2>1. k + 1 \in 1 .. n /\ (k + 1) - 1 = k /\ k - 1 \in 0 .. n - 1 /\ (k - 1) + 1 = k /\ k >= 1
    <3> HIDE DEF n
    <3>1. QED
      BY <1>1
  <2>2. Fresh(q[k + 1].id, L \cup ChanIds(q, 0, k), X)
    BY <2>1 DEF ChanFresh
  <2>3. ChanIds(w, 0, k - 1) = ChanIds(q, 1, k)
    BY <2>1, ChanTail
  <2>4. ChanIds(q, 0, k) = {q[1].id} \cup ChanIds(q, 1, k)
    <3> HIDE DEF n
    <3>1. k \in Nat
      BY <1>1
    <3>2. QED
      BY <2>1, <3>1 DEF ChanIds
  <2>5. L \cup ChanIds(q, 0, k) = M \cup ChanIds(w, 0, k - 1)
    BY <2>3, <2>4
  <2>6. w[k] = q[k + 1]
    BY <1>1
  <2> HIDE DEF w, M
  <2>7. QED
    BY <2>2, <2>5, <2>6
<1>3. Fresh(q[1].id, L, X)
  <2>1. 1 \in 1 .. n /\ ChanIds(q, 0, 1 - 1) = {}
    BY <1>1 DEF ChanIds
  <2>2. Fresh(q[1].id, L \cup ChanIds(q, 0, 1 - 1), X)
    BY <2>1 DEF ChanFresh
  <2>3. L \cup ChanIds(q, 0, 1 - 1) = L
    BY <2>1
  <2>4. QED
    BY <2>2, <2>3
<1> HIDE DEF w, n, M
<1>4. ChanFresh(w, M, X)
  BY <1>1, <1>2 DEF ChanFresh
<1>5. QED
  BY <1>3, <1>4 DEF w, M

\* A row is put into the channel.
LEMMA ChanFreshAppend ==
    ASSUME NEW T, NEW q \in Seq(T), NEW c \in T, NEW L, NEW X, ChanFresh(q, L, X),
           Fresh(c.id, L \cup ChanIds(q, 0, Len(q)), X), NEW w, w = Append(q, c)
    PROVE  ChanFresh(w, L, X) /\ ChanIds(w, 0, Len(w)) = ChanIds(q, 0, Len(q)) \cup {c.id}
<1> DEFINE n == Len(q)
<1>1. n \in Nat /\ Len(w) = n + 1 /\ (\A k \in 1 .. n : w[k] = q[k]) /\ w[n + 1] = c
  BY AppendSeq
<1>2. \A k \in 1 .. n : Fresh(q[k].id, L \cup ChanIds(q, 0, k - 1), X)
  BY DEF ChanFresh
<1>3. Fresh(c.id, L \cup ChanIds(q, 0, n), X)
  OBVIOUS
<1> HIDE DEF n
<1>4. ASSUME NEW k \in 0 .. n
      PROVE  ChanIds(w, 0, k) = ChanIds(q, 0, k)
  BY <1>1 DEF ChanIds
<1>5. ASSUME NEW k \in 1 .. n + 1
      PROVE  Fresh(w[k].id, L \cup ChanIds(w, 0, k - 1), X)
  <2>1. k - 1 \in 0 .. n
    BY <1>1
  <2>2. ChanIds(w, 0, k - 1) = ChanIds(q, 0, k - 1)
    BY <1>4, <2>1
  <2>3. CASE k \in 1 .. n
    BY <1>1, <1>2, <2>2, <2>3
  <2>4. CASE k = n + 1
    <3>1. k - 1 = n
      BY <1>1, <2>4
    <3>2. QED
      BY <1>1, <1>3, <2>2, <2>4, <3>1
  <2>5. QED
    BY <1>1, <2>3, <2>4
<1>6. ChanIds(w, 0, n + 1) = ChanIds(q, 0, n) \cup {c.id}
  BY <1>1 DEF ChanIds
<1>7. ChanFresh(w, L, X)
  BY <1>1, <1>5 DEF ChanFresh
<1>8. QED
  BY <1>1, <1>6, <1>7 DEF n

\* The first command is done: its row, if it is one, is delivered.
LEMMA ListFreshTail ==
    ASSUME NEW T, NEW td \in Seq(T), td # <<>>, NEW D, NEW X, ListFresh(td, D, X)
    PROVE  ListFresh(Tail(td), D \cup RowIds(td, 2), X) /\ RowFresh(td[1], D, X)
<1> DEFINE n == Len(td)
           w == Tail(td)
<1>1. n \in Nat /\ n >= 1 /\ Len(w) = n - 1 /\ \A i \in 1 .. n - 1 : w[i] = td[i + 1]
  BY TailSeq
<1>2. ASSUME NEW k \in 1 .. Len(w)
      PROVE  RowFresh(w[k], (D \cup RowIds(td, 2)) \cup RowIds(w, k), X)
  <2>1. k \in 1 .. n - 1 /\ k \in 1 .. n /\ k + 1 \in 1 .. n
    <3> HIDE DEF n, w
    <3>1. QED
      BY <1>1
  <2>2. w[k] = td[k + 1] /\ RowFresh(td[k + 1], D \cup RowIds(td, k + 1), X)
    BY <1>1, <2>1 DEF ListFresh
  <2>3. RowIds(td, k + 1) = RowIds(td, 2) \cup RowIds(w, k)
    BY <2>1, RowIdsTail
  <2>4. D \cup RowIds(td, k + 1) = (D \cup RowIds(td, 2)) \cup RowIds(w, k)
    BY <2>3
  <2> HIDE DEF w
  <2>5. QED
    BY <2>2, <2>4
<1>3. RowFresh(td[1], D, X)
  <2>1. 1 \in 1 .. n /\ RowIds(td, 1) = {}
    BY <1>1, FirstRowId
  <2>2. RowFresh(td[1], D \cup RowIds(td, 1), X)
    BY <2>1 DEF ListFresh
  <2>3. D \cup RowIds(td, 1) = D
    BY <2>1
  <2>4. QED
    BY <2>2, <2>3
<1>4. QED
  BY <1>2, <1>3 DEF ListFresh

\* The same when a flush with nothing queued is passed over.
LEMMA RestFresh ==
    ASSUME NEW T, todo \in Seq(T), todo # <<>>, NEW D, NEW X, ListFresh(todo, D, X), NEW evs
    PROVE  ListFresh(Rest(evs), D \cup RowIds(todo, 2), X)
<1> DEFINE w == Tail(todo)
           E == D \cup RowIds(todo, 2)
<1>1. w \in Seq(T) /\ ListFresh(w, E, X)
  BY TailSeq, ListFreshTail
<1>2. CASE evs = <<>> /\ w # <<>> /\ todo[2].do = "flush"
  <2>1. w[1].do = "flush"
    BY <1>2, TailSeq
  <2>2. Rest(evs) = Tail(w)
    BY <1>2 DEF Rest
  <2> HIDE DEF w, E
  <2>3. RowIds(w, 2) = {}
    <3>1. w[1].do # "row"
      BY <2>1
    <3>2. QED
      BY <3>1, FirstRowId
  <2>4. ListFresh(Tail(w), E \cup RowIds(w, 2), X)
    BY <1>1, <1>2, ListFreshTail
  <2>5. E \cup RowIds(w, 2) = E
    BY <2>3
  <2>6. QED
    BY <2>2, <2>4, <2>5 DEF E
<1>3. CASE ~ (evs = <<>> /\ w # <<>> /\ todo[2].do = "flush")
  BY <1>1, <1>3 DEF Rest
<1>4. QED
  BY <1>2, <1>3

\* A command that is no row comes before the others.
LEMMA ListFreshFirst ==
    ASSUME NEW T, NEW td \in Seq(T), td # <<>>, td[1].do # "row", NEW D, NEW X,
           ListFresh(Tail(td), D, X)
    PROVE  ListFresh(td, D, X)
<1> DEFINE n == Len(td)
           w == Tail(td)
<1>1. n \in Nat /\ n >= 1 /\ Len(w) = n - 1 /\ \A i \in 1 .. n - 1 : w[i] = td[i + 1]
  BY TailSeq
<1>2. RowIds(td, 2) = {}
  BY FirstRowId
<1>3. ASSUME NEW k \in 1 .. n
      PROVE  RowFresh(td[k], D \cup RowIds(td, k), X)
  <2>1. CASE k = 1
    BY <2>1 DEF RowFresh
  <2>2. CASE k # 1
    <3>1. k - 1 \in 1 .. n - 1 /\ k - 1 \in 1 .. n /\ (k - 1) + 1 = k
      <4> HIDE DEF n
      <4>1. QED
        BY <1>1, <2>2
    <3>2. w[k - 1] = td[k] /\ RowIds(td, (k - 1) + 1) = RowIds(td, 2) \cup RowIds(w, k - 1)
      BY <1>1, <3>1, RowIdsTail
    <3>3. k - 1 \in 1 .. Len(w)
      BY <1>1, <3>1
    <3>4. RowFresh(w[k - 1], D \cup RowIds(w, k - 1), X)
      BY <3>3 DEF ListFresh
    <3>5. RowIds(td, k) = RowIds(w, k - 1)
      BY <1>2, <3>1, <3>2
    <3> HIDE DEF w
    <3>6. QED
      BY <3>2, <3>4, <3>5
  <2>3. QED
    BY <2>1, <2>2
<1>4. QED
  BY <1>3 DEF ListFresh

-----------------------------------------------------------------------------
(* Once: rows are logged *)

\* A fresh row is logged.
LEMMA LogRowOnce ==
    ASSUME NEW t \in TpType, NEW c \in RowType(MaxTrades), NEW X, LogOnce(t.logged, X),
           Fresh(c.id, LoggedIds(t.logged), X)
    PROVE  LogOnce(LogRow(t, c).logged, X)
<1>1. c.id \in Ids /\ t.logged \in [Ids -> Nat]
  BY TradeConstants DEF RowType, Ids, TpType
<1>2. LogRow(t, c).logged = [t.logged EXCEPT ![c.id] = @ + 1]
  BY DEF LogRow
<1>3. ASSUME NEW i \in Ids, i \notin X
      PROVE  [t.logged EXCEPT ![c.id] = @ + 1][i] <= 1
  <2>1. CASE i = c.id
    <3>1. i \notin LoggedIds(t.logged)
      BY <1>3, <2>1 DEF Fresh
    <3>2. t.logged[i] \in Nat /\ ~ (t.logged[i] > 0)
      BY <1>1, <3>1 DEF LoggedIds
    <3>3. [t.logged EXCEPT ![c.id] = @ + 1][i] = t.logged[i] + 1
      BY <1>1, <2>1
    <3>4. QED
      BY <3>2, <3>3
  <2>2. CASE i # c.id
    <3>1. [t.logged EXCEPT ![c.id] = @ + 1][i] = t.logged[i]
      BY <1>1, <2>2
    <3>2. t.logged[i] <= 1
      BY <1>3 DEF LogOnce
    <3>3. QED
      BY <3>1, <3>2
  <2>3. QED
    BY <2>1, <2>2
<1>4. QED
  BY <1>2, <1>3 DEF LogOnce

\* Rows are logged one after the other.
LEMMA RunOnce ==
    ASSUME NEW s \in 0 .. MaxTrades, NEW t, TpTyped(t, s), NEW q \in Seq(RowType(s)),
           NEW r, LogRun(r, t, q), NEW X, LogOnce(t.logged, X), ChanFresh(q, LoggedIds(t.logged), X)
    PROVE  \A n \in 0 .. Len(q) : LogOnce(r[n].logged, X)
<1>0. \A n \in 0 .. Len(q) :
        TpTyped(r[n], s) /\ LoggedIds(r[n].logged) = LoggedIds(t.logged) \cup ChanIds(q, 0, n)
  BY RunTyped
<1> DEFINE Q(n) == LogOnce(r[n].logged, X)
           P == {n \in Nat : n <= Len(q) => Q(n)}
<1>1. 0 \in P
  <2>1. r[0] = t
    BY DEF LogRun
  <2>2. QED
    BY <2>1
<1>2. ASSUME NEW n \in Nat, n \in P
      PROVE  n + 1 \in P
  <2>1. SUFFICES ASSUME n + 1 <= Len(q)
                 PROVE  Q(n + 1)
    OBVIOUS
  <2>2. Q(n) /\ n + 1 \in 1 .. Len(q) /\ n \in 0 .. Len(q) /\ (n + 1) - 1 = n
    BY <1>2, <2>1
  <2>3. r[n + 1] = LogRow(r[n], q[n + 1])
    BY <2>2 DEF LogRun
  <2>4. q[n + 1] \in RowType(s) /\ q[n + 1] \in RowType(MaxTrades)
    BY <2>2, TypesGrow, TradeConstants
  <2>5. TpTyped(r[n], s) /\ LoggedIds(r[n].logged) = LoggedIds(t.logged) \cup ChanIds(q, 0, n)
    BY <1>0, <2>2
  <2>6. Fresh(q[n + 1].id, LoggedIds(t.logged) \cup ChanIds(q, 0, n), X)
    BY <2>2 DEF ChanFresh
  <2>7. r[n] \in TpType
    BY <2>5 DEF TpTyped
  <2>8. Fresh(q[n + 1].id, LoggedIds(r[n].logged), X)
    BY <2>5, <2>6
  <2>9. LogOnce(LogRow(r[n], q[n + 1]).logged, X)
    BY <2>2, <2>4, <2>7, <2>8, LogRowOnce
  <2>10. QED
    BY <2>3, <2>9
<1> HIDE DEF Q
<1>3. Nat \subseteq P
  <2> HIDE DEF P
  <2>1. QED
    BY <1>1, <1>2, SetInduction
<1>4. ASSUME NEW n \in 0 .. Len(q)
      PROVE  Q(n)
  BY <1>3
<1>5. QED
  BY <1>4 DEF Q

\* Any number of rows from the channel.
LEMMA PrefixOnce ==
    ASSUME OnceInv, NEW n \in 0 .. Len(chan)
    PROVE  LogOnce(LogRows(SubSeq(chan, 1, n)).logged, again)
<1> DEFINE q == SubSeq(chan, 1, n)
           L == LoggedIds(logged)
<1>1. /\ q \in Seq(RowType(sent)) /\ Len(q) = n /\ (\A i \in 1 .. n : q[i] = chan[i])
      /\ sent \in 0 .. MaxTrades /\ TpTyped(TpNow, sent) /\ Len(chan) \in Nat /\ TpNow.logged = logged
  BY PrefixSeq DEF OnceInv, AccountInv, ProgressInv, TypedInv, TpNow
<1>2. ChanFresh(chan, L, again) /\ LogOnce(logged, again)
  BY DEF OnceInv, LineFresh
<1> HIDE DEF q
<1>3. ChanFresh(q, L, again)
  <2>1. ASSUME NEW k \in 1 .. n
        PROVE  Fresh(q[k].id, L \cup ChanIds(q, 0, k - 1), again)
    <3>1. k \in 1 .. Len(chan) /\ q[k] = chan[k]
      BY <1>1
    <3>2. ChanIds(q, 0, k - 1) = ChanIds(chan, 0, k - 1)
      BY <1>1 DEF ChanIds
    <3>3. Fresh(chan[k].id, L \cup ChanIds(chan, 0, k - 1), again)
      BY <1>2, <3>1 DEF ChanFresh
    <3>4. QED
      BY <3>1, <3>2, <3>3
  <2>2. QED
    BY <1>1, <2>1 DEF ChanFresh
<1>4. PICK r : LogRun(r, TpNow, q) /\ LogRows(q) = r[Len(q)]
  BY <1>1, LogRowsRun
<1>5. Len(q) \in 0 .. Len(q)
  BY <1>1
<1>6. LogOnce(r[Len(q)].logged, again)
  BY <1>1, <1>2, <1>3, <1>4, <1>5, RunOnce
<1>7. QED
  BY <1>4, <1>6 DEF q

\* What a step has to show that brings no new id and leaves the jobs alone.
LEMMA OnceKept ==
    ASSUME OnceInv, AccountInv', up', UNCHANGED <<jobs, again>>, OnTheWay' \subseteq OnTheWay,
           LogOnce(logged', again), LineFresh(LoggedIds(logged'), chan', todo', again)
    PROVE  OnceInv'
<1>1. JobsUntaken(jobs, OnTheWay, again)
  BY DEF OnceInv
<1>2. JobsUntaken(jobs, OnTheWay', again)
  <2> DEFINE A == OnTheWay
             B == OnTheWay'
  <2>1. B \subseteq A /\ JobsUntaken(jobs, A, again)
    BY <1>1
  <2> HIDE DEF A, B
  <2>2. JobsUntaken(jobs, B, again)
    BY <2>1, FreshLess
  <2>3. QED
    BY <2>2 DEF B
<1>3. QED
  BY <1>2 DEF OnceInv

\* A step that touches no rows.
LEMMA OnceSame ==
    ASSUME OnceInv, AccountInv', up' \/ (up' = up /\ UNCHANGED gaps),
           UNCHANGED <<jobs, todo, chan, logged, again>>
    PROVE  OnceInv'
<1>1. OnTheWay' = OnTheWay
  BY DEF Delivered, OnTheWay
<1>2. CASE up'
  BY <1>1, <1>2 DEF OnceInv
<1>3. CASE up' = up /\ UNCHANGED gaps
  <2>1. Resumable' <=> Resumable
    BY <1>3 DEF Resumable, OpenGaps
  <2>2. QED
    BY <1>1, <1>3, <2>1 DEF OnceInv
<1>4. QED
  BY <1>2, <1>3

\* TP logs the first row of the channel.
LEMMA TpLogsOnce ==
    ASSUME OnceInv, TpLogs, AccountInv'
    PROVE  OnceInv' /\ OnTheWay' \subseteq OnTheWay
<1> DEFINE c == chan[1]
           t == LogRow(TpNow, c)
           L == LoggedIds(logged)
           M == LoggedIds(logged')
<1>1. TypedInv /\ sent \in 0 .. MaxTrades /\ chan \in Seq(RowType(sent)) /\ TpTyped(TpNow, sent)
  BY DEF OnceInv, AccountInv, ProgressInv, TypedInv
<1>2. chan # <<>> /\ chan' = Tail(chan) /\ UNCHANGED <<up, jobs, todo, again>>
  BY DEF TpLogs, handler, ghosts
<1>3. up'
  BY <1>1, <1>2 DEF TypedInv, Nothing
<1>4. c \in RowType(sent) /\ Head(chan) = c /\ Len(chan) >= 1
  BY <1>1, <1>2, TailSeq
<1>5. logged' = t.logged
  <2>1. logged' = LogRows(<<Head(chan)>>).logged
    BY DEF TpLogs
  <2>2. QED
    BY <1>1, <1>4, <2>1, LogOne
<1>6. c \in RowType(MaxTrades) /\ TpNow \in TpType /\ TpNow.logged = logged
  BY <1>1, <1>4, TypesGrow, TradeConstants DEF TpTyped, TpNow
<1>7. M = L \cup {c.id}
  BY <1>5, <1>6, LogRowEffect
<1>8. ChanIds(chan, 0, Len(chan)) = {c.id} \cup ChanIds(chan', 0, Len(chan'))
  <2> DEFINE n == Len(chan)
  <2>1. n \in Nat /\ n >= 1 /\ Len(chan') = n - 1 /\ n - 1 \in 0 .. n - 1 /\ (n - 1) + 1 = n
    BY <1>1, <1>2, <1>4, TailSeq
  <2>2. ChanIds(chan', 0, n - 1) = ChanIds(chan, 1, n)
    BY <1>1, <1>2, <2>1, ChanTail
  <2>3. ChanIds(chan, 0, n) = {c.id} \cup ChanIds(chan, 1, n)
    <3> HIDE DEF n
    <3>1. QED
      BY <2>1 DEF ChanIds
  <2>4. QED
    BY <2>1, <2>2, <2>3
<1>9. M \cup ChanIds(chan', 0, Len(chan')) = L \cup ChanIds(chan, 0, Len(chan))
  BY <1>7, <1>8
<1>10. OnTheWay' \subseteq OnTheWay
  BY <1>2, <1>9 DEF OnTheWay, Delivered
<1>11. ChanFresh(chan, L, again) /\ ListFresh(todo, L \cup ChanIds(chan, 0, Len(chan)), again) /\ LogOnce(logged, again)
  BY DEF OnceInv, LineFresh
<1>12. ChanFresh(Tail(chan), L \cup {chan[1].id}, again) /\ Fresh(chan[1].id, L, again)
  BY <1>1, <1>2, <1>11, ChanFreshTail
<1>13. LogOnce(logged', again)
  BY <1>5, <1>6, <1>11, <1>12, LogRowOnce
<1>14. LineFresh(M, chan', todo', again)
  <2> HIDE DEF L, M
  <2>1. QED
    BY <1>2, <1>7, <1>9, <1>11, <1>12 DEF LineFresh
<1>15. QED
  BY <1>2, <1>3, <1>10, <1>13, <1>14, OnceKept

\* The next row is published.
LEMMA PublishRowOnce ==
    ASSUME OnceInv, PublishRow, AccountInv'
    PROVE  OnceInv' /\ OnTheWay' \subseteq OnTheWay
<1> DEFINE c == todo[1]
           L == LoggedIds(logged)
           D == L \cup ChanIds(chan, 0, Len(chan))
           I == RowIds(todo, 2)
           X == again
<1>1. /\ ProgressInv /\ todo \in Seq(CommandType(sent)) /\ chan \in Seq(RowType(sent))
      /\ sent \in 0 .. MaxTrades /\ ListGood(todo, Delivered, AllGaps)
  BY DEF OnceInv, AccountInv, ProgressInv, TypedInv
<1>2. /\ todo # <<>> /\ c.do = "row" /\ Head(todo) = c
      /\ chan' = IF c.id = 0 THEN chan ELSE Append(chan, c)
      /\ todo' = Rest(events) /\ UNCHANGED <<up, jobs, logged, again>>
  BY <1>1, TailSeq DEF PublishRow, tp, ghosts
<1>3. up'
  BY <1>1, <1>2 DEF ProgressInv, TypedInv, Nothing
<1>4. AllRowIds(todo) = I \cup AllRowIds(todo')
  BY <1>1, <1>2, RestGood
<1>5. ChanFresh(chan, L, X) /\ ListFresh(todo, D, X) /\ LogOnce(logged, X)
  BY DEF OnceInv, LineFresh
<1>6. ListFresh(todo', D \cup I, X)
  <2> HIDE DEF D
  <2>1. QED
    BY <1>1, <1>2, <1>5, RestFresh
<1>7. c \in CommandType(sent) /\ 1 \in 1 .. Len(todo)
  BY <1>1, <1>2, TailSeq
<1>8. c.id \in Nat /\ (c.id > 0 => c \in RowType(sent)) /\ I = IF c.id > 0 THEN {c.id} ELSE {}
  <2>1. c \in [do : {"row"}, id : 0 .. sent, back : BOOLEAN]
    BY <1>2, <1>7 DEF CommandType, Flush, Pump
  <2>2. I = IF c.do = "row" /\ c.id > 0 THEN {c.id} ELSE {}
    BY FirstRowId
  <2> HIDE DEF c, I
  <2>3. QED
    BY <1>1, <1>2, <2>1, <2>2 DEF RowType
<1>9. c.id > 0 => Fresh(c.id, D, X)
  <2>1. RowFresh(todo[1], D, X)
    <3> HIDE DEF D
    <3>1. QED
      BY <1>1, <1>2, <1>5, ListFreshTail
  <2> HIDE DEF D, X
  <2>2. QED
    BY <1>2, <2>1 DEF RowFresh
<1>10. ChanFresh(chan', L, X) /\ ChanIds(chan', 0, Len(chan')) = ChanIds(chan, 0, Len(chan)) \cup I
  <2>1. CASE c.id = 0
    <3>1. chan' = chan /\ I = {}
      BY <1>2, <1>8, <2>1
    <3>2. QED
      BY <1>5, <3>1
  <2>2. CASE c.id # 0
    <3> DEFINE T == RowType(sent)
               q == chan
               w == chan'
    <3>1. c \in T /\ w = Append(q, c) /\ I = {c.id} /\ q \in Seq(T) /\ ChanFresh(q, L, X)
      BY <1>1, <1>2, <1>5, <1>8, <2>2
    <3>2. Fresh(c.id, L \cup ChanIds(q, 0, Len(q)), X)
      BY <1>8, <1>9, <2>2
    <3> HIDE DEF c, L, X, T, I, q, w
    <3>3. ChanFresh(w, L, X) /\ ChanIds(w, 0, Len(w)) = ChanIds(q, 0, Len(q)) \cup {c.id}
      BY ONLY <3>1, <3>2, ChanFreshAppend, ZenonT(30)
    <3>4. QED
      BY <3>1, <3>3 DEF q, w
  <2>3. QED
    BY <2>1, <2>2
<1>11. LoggedIds(logged') \cup ChanIds(chan', 0, Len(chan')) = D \cup I /\ LoggedIds(logged') = L
  BY <1>2, <1>10
<1>12. OnTheWay' \subseteq OnTheWay
  BY <1>4, <1>11 DEF OnTheWay, Delivered
<1>13. LineFresh(LoggedIds(logged'), chan', todo', again)
  <2> HIDE DEF L, D, I
  <2>1. QED
    BY <1>6, <1>10, <1>11 DEF LineFresh
<1> HIDE DEF c, I, D
<1>14. QED
  BY <1>2, <1>3, <1>5, <1>12, <1>13, OnceKept

\* A gap event is queued.
LEMMA RecordGapOnce ==
    ASSUME OnceInv, RecordGap, AccountInv'
    PROVE  OnceInv' /\ OnTheWay' \subseteq OnTheWay
<1> DEFINE w == Tail(todo)
           D == LoggedIds(logged) \cup ChanIds(chan, 0, Len(chan))
           X == again
<1>1. ProgressInv /\ todo \in Seq(CommandType(sent)) /\ sent \in 0 .. MaxTrades
  BY DEF OnceInv, AccountInv, ProgressInv, TypedInv
<1>2. /\ todo # <<>> /\ todo[1].do = "event" /\ todo' = <<Flush>> \o w
      /\ UNCHANGED <<up, jobs, chan, logged, again>>
  BY <1>1, TailSeq DEF RecordGap, tp, ghosts
<1>3. up'
  BY <1>1, <1>2 DEF ProgressInv, TypedInv, Nothing
<1>4. w \in Seq(CommandType(sent))
  BY <1>1, <1>2, TailSeq
<1>5. RowIds(todo, 2) = {}
  <2>1. todo[1].do # "row"
    BY <1>2
  <2>2. QED
    BY <2>1, FirstRowId
<1>6. AllRowIds(todo) = AllRowIds(w)
  <2>1. AllRowIds(todo) = RowIds(todo, 2) \cup AllRowIds(w)
    BY <1>1, <1>2, AllRowIdsTail
  <2>2. QED
    BY <1>5, <2>1
<1>7. ChanFresh(chan, LoggedIds(logged), X) /\ ListFresh(todo, D, X) /\ LogOnce(logged, X)
  BY DEF OnceInv, LineFresh
<1>8. ListFresh(w, D, X)
  <2>1. D \cup RowIds(todo, 2) = D
    BY <1>5
  <2> HIDE DEF D, X
  <2>2. ListFresh(w, D \cup RowIds(todo, 2), X)
    BY <1>1, <1>2, <1>7, ListFreshTail
  <2>3. QED
    BY <2>1, <2>2
<1>9. /\ todo' \in Seq(CommandType(sent)) /\ todo' # <<>> /\ todo'[1] = Flush
      /\ Tail(todo') = w
  <2> DEFINE T == CommandType(sent)
  <2>1. w \in Seq(T) /\ Flush \in T
    BY <1>4 DEF CommandType
  <2> HIDE DEF T, w
  <2>2. QED
    BY <1>2, <2>1 DEF T
<1> HIDE DEF w
<1>10. todo'[1].do # "row" /\ RowIds(todo', 2) = {}
  <2>1. todo'[1].do = "flush"
    BY <1>9 DEF Flush
  <2>2. todo'[1].do # "row"
    BY <2>1
  <2>3. QED
    BY <2>2, FirstRowId
<1>11. AllRowIds(todo') = AllRowIds(todo)
  <2>1. AllRowIds(todo') = RowIds(todo', 2) \cup AllRowIds(Tail(todo'))
    BY <1>9, AllRowIdsTail
  <2>2. QED
    BY <1>6, <1>9, <1>10, <2>1
<1>12. ListFresh(todo', D, X)
  <2> DEFINE T == CommandType(sent)
             v == todo'
  <2>1. v \in Seq(T) /\ v # <<>> /\ v[1].do # "row" /\ ListFresh(Tail(v), D, X)
    BY <1>8, <1>9, <1>10
  <2> HIDE DEF T, v, D, X
  <2>2. ListFresh(v, D, X)
    BY ONLY <2>1, ListFreshFirst, ZenonT(30)
  <2>3. QED
    BY <2>2 DEF v
<1>13. LineFresh(LoggedIds(logged'), chan', todo', again)
  BY <1>2, <1>7, <1>12 DEF LineFresh
<1>14. OnTheWay' \subseteq OnTheWay
  BY <1>2, <1>11 DEF OnTheWay, Delivered
<1> HIDE DEF D
<1>15. QED
  BY <1>2, <1>3, <1>7, <1>13, <1>14, OnceKept

\* A flush has sent an event, or has not.
LEMMA FlushedOnce ==
    ASSUME OnceInv, AccountInv', Flushing, GoesOn, UNCHANGED <<up, jobs, again>>,
           UNCHANGED <<chan, logged, gaps>> \/ Answered(Head(events))
    PROVE  OnceInv' /\ OnTheWay' \subseteq OnTheWay
<1> DEFINE L == LoggedIds(logged)
           M == LoggedIds(logged')
           D == Delivered
           X == again
<1>1. AccountInv /\ ProgressInv /\ events # <<>> /\ todo # <<>>
  BY DEF OnceInv, AccountInv, Flushing
<1>2. todo \in Seq(CommandType(sent)) /\ chan \in Seq(RowType(sent))
  BY <1>1 DEF ProgressInv, TypedInv
<1>3. up'
  BY <1>1 DEF ProgressInv, TypedInv, Nothing
<1>4. AllRowIds(todo') = AllRowIds(todo)
  BY <1>1, GoesOnGood
<1>5. Delivered' = D
  <2>1. CASE UNCHANGED <<chan, logged, gaps>>
    BY <2>1 DEF Delivered
  <2>2. CASE Answered(Head(events))
    BY <1>1, <2>2, AnsweredGood
  <2>3. QED
    BY <2>1, <2>2
<1>6. OnTheWay' = OnTheWay
  BY <1>4, <1>5 DEF OnTheWay
<1>7. ChanFresh(chan, L, X) /\ ListFresh(todo, D, X) /\ LogOnce(logged, X)
  BY DEF OnceInv, LineFresh, Delivered
<1>8. LogOnce(logged', X) /\ ChanFresh(chan', M, X)
  <2>1. CASE UNCHANGED <<chan, logged, gaps>>
    BY <1>7, <2>1
  <2>2. CASE Answered(Head(events))
    <3>1. logged' = LogRows(chan).logged /\ chan' = <<>>
      BY <2>2 DEF Answered
    <3>2. Len(chan) \in 0 .. Len(chan) /\ SubSeq(chan, 1, Len(chan)) = chan
      <4> DEFINE T == RowType(sent)
      <4>1. chan \in Seq(T)
        BY <1>2
      <4> HIDE DEF T
      <4>2. QED
        BY <4>1
    <3>3. LogOnce(LogRows(SubSeq(chan, 1, Len(chan))).logged, X)
      BY <3>2, PrefixOnce
    <3>4. ChanFresh(chan', M, X)
      BY <3>1 DEF ChanFresh
    <3>5. QED
      BY <3>1, <3>2, <3>3, <3>4
  <2>3. QED
    BY <2>1, <2>2
<1>9. ListFresh(todo', D, X)
  <2>1. RowIds(todo, 2) = {}
    <3>1. todo[1].do = "flush"
      BY <1>2, TailSeq DEF Flushing
    <3>2. todo[1].do # "row"
      BY <3>1
    <3>3. QED
      BY <3>2, FirstRowId
  <2>2. D \cup RowIds(todo, 2) = D
    BY <2>1
  <2> HIDE DEF D, X
  <2>3. ListFresh(Rest(<<>>), D, X) /\ ListFresh(Rest(events), D, X)
    BY <1>1, <1>2, <1>7, <2>2, RestFresh
  <2>4. Rest(events) = Tail(todo)
    BY <1>1 DEF Rest
  <2>5. todo' \in {todo, Rest(<<>>), Rest(events)}
    BY <2>4 DEF GoesOn, Sent
  <2>6. QED
    BY <1>7, <2>3, <2>5
<1>10. LineFresh(M, chan', todo', X)
  <2>1. M \cup ChanIds(chan', 0, Len(chan')) = D
    BY <1>5 DEF Delivered
  <2> HIDE DEF M, D, X
  <2>2. QED
    BY <1>8, <1>9, <2>1 DEF LineFresh
<1> HIDE DEF D
<1>11. QED
  BY <1>3, <1>6, <1>8, <1>10, OnceKept

\* A list without rows is fresh.
LEMMA NoRowsFresh ==
    ASSUME NEW T, NEW td \in Seq(T), AllRowIds(td) = {}, NEW D, NEW X
    PROVE  ListFresh(td, D, X)
<1>1. Len(td) \in Nat
  OBVIOUS
<1>2. ASSUME NEW k \in 1 .. Len(td), td[k].do = "row", td[k].id > 0
      PROVE  FALSE
  <2>1. k \in 1 .. (Len(td) + 1) - 1
    BY <1>1
  <2>2. td[k].id \in AllRowIds(td)
    BY <1>2, <2>1 DEF AllRowIds, RowIds
  <2>3. QED
    BY <2>2
<1>3. QED
  BY <1>2 DEF ListFresh, RowFresh

\* The next message is of another symbol or cannot be read.
LEMMA OtherOnce ==
    ASSUME OnceInv, AccountInv', up', todo = <<>>, UNCHANGED <<jobs, chan, logged, again>>,
           todo' \in {<<Pump>>, <<Row(0, FALSE), Flush, Pump>>}
    PROVE  OnceInv'
<1>1. AllRowIds(todo) = {} /\ AllRowIds(todo') = {}
  BY EmptyLists, OtherRows
<1>2. OnTheWay' = OnTheWay
  BY <1>1 DEF Delivered, OnTheWay
<1>3. todo' \in Seq(CommandType(sent'))
  BY DEF AccountInv, ProgressInv, TypedInv
<1>4. LineFresh(LoggedIds(logged'), chan', todo', again)
  <2>1. ListFresh(todo', Delivered, again)
    BY <1>1, <1>3, NoRowsFresh
  <2>2. QED
    BY <2>1 DEF OnceInv, LineFresh, Delivered
<1>5. LogOnce(logged', again)
  BY DEF OnceInv
<1>6. QED
  BY <1>2, <1>4, <1>5, OnceKept

\* The steps that touch no rows, and the messages that are none of the symbol's.
LEMMA QuietOnce ==
    ASSUME OnceInv, AccountInv',
           StartBlind \/ ReadUnreadable \/ ReadOther \/ Missed \/ Break \/ WorkerFetches
    PROVE  OnceInv'
<1>1. CASE StartBlind \/ Missed \/ Break \/ WorkerFetches
  <2>1. /\ UNCHANGED <<jobs, todo, chan, logged, again, gaps>>
        /\ up' \/ up' = up
    BY <1>1 DEF StartBlind, Missed, Break, WorkerFetches, handler, tp, ghosts
  <2>2. QED
    BY <2>1, OnceSame
<1>2. CASE ReadUnreadable
  <2>1. todo = <<>> /\ todo' = <<Pump>> /\ up' /\ UNCHANGED <<jobs, chan, logged, again>>
    BY <1>2 DEF ReadUnreadable, Idle, tp, ghosts
  <2>2. QED
    BY <2>1, OtherOnce
<1>3. CASE ReadOther
  <2>1. /\ todo = <<>> /\ todo' = <<Row(0, FALSE), Flush, Pump>> /\ up'
        /\ UNCHANGED <<jobs, chan, logged, again>>
    BY <1>3 DEF ReadOther, Idle, tp, ghosts
  <2>2. QED
    BY <2>1, OtherOnce
<1>4. QED
  BY <1>1, <1>2, <1>3

\* The flushes.
LEMMA FlushesOnce ==
    ASSUME OnceInv, AccountInv', EventAcked \/ EventUnacked \/ EventRejected
    PROVE  OnceInv' /\ OnTheWay' \subseteq OnTheWay
<1>1. CASE EventAcked
  <2>1. Flushing /\ GoesOn /\ UNCHANGED <<up, jobs, again>> /\ Answered(Head(events))
    BY <1>1 DEF EventAcked, GoesOn, TpEvent, Answered, ghosts
  <2>2. QED
    BY <2>1, FlushedOnce
<1>2. CASE EventUnacked
  <2>1. /\ Flushing /\ GoesOn /\ UNCHANGED <<up, jobs, again>>
        /\ UNCHANGED <<chan, logged, gaps>> \/ Answered(Head(events))
    BY <1>2 DEF EventUnacked, GoesOn, TpEvent, Answered, tp, ghosts
  <2>2. QED
    BY <2>1, FlushedOnce
<1>3. CASE EventRejected
  <2>1. Flushing /\ GoesOn /\ UNCHANGED <<up, jobs, again>> /\ Answered(Head(events))
    BY <1>3 DEF EventRejected, GoesOn, Answered
  <2>2. QED
    BY <2>1, FlushedOnce
<1>4. QED
  BY <1>1, <1>2, <1>3

-----------------------------------------------------------------------------
(* Once: the backfill *)

\* Every row among the commands is a backfilled one.
BackOnly(td) == \A k \in 1 .. Len(td) : td[k].do = "row" => td[k].back

\* What a part of the pump leaves, with the ids D on the way before it and E after it.
Filled(res, D, E, X) ==
    /\ ListFresh(res.out, D, X) /\ BackOnly(res.out)
    /\ JobsUntaken(res.jobs, E, X) /\ JobsApart(res.jobs)
    /\ \A e \in EventsOf(res.out) : e.status \in OpenStatuses => Untaken(e, E, X)

\* The jobs behind the first one.
LEMMA JobsBehind ==
    ASSUME NEW T, NEW q \in Seq(T), q # <<>>, JobsApart(q), NEW A, NEW X,
           \A k \in 2 .. Len(q) : Untaken(q[k], A, X)
    PROVE  JobsUntaken(Tail(q), A, X) /\ JobsApart(Tail(q))
<1> DEFINE n == Len(q)
           w == Tail(q)
<1>1. n \in Nat /\ n >= 1 /\ Len(w) = n - 1 /\ \A i \in 1 .. n - 1 : w[i] = q[i + 1]
  BY TailSeq
<1>2. /\ \A k \in 2 .. n : Untaken(q[k], A, X)
      /\ \A j, k \in 1 .. n : j < k => q[j].last < q[k].first
  BY DEF JobsApart
<1> HIDE DEF n, w
<1>3. ASSUME NEW k \in 1 .. n - 1
      PROVE  w[k] = q[k + 1] /\ k + 1 \in 1 .. n /\ k + 1 \in 2 .. n
  BY <1>1
<1>4. JobsUntaken(w, A, X)
  <2>1. ASSUME NEW k \in 1 .. n - 1
        PROVE  Untaken(w[k], A, X)
    BY <1>2, <1>3
  <2>2. QED
    BY <1>1, <2>1 DEF JobsUntaken
<1>5. JobsApart(w)
  <2>1. ASSUME NEW j \in 1 .. n - 1, NEW k \in 1 .. n - 1, j < k
        PROVE  w[j].last < w[k].first
    <3>1. j + 1 \in 1 .. n /\ k + 1 \in 1 .. n /\ j + 1 < k + 1
      BY <1>1, <2>1
    <3>2. q[j + 1].last < q[k + 1].first
      BY <1>2, <3>1
    <3>3. QED
      BY <1>3, <3>2
  <2>2. QED
    BY <1>1, <2>1 DEF JobsApart
<1>6. QED
  BY <1>4, <1>5 DEF w

\* One gap of the queue in another state, the others as they were.
LEMMA ReplacedFresh ==
    ASSUME NEW s \in Nat, NEW q \in Seq(JobType(s)), q # <<>>, NEW u, NEW g, Replaced(u, q, g, s),
           g.first = q[1].first, g.last = q[1].last, JobsApart(q), NEW A, NEW X, Untaken(g, A, X),
           \A k \in 2 .. Len(q) : Untaken(q[k], A, X)
    PROVE  JobsUntaken(u, A, X) /\ JobsApart(u)
<1> DEFINE n == Len(q)
<1>1. n \in Nat /\ n >= 1
  BY TailSeq
<1>2. /\ Len(u) = n /\ u[1] = g /\ (\A k \in 2 .. n : u[k] = q[k])
      /\ (\A k \in 2 .. n : Untaken(q[k], A, X))
      /\ (\A j, k \in 1 .. n : j < k => q[j].last < q[k].first)
  BY DEF Replaced, JobsApart
<1> HIDE DEF n
<1>3. ASSUME NEW k \in 1 .. n
      PROVE  Untaken(u[k], A, X) /\ u[k].first = q[k].first /\ u[k].last = q[k].last
  <2>1. CASE k = 1
    BY <1>2, <2>1
  <2>2. CASE k # 1
    <3>1. k \in 2 .. n
      BY <1>1, <2>2
    <3>2. QED
      BY <1>2, <3>1
  <2>3. QED
    BY <2>1, <2>2
<1>4. JobsUntaken(u, A, X)
  BY <1>2, <1>3 DEF JobsUntaken
<1>5. JobsApart(u)
  <2>1. ASSUME NEW j \in 1 .. n, NEW k \in 1 .. n, j < k
        PROVE  u[j].last < u[k].first
    <3>1. q[j].last < q[k].first
      BY <1>2, <2>1
    <3>2. QED
      BY <1>3, <3>1
  <2>2. QED
    BY <1>2, <2>1 DEF JobsApart
<1>6. QED
  BY <1>4, <1>5

\* The event of a gap says what is needed as the gap does.
LEMMA UntakenEvent ==
    ASSUME NEW g, NEW h, g.first = h.first, g.last = h.last, g.through = h.through, NEW A, NEW X,
           Untaken(g, A, X)
    PROVE  Untaken(h, A, X)
BY DEF Untaken, NextNeeded

\* A gap given up.
LEMMA GivenUpFresh ==
    ASSUME NEW s \in Nat, NEW q \in Seq(JobType(s)), q # <<>>, NEW res, GivenUp(res, q),
           NEW D, NEW X, JobsUntaken(q, D, X), JobsApart(q)
    PROVE  Filled(res, D, D, X) /\ AllRowIds(res.out) = {}
<1> DEFINE ev == GapEvent(Head(q), "unrecoverable")
           c == Record(ev)
           td == <<c>>
<1>1. res.jobs = Tail(q) /\ res.out = td /\ c.do = "event" /\ c.event = ev /\ ev.status = "unrecoverable"
  BY DEF GivenUp, Record, GapEvent
<1>2. Len(td) = 1 /\ td[1] = c /\ DOMAIN td = 1 .. 1
  OBVIOUS
<1> HIDE DEF ev, c, td
<1>3. c.do # "row" /\ ev.status \notin OpenStatuses
  BY <1>1 DEF OpenStatuses
<1>4. ListFresh(td, D, X) /\ BackOnly(td)
  BY <1>2, <1>3 DEF ListFresh, RowFresh, BackOnly
<1>5. EventsOf(td) = {ev}
  <2>1. Range(td) = {c}
    BY <1>2 DEF Range
  <2>2. QED
    BY <1>1, <2>1 DEF EventsOf
<1>6. AllRowIds(td) = {}
  <2>1. Len(td) + 1 = 2 /\ td[1].do # "row"
    BY <1>2, <1>3
  <2>2. QED
    BY <2>1, FirstRowId DEF AllRowIds
<1>7. \A k \in 2 .. Len(q) : Untaken(q[k], D, X)
  BY DEF JobsUntaken
<1>8. JobsUntaken(Tail(q), D, X) /\ JobsApart(Tail(q))
  <2> DEFINE T == JobType(s)
  <2>1. q \in Seq(T)
    OBVIOUS
  <2> HIDE DEF T
  <2>2. QED
    BY <1>7, <2>1, JobsBehind
<1>9. QED
  BY <1>1, <1>3, <1>4, <1>5, <1>6, <1>8 DEF Filled

\* A failure is counted.
LEMMA RetriedFresh ==
    ASSUME NEW s \in Nat, NEW q \in Seq(JobType(s)), q # <<>>, NEW res, Retried(res, q, s),
           NEW D, NEW X, JobsUntaken(q, D, X), JobsApart(q)
    PROVE  Filled(res, D, D, X) /\ AllRowIds(res.out) = {}
<1>1. PICK g \in JobType(s) : /\ g.first = q[1].first /\ g.last = q[1].last
                              /\ g.through = q[1].through
                              /\ Replaced(res.jobs, q, g, s) /\ res.out = <<>>
  BY DEF Retried
<1>2. Len(q) \in Nat /\ Len(q) >= 1
  BY TailSeq
<1>3. Untaken(q[1], D, X) /\ \A k \in 2 .. Len(q) : Untaken(q[k], D, X)
  BY <1>2 DEF JobsUntaken
<1>4. Untaken(g, D, X)
  BY <1>1, <1>3, UntakenEvent
<1>5. JobsUntaken(res.jobs, D, X) /\ JobsApart(res.jobs)
  BY <1>1, <1>3, <1>4, ReplacedFresh
<1>6. AllRowIds(res.out) = {} /\ EventsOf(res.out) = {}
  BY <1>1, EmptyLists
<1>7. ListFresh(res.out, D, X) /\ BackOnly(res.out)
  BY <1>1 DEF ListFresh, BackOnly
<1>8. QED
  BY <1>5, <1>6, <1>7 DEF Filled

\* A page moves a gap on: its rows were needed, and no other gap needs them.
LEMMA GainedFresh ==
    ASSUME NEW s \in Nat, NEW q \in Seq(JobType(s)), q # <<>>, NEW res,
           NEW n \in Nat \ {0}, NEW g \in JobType(s), NEW status \in Statuses,
           Gained(res, q, s, n, g, status), NEW D, NEW X, JobsUntaken(q, D, X), JobsApart(q)
    PROVE  Filled(res, D, D \cup AllRowIds(res.out), X)
<1> DEFINE h == q[1]
           from == NextNeeded(h)
           u == res.out
           ev == GapEvent(g, status)
           e == Record(ev)
           top == from + n - 1
           E == D \cup (from .. top)
<1>1. h \in JobType(s) /\ Len(q) \in Nat /\ Len(q) >= 1
  BY TailSeq
<1>2. /\ h.first \in Nat \ {0} /\ h.last \in Nat /\ h.through \in Nat /\ h.first <= h.last
      /\ h.through = 0 \/ h.through >= h.first
  BY <1>1, JobFields
<1>3. from \in Nat \ {0} /\ h.first <= from
  BY <1>2 DEF NextNeeded
<1>4. /\ g.first = h.first /\ g.last = h.last /\ g.through = top /\ g.through <= g.last
      /\ u = RowsThen(from, n, e)
      /\ \/ status = "recovered" /\ g.through = g.last /\ res.jobs = Tail(q)
         \/ status = "partial" /\ Replaced(res.jobs, q, g, s)
  BY DEF Gained
<1>5. g.last \in Nat /\ g.last <= s /\ n \in Nat
  BY JobFields
<1>6. e \in CommandType(s) /\ e.do = "event" /\ e.event = ev
  BY GapEventTyped DEF Record
<1>7. /\ ev.first = g.first /\ ev.last = g.last /\ ev.through = g.through /\ ev.status = status
  BY DEF GapEvent
<1>8. top <= h.last /\ top <= s /\ top \in Nat /\ top > 0 /\ from <= top
  BY <1>3, <1>4, <1>5
<1> HIDE DEF ev, e, h, u, from
<1>9. HasRowsThen(u, s, from, n, e)
  <2>1. from + n - 1 <= s
    BY <1>8
  <2>2. QED
    BY <1>3, <1>4, <1>6, <2>1, RowsThenIs
<1>10. /\ \A k \in 1 .. n + 1 : RowIds(u, k) = from .. (from + k - 2)
       /\ AllRowIds(u) = from .. top
       /\ EventsOf(u) = {ev}
  <2>1. /\ \A k \in 1 .. n + 1 : RowIds(u, k) = from .. (from + k - 2)
        /\ AllRowIds(u) = from .. (from + n - 1)
        /\ EventsOf(u) = {e.event}
    BY <1>3, <1>5, <1>6, <1>9, PageRowIds
  <2>2. QED
    BY <1>6, <2>1
<1> HIDE DEF top
<1>11. Untaken(h, D, X)
  BY <1>1 DEF JobsUntaken, h
<1>12. ListFresh(u, D, X) /\ BackOnly(u)
  <2>1. Len(u) = n + 1 /\ u[n + 1] = e /\ \A k \in 1 .. n : u[k] = Row(from + k - 1, TRUE)
    BY <1>9 DEF HasRowsThen
  <2>2. ASSUME NEW k \in 1 .. n
        PROVE  RowFresh(u[k], D \cup RowIds(u, k), X) /\ u[k].back
    <3> DEFINE i == from + k - 1
    <3>1. i \in from .. h.last /\ from + k - 2 = i - 1 /\ k \in 1 .. n + 1
      BY <1>3, <1>2, <1>5, <1>8 DEF top
    <3>2. RowIds(u, k) = from .. (i - 1)
      BY <1>10, <3>1
    <3>3. i \notin RowIds(u, k)
      BY <1>2, <1>3, <3>1, <3>2
    <3>4. u[k] = Row(i, TRUE)
      BY <2>1
    <3> HIDE DEF i
    <3>5. Fresh(i, D, X)
      BY <1>11, <3>1 DEF Untaken, from
    <3>6. Row(i, TRUE).id = i /\ Row(i, TRUE).back
      BY DEF Row
    <3>7. Fresh(i, D \cup RowIds(u, k), X)
      BY <3>3, <3>5 DEF Fresh
    <3>8. QED
      BY <3>4, <3>6, <3>7 DEF RowFresh
  <2>3. e.do # "row"
    BY <1>6
  <2>4. ASSUME NEW k \in 1 .. n + 1
        PROVE  RowFresh(u[k], D \cup RowIds(u, k), X) /\ (u[k].do = "row" => u[k].back)
    <3>1. CASE k \in 1 .. n
      BY <2>2, <3>1
    <3>2. CASE k = n + 1
      BY <2>1, <2>3, <3>2 DEF RowFresh
    <3>3. QED
      BY <3>1, <3>2
  <2>5. QED
    BY <2>1, <2>4 DEF ListFresh, BackOnly
<1>13. ASSUME NEW k \in 2 .. Len(q)
       PROVE  Untaken(q[k], E, X)
  <2>1. 1 \in 1 .. Len(q) /\ k \in 1 .. Len(q) /\ 1 < k
    BY <1>1
  <2>2. h.last < q[k].first /\ Untaken(q[k], D, X) /\ q[k] \in JobType(s)
    BY <2>1 DEF JobsApart, JobsUntaken, h
  <2>3. /\ q[k].first \in Nat /\ q[k].last \in Nat /\ q[k].through \in Nat
        /\ q[k].through = 0 \/ q[k].through >= q[k].first
    BY <2>2, JobFields
  <2>4. NextNeeded(q[k]) \in Nat /\ NextNeeded(q[k]) >= q[k].first
    BY <2>3 DEF NextNeeded
  <2>5. ASSUME NEW i \in NextNeeded(q[k]) .. q[k].last
        PROVE  Fresh(i, E, X)
    <3>1. i \notin from .. top
      BY <1>2, <1>3, <1>8, <2>2, <2>3, <2>4
    <3>2. Fresh(i, D, X)
      BY <2>2 DEF Untaken
    <3>3. QED
      BY <3>1, <3>2 DEF Fresh
  <2>6. QED
    BY <2>5 DEF Untaken
<1>14. Untaken(g, E, X)
  <2>1. NextNeeded(g) = top + 1
    BY <1>4, <1>8 DEF NextNeeded
  <2>2. ASSUME NEW i \in top + 1 .. g.last
        PROVE  Fresh(i, E, X)
    <3>1. i \notin from .. top /\ i \in from .. h.last
      BY <1>3, <1>4, <1>2, <1>8
    <3>2. Fresh(i, D, X)
      BY <1>11, <3>1 DEF Untaken, from
    <3>3. QED
      BY <3>1, <3>2 DEF Fresh
  <2>3. QED
    BY <2>1, <2>2 DEF Untaken
<1>15. \A x \in EventsOf(u) : Untaken(x, E, X)
  BY <1>7, <1>10, <1>14, UntakenEvent
<1> HIDE DEF E
<1>16. JobsUntaken(res.jobs, E, X) /\ JobsApart(res.jobs)
  <2>1. CASE res.jobs = Tail(q)
    <3> DEFINE T == JobType(s)
    <3>1. q \in Seq(T)
      OBVIOUS
    <3> HIDE DEF T
    <3>2. QED
      BY <1>13, <2>1, <3>1, JobsBehind
  <2>2. CASE Replaced(res.jobs, q, g, s)
    <3>1. g.first = q[1].first /\ g.last = q[1].last
      BY <1>4 DEF h
    <3>2. QED
      BY <1>13, <1>14, <2>2, <3>1, ReplacedFresh
  <2>3. QED
    BY <1>4, <2>1, <2>2
<1>17. E = D \cup AllRowIds(u)
  BY <1>10 DEF E
<1>18. QED
  BY <1>12, <1>15, <1>16, <1>17 DEF Filled, u

\* What a page does.
LEMMA OutcomeFresh ==
    ASSUME NEW s \in Nat, NEW q \in Seq(JobType(s)), q # <<>>, NEW res, Outcome(res, q, s),
           NEW D, NEW X, JobsUntaken(q, D, X), JobsApart(q)
    PROVE  Filled(res, D, D \cup AllRowIds(res.out), X)
<1> DEFINE E == D \cup AllRowIds(res.out)
<1>1. ASSUME AllRowIds(res.out) = {}, Filled(res, D, D, X)
      PROVE  Filled(res, D, E, X)
  <2>1. E = D
    BY <1>1
  <2>2. QED
    BY <1>1, <2>1
<1>2. ASSUME NEW n \in Nat \ {0}, NEW g \in JobType(s), NEW status \in Statuses,
             Gained(res, q, s, n, g, status)
      PROVE  Filled(res, D, E, X)
  BY <1>2, GainedFresh
<1>3. QED
  BY <1>1, <1>2, GivenUpFresh, RetriedFresh DEF Outcome

\* The gaps closed without a request.
LEMMA SettleFresh ==
    ASSUME NEW s \in Nat, NEW q \in Seq(JobType(s)), NEW D, NEW X, JobsUntaken(q, D, X), JobsApart(q)
    PROVE  Filled(Settle(q), D, D, X)
<1> DEFINE Ev(k) == GapEvent(q[k], IF OutOfReach(q[k]) THEN "unrecoverable" ELSE "recovered")
           o == Settle(q).out
           u == Settle(q).jobs
<1>1. PICK n : Settles(q, n)
  BY SettleIs
<1>2. /\ n \in 0 .. Len(q) /\ Len(q) \in Nat
      /\ o = [k \in 1 .. n |-> Record(Ev(k))] /\ u = SubSeq(q, n + 1, Len(q))
  BY <1>1 DEF Settles
<1>3. DOMAIN o = 1 .. n /\ Len(o) = n /\ \A k \in 1 .. n : o[k] = Record(Ev(k))
  <2>1. DOMAIN o = 1 .. n /\ \A k \in 1 .. n : o[k] = Record(Ev(k))
    BY <1>2
  <2>2. Outs(o, s)
    BY SettleTyped
  <2> HIDE DEF o
  <2>3. Len(o) = n
    BY <1>2, <2>1, <2>2 DEF Outs
  <2>4. QED
    BY <2>1, <2>3
<1>4. Len(u) = Len(q) - n /\ \A k \in 1 .. Len(q) - n : u[k] = q[n + k]
  <2> DEFINE v == SubSeq(q, n + 1, Len(q))
  <2>1. Len(v) = Len(q) - n /\ \A k \in 1 .. Len(q) - n : v[k] = q[n + k]
    BY <1>2, SuffixSeq
  <2>2. u = v
    BY <1>2
  <2> HIDE DEF u, v
  <2>3. QED
    BY <2>1, <2>2
<1> HIDE DEF o, u
<1>5. ASSUME NEW k \in 1 .. n
      PROVE  o[k].do = "event" /\ o[k].event = Ev(k) /\ Ev(k).status \notin OpenStatuses
  <2>1. Ev(k).status \in {"unrecoverable", "recovered"}
    BY DEF GapEvent
  <2>2. QED
    BY <1>3, <2>1 DEF Record, OpenStatuses
<1>6. ListFresh(o, D, X) /\ BackOnly(o)
  <2>1. ASSUME NEW k \in 1 .. n
        PROVE  o[k].do # "row"
    <3>1. o[k].do = "event"
      BY <1>5
    <3>2. QED
      BY <3>1
  <2>2. QED
    BY <1>3, <2>1 DEF ListFresh, RowFresh, BackOnly
<1>7. \A e \in EventsOf(o) : e.status \notin OpenStatuses
  <2>1. \A d \in Range(o) : \E k \in 1 .. n : d = o[k]
    BY <1>3 DEF Range
  <2>2. QED
    BY <1>5, <2>1 DEF EventsOf
<1>8. ASSUME NEW k \in 1 .. Len(q) - n
      PROVE  u[k] = q[n + k] /\ n + k \in 1 .. Len(q)
  BY <1>2, <1>4
<1>9. JobsUntaken(u, D, X)
  <2>1. ASSUME NEW k \in 1 .. Len(q) - n
        PROVE  Untaken(u[k], D, X)
    BY <1>8 DEF JobsUntaken
  <2>2. QED
    BY <1>4, <2>1 DEF JobsUntaken
<1>10. JobsApart(u)
  <2>1. ASSUME NEW j \in 1 .. Len(q) - n, NEW k \in 1 .. Len(q) - n, j < k
        PROVE  u[j].last < u[k].first
    <3>1. n + j \in 1 .. Len(q) /\ n + k \in 1 .. Len(q) /\ n + j < n + k
      BY <1>2, <1>8, <2>1
    <3>2. q[n + j].last < q[n + k].first
      BY <3>1 DEF JobsApart
    <3>3. QED
      BY <1>8, <3>2
  <2>2. QED
    BY <1>4, <2>1 DEF JobsApart
<1>11. QED
  BY <1>6, <1>7, <1>9, <1>10 DEF Filled, o, u

\* The answer is used.
LEMMA TakenFresh ==
    ASSUME TypedInv, NEW D, NEW X, JobsUntaken(jobs, D, X), JobsApart(jobs)
    PROVE  Filled(Taken, D, D \cup AllRowIds(Taken.out), X)
<1>1. sent \in Nat /\ jobs \in Seq(JobType(sent))
  BY TradeConstants DEF TypedInv
<1>2. CASE fetch.st = "page"
  <2>1. jobs # <<>>
    BY <1>2 DEF TypedInv, AnswerFitsGap
  <2>2. Outcome(Taken, jobs, sent)
    BY <1>1, <1>2, <2>1, PageOutcome DEF Taken
  <2>3. QED
    BY <1>1, <2>1, <2>2, OutcomeFresh
<1>3. CASE fetch.st # "page"
  <2>1. Taken.out = <<>> /\ Taken.jobs = jobs
    BY <1>3 DEF Taken
  <2>2. AllRowIds(Taken.out) = {} /\ EventsOf(Taken.out) = {}
    BY <2>1, EmptyLists
  <2>3. ListFresh(Taken.out, D, X) /\ BackOnly(Taken.out)
    BY <2>1 DEF ListFresh, BackOnly
  <2>4. D \cup AllRowIds(Taken.out) = D
    BY <2>2
  <2>5. QED
    BY <2>1, <2>2, <2>3, <2>4 DEF Filled
<1>4. QED
  BY <1>2, <1>3

\* Gaps that need no request are closed.
LEMMA SettledFresh ==
    ASSUME TypedInv, NEW D, NEW X, JobsUntaken(Taken.jobs, D, X), JobsApart(Taken.jobs)
    PROVE  Filled(Settled, D, D, X)
<1>1. sent \in Nat /\ Taken.jobs \in Seq(JobType(sent))
  BY TakenTyped, TradeConstants DEF TypedInv
<1>2. CASE fetch.st = "asked"
  <2>1. Settled.out = <<>> /\ Settled.jobs = Taken.jobs
    <3>1. fetch.st # "page"
      BY <1>2
    <3>2. QED
      BY <1>2, <3>1 DEF Settled, Taken
  <2>2. EventsOf(Settled.out) = {}
    BY <2>1, EmptyLists
  <2>3. ListFresh(Settled.out, D, X) /\ BackOnly(Settled.out)
    BY <2>1 DEF ListFresh, BackOnly
  <2>4. QED
    BY <2>1, <2>2, <2>3 DEF Filled
<1>3. CASE fetch.st # "asked"
  <2>1. Settled = Settle(Taken.jobs)
    BY <1>3 DEF Settled
  <2>2. QED
    BY <1>1, <2>1, SettleFresh
<1>4. QED
  BY <1>2, <1>3

\* Commands without rows after others.
LEMMA ConcatFresh ==
    ASSUME NEW T, NEW a \in Seq(T), NEW b \in Seq(T), NEW D, NEW X, ListFresh(a, D, X), BackOnly(a),
           AllRowIds(b) = {}, BackOnly(b)
    PROVE  ListFresh(a \o b, D, X) /\ BackOnly(a \o b)
<1> DEFINE c == a \o b
           p == Len(a)
           r == Len(b)
<1>1. /\ p \in Nat /\ r \in Nat /\ Len(c) = p + r /\ (\A k \in 1 .. p : c[k] = a[k])
      /\ (\A k \in 1 .. r : c[p + k] = b[k])
  BY ConcatIs
<1>2. \A k \in 1 .. p : RowFresh(a[k], D \cup RowIds(a, k), X) /\ (a[k].do = "row" => a[k].back)
  BY DEF ListFresh, BackOnly
<1>3. ASSUME NEW k \in 1 .. r
      PROVE  ~ (b[k].do = "row" /\ b[k].id > 0) /\ (b[k].do = "row" => b[k].back)
  <2>1. k \in 1 .. (Len(b) + 1) - 1
    BY <1>1
  <2>2. b[k].do = "row" /\ b[k].id > 0 => b[k].id \in AllRowIds(b)
    BY <2>1 DEF AllRowIds, RowIds
  <2>3. QED
    BY <2>2 DEF BackOnly
<1> HIDE DEF c, p, r
<1>4. ASSUME NEW k \in 1 .. p + r
      PROVE  RowFresh(c[k], D \cup RowIds(c, k), X) /\ (c[k].do = "row" => c[k].back)
  <2>1. CASE k <= p
    <3>1. k \in 1 .. p /\ \A m \in 1 .. k - 1 : c[m] = a[m]
      BY <1>1, <2>1
    <3>2. RowIds(c, k) = RowIds(a, k)
      BY <3>1 DEF RowIds
    <3>3. D \cup RowIds(c, k) = D \cup RowIds(a, k) /\ c[k] = a[k]
      BY <1>1, <3>1, <3>2
    <3>4. QED
      BY <1>2, <3>1, <3>3
  <2>2. CASE k > p
    <3>1. k - p \in 1 .. r /\ p + (k - p) = k
      BY <1>1, <2>2
    <3>2. c[k] = b[k - p]
      BY <1>1, <3>1
    <3>3. QED
      BY <1>3, <3>1, <3>2 DEF RowFresh
  <2>3. QED
    BY <1>1, <2>1, <2>2
<1>5. QED
  BY <1>1, <1>4 DEF ListFresh, BackOnly, c

\* What the pump leaves to do, and what it says of the gaps.
PumpLeaves ==
    /\ JobsUntaken(jobs', OnTheWay', again) /\ JobsApart(jobs')
    /\ ListFresh(todo', Delivered, again) /\ BackOnly(todo')
    /\ \A e \in EventsOf(todo') : e.status \in OpenStatuses => Untaken(e, OnTheWay', again)
    /\ SpansIn(EventsOf(todo'), Range(jobs)) /\ SpansIn(Range(jobs'), Range(jobs))

\* The rows of the pump were needed by the gap they fill.
LEMMA PumpFresh ==
    ASSUME OnceInv, NEW granted \in BOOLEAN, PumpBackfill(granted)
    PROVE  PumpLeaves
<1> DEFINE D == Delivered
           G == Range(jobs)
           a == Taken.out
           b == Settled.out
           E == D \cup AllRowIds(a)
           X == again
<1>1. ProgressInv /\ TypedInv
  BY DEF OnceInv, AccountInv, ProgressInv
<1>2. /\ todo # <<>> /\ Head(todo).do = "pump" /\ jobs' = Settled.jobs /\ todo' = a \o b
      /\ UNCHANGED <<chan, logged>>
  BY PumpParts DEF tp
<1>3. AllRowIds(todo) = {}
  BY <1>1, <1>2, PumpAlone
<1>4. OnTheWay = D /\ Delivered' = D
  BY <1>2, <1>3 DEF OnTheWay, Delivered
<1>5. NatSpans(G) /\ SpansIn(G, AllGaps)
  BY <1>1, AllGapsNat, AllGapsAre DEF NatSpans, SpansIn
<1>6. JobsGood(jobs, D, G) /\ TrackerGood(last, D, G)
  <2>1. JobsGood(jobs, D, AllGaps) /\ TrackerGood(last, D, AllGaps)
    BY <1>1, <1>4 DEF ProgressInv
  <2> HIDE DEF D, G
  <2>2. QED
    BY <1>5, <2>1, QueuesGoodFewer, TrackerGoodFewer
<1>7. a \in Seq(CommandType(sent)) /\ b \in Seq(CommandType(sent))
  BY <1>1, TakenTyped, SettledTyped DEF Outs
<1>8. JobsUntaken(jobs, D, X) /\ JobsApart(jobs)
  BY <1>4 DEF OnceInv
<1> HIDE DEF D, G
<1>9. Pumped(Taken, D, E, G) /\ AllRowIds(b) = {} /\ Pumped(Settled, E, E, G)
  <2>1. Pumped(Taken, D, E, G)
    <3>1. Range(jobs) \subseteq G
      BY DEF G
    <3>2. QED
      BY <1>1, <1>5, <1>6, <3>1, TakenGood
  <2>2. JobsGood(Taken.jobs, E, G) /\ SpansIn(Range(Taken.jobs), G)
    BY <2>1 DEF Pumped
  <2>3. QED
    BY <1>1, <1>5, <2>1, <2>2, SettledGood
<1>10. ListGood(a, D, G) /\ ListGood(b, E, G)
  BY <1>9 DEF Pumped
<1>11. Filled(Taken, D, E, X)
  BY <1>1, <1>8, TakenFresh
<1>12. /\ ListFresh(a, D, X) /\ BackOnly(a) /\ JobsUntaken(Taken.jobs, E, X) /\ JobsApart(Taken.jobs)
       /\ \A e \in EventsOf(a) : e.status \in OpenStatuses => Untaken(e, E, X)
  BY <1>11 DEF Filled
<1> HIDE DEF E, X
<1>13. Filled(Settled, E, E, X)
  BY <1>1, <1>12, SettledFresh
<1>14. /\ BackOnly(b) /\ JobsUntaken(jobs', E, X) /\ JobsApart(jobs')
       /\ \A e \in EventsOf(b) : e.status \in OpenStatuses => Untaken(e, E, X)
  BY <1>2, <1>13 DEF Filled
<1> HIDE DEF a, b
<1>15. AllRowIds(todo') = AllRowIds(a) /\ EventsOf(todo') = EventsOf(a) \cup EventsOf(b)
  <2>1. ListGood(b, D \cup AllRowIds(a), G)
    BY <1>10 DEF E
  <2>2. /\ ListGood(a \o b, D, G) /\ AllRowIds(a \o b) = AllRowIds(a) \cup AllRowIds(b)
        /\ EventsOf(a \o b) = EventsOf(a) \cup EventsOf(b)
    BY <1>7, <1>10, <2>1, ConcatGood
  <2>3. QED
    BY <1>2, <1>9, <2>2
<1>16. OnTheWay' = E
  BY <1>4, <1>15 DEF OnTheWay, E
<1>17. ListFresh(a \o b, D, X) /\ BackOnly(a \o b)
  BY <1>7, <1>9, <1>12, <1>14, ConcatFresh
<1>18. ListFresh(todo', Delivered, again) /\ BackOnly(todo')
  BY <1>2, <1>17 DEF D, X
<1>19. JobsUntaken(jobs', OnTheWay', again)
  BY <1>14, <1>16 DEF X
<1>20. \A e \in EventsOf(todo') : e.status \in OpenStatuses => Untaken(e, OnTheWay', again)
  BY <1>12, <1>14, <1>15, <1>16 DEF X
<1>21. SpansIn(EventsOf(todo'), Range(jobs)) /\ SpansIn(Range(jobs'), Range(jobs))
  <2>1. SpansIn(EventsOf(a), G) /\ SpansIn(EventsOf(b), G) /\ SpansIn(Range(jobs'), G)
    BY <1>2, <1>9 DEF Pumped, a, b
  <2>2. QED
    BY <1>15, <2>1 DEF SpansIn, G
<1>22. QED
  BY <1>14, <1>18, <1>19, <1>20, <1>21 DEF PumpLeaves

\* The pump.
LEMMA PumpOnce ==
    ASSUME OnceInv, AccountInv', NEW granted \in BOOLEAN, PumpBackfill(granted)
    PROVE  OnceInv'
<1>1. PumpLeaves
  BY PumpFresh
<1>2. todo # <<>> /\ UNCHANGED <<up, chan, logged, again>>
  BY PumpParts DEF tp, ghosts
<1>3. TypedInv
  BY DEF OnceInv, AccountInv, ProgressInv
<1>4. up'
  BY <1>2, <1>3 DEF TypedInv, Nothing
<1>5. LineFresh(LoggedIds(logged'), chan', todo', again')
  BY <1>1, <1>2 DEF OnceInv, LineFresh, PumpLeaves, Delivered
<1>6. LogOnce(logged', again')
  BY <1>2 DEF OnceInv
<1>7. JobsUntaken(jobs', OnTheWay', again') /\ JobsApart(jobs')
  BY <1>1, <1>2 DEF PumpLeaves
<1>8. QED
  BY <1>4, <1>5, <1>6, <1>7 DEF OnceInv

\* Ids that are left out count for nothing.
LEMMA LineFreshMore ==
    ASSUME NEW L, NEW q, NEW X, NEW Y, X \subseteq Y
    PROVE  /\ \A lg : LogOnce(lg, X) => LogOnce(lg, Y)
           /\ ChanFresh(q, L, X) => ChanFresh(q, L, Y)
<1>1. \A lg : LogOnce(lg, X) => LogOnce(lg, Y)
  BY DEF LogOnce
<1>2. ASSUME ChanFresh(q, L, X)
      PROVE  ChanFresh(q, L, Y)
  BY <1>2 DEF ChanFresh, Fresh
<1>3. QED
  BY <1>1, <1>2

\* The commands of a message whose id is not there yet.
LEMMA MessageFresh ==
    ASSUME NEW a, a.do = "event", NEW i \in Nat, i >= 1, NEW D, NEW X, Fresh(i, D, X)
    PROVE  LET b == Row(i, FALSE)
           IN  ListFresh(<<b, Flush, Pump>>, D, X) /\ ListFresh(<<a, b, Flush, Pump>>, D, X)
<1> DEFINE b == Row(i, FALSE)
           v == <<a, b, Flush, Pump>>
           w == <<b, Flush, Pump>>
<1>1. /\ Len(v) = 4 /\ v[1] = a /\ v[2] = b /\ v[3] = Flush /\ v[4] = Pump
      /\ Len(w) = 3 /\ w[1] = b /\ w[2] = Flush /\ w[3] = Pump
  OBVIOUS
<1>2. b.do = "row" /\ b.id = i /\ Flush.do = "flush" /\ Pump.do = "pump"
  BY DEF Row, Flush, Pump
<1> HIDE DEF v, w, b
<1>3. RowIds(w, 1) = {} /\ RowIds(v, 1) = {} /\ RowIds(v, 2) = {}
  BY <1>1, <1>2, FirstRowId
<1>4. /\ RowFresh(b, D, X)
      /\ \A L : RowFresh(a, L, X) /\ RowFresh(Flush, L, X) /\ RowFresh(Pump, L, X)
  BY <1>2 DEF RowFresh
<1>5. ASSUME NEW k \in 1 .. 3
      PROVE  RowFresh(w[k], D \cup RowIds(w, k), X)
  <2>1. CASE k = 1
    BY <1>1, <1>3, <1>4, <2>1
  <2>2. CASE k # 1
    BY <1>1, <1>4, <2>2
  <2>3. QED
    BY <2>1, <2>2
<1>6. ASSUME NEW k \in 1 .. 4
      PROVE  RowFresh(v[k], D \cup RowIds(v, k), X)
  <2>1. CASE k = 2
    BY <1>1, <1>3, <1>4, <2>1
  <2>2. CASE k # 2
    BY <1>1, <1>4, <2>2
  <2>3. QED
    BY <2>1, <2>2
<1>7. ListFresh(w, D, X) /\ ListFresh(v, D, X)
  BY <1>1, <1>5, <1>6 DEF ListFresh
<1>8. QED
  BY <1>7 DEF v, w, b

\* A message: its id is the next one, or one that is left out from now on.
LEMMA MessageOnce ==
    ASSUME OnceInv, AccountInv', todo = <<>>, up', NEW i \in Nat, i >= 1, ProcessMessage(i),
           UNCHANGED <<chan, logged>>,
           (i \in 1 .. last /\ again' = again \cup {i}) \/ (i = sent + 1 /\ again' = again)
    PROVE  OnceInv'
<1> DEFINE D == Delivered
           L == LoggedIds(logged)
           X == again
           Y == again'
           gap == [first |-> last + 1, last |-> i - 1, through |-> 0]
           a == Record(GapEvent(gap, "detected"))
           j == Job(gap)
           b == Row(i, FALSE)
<1>1. AccountInv /\ TypedInv
  BY DEF OnceInv, AccountInv, ProgressInv
<1>2. /\ jobs' = IF IsGap(i) THEN Append(jobs, j) ELSE jobs
      /\ todo' \in {<<b, Flush, Pump>>, <<a, b, Flush, Pump>>}
  BY DEF ProcessMessage, ValidateTradeId
<1>3. /\ last \in Nat /\ sent \in Nat /\ last <= sent /\ jobs \in Seq(JobType(sent))
      /\ sent <= MaxTrades /\ MaxTrades \in Nat
  BY <1>1, TradeConstants DEF TypedInv
<1>4. a.do = "event" /\ j.first = last + 1 /\ j.last = i - 1 /\ j.through = 0
  BY DEF Record, Job
<1> HIDE DEF a, j, b, gap
<1>5. AllRowIds(todo') = {i} /\ AllRowIds(todo) = {}
  <2>1. AllRowIds(<<a, b, Flush, Pump>>) = {i} /\ AllRowIds(<<b, Flush, Pump>>) = {i}
    BY <1>4, MessageRows DEF b
  <2>2. QED
    BY <1>2, <2>1, EmptyLists
<1>6. OnTheWay = D /\ Delivered' = D /\ OnTheWay' = D \cup {i}
  BY <1>5 DEF OnTheWay, Delivered
<1>7. D \subseteq 1 .. sent /\ NatSpans(AllGaps) /\ \A g \in AllGaps : g.last <= sent
  BY <1>1, <1>6, AllGapsNat
<1>8. /\ ChanFresh(chan, L, X) /\ LogOnce(logged, X) /\ JobsUntaken(jobs, D, X) /\ JobsApart(jobs)
  BY <1>6 DEF OnceInv, LineFresh
<1>9. X \subseteq Y /\ (i \in Y \/ i = sent + 1)
  OBVIOUS
<1>10. D = L \cup ChanIds(chan, 0, Len(chan))
  BY DEF Delivered
<1>11. /\ \A h \in Mine : h.last <= last
       /\ last > 0 => \A k \in D : k <= last
  BY <1>1, <1>6 DEF AccountInv, TrackerCovers
<1>12. \A k \in 1 .. Len(jobs) : jobs[k] \in Mine /\ jobs[k] \in AllGaps
  <2>1. DOMAIN jobs = 1 .. Len(jobs)
    BY <1>3
  <2>2. QED
    BY <2>1 DEF Mine, AllGaps, Range
<1>13. /\ IsGap(i) => last > 0 /\ i > last + 1 /\ i = sent + 1
  BY <1>3 DEF IsGap
<1> HIDE DEF D, L, X, Y
<1>14. Fresh(i, D, Y)
  BY <1>3, <1>7, <1>9 DEF Fresh
<1>15. ListFresh(todo', D, Y)
  BY <1>2, <1>4, <1>14, MessageFresh DEF b
<1>16. LogOnce(logged, Y) /\ ChanFresh(chan, L, Y)
  BY <1>8, <1>9, LineFreshMore
<1>17. LineFresh(L, chan, todo', Y)
  BY <1>10, <1>15, <1>16 DEF LineFresh
<1>18. ASSUME NEW k \in 1 .. Len(jobs)
       PROVE  Untaken(jobs[k], D \cup {i}, Y) /\ jobs[k].last <= last /\ jobs[k].last \in Nat
  <2>1. Untaken(jobs[k], D, X) /\ jobs[k].last \in Nat /\ jobs[k].last <= sent /\ jobs[k].last <= last
    BY <1>7, <1>8, <1>11, <1>12 DEF JobsUntaken, NatSpans
  <2>2. ASSUME NEW m \in NextNeeded(jobs[k]) .. jobs[k].last
        PROVE  Fresh(m, D \cup {i}, Y)
    <3>1. Fresh(m, D, X)
      BY <2>1 DEF Untaken
    <3>2. m = i => i \in Y
      BY <1>3, <1>9, <2>1
    <3>3. QED
      BY <1>9, <3>1, <3>2 DEF Fresh
  <2>3. QED
    BY <2>1, <2>2 DEF Untaken
<1>19. CASE ~ IsGap(i)
  <2>1. JobsUntaken(jobs', D \cup {i}, Y) /\ JobsApart(jobs')
    BY <1>2, <1>8, <1>18, <1>19 DEF JobsUntaken
  <2>2. QED
    BY <1>6, <1>16, <1>17, <2>1 DEF OnceInv, L, Y
<1>20. CASE IsGap(i)
  <2>1. /\ Len(jobs) \in Nat /\ Len(jobs') = Len(jobs) + 1
        /\ (\A k \in 1 .. Len(jobs) : jobs'[k] = jobs[k]) /\ jobs'[Len(jobs) + 1] = j
    <3> DEFINE T == JobType(sent) \cup {j}
               q == jobs
               w == jobs'
    <3>1. q \in Seq(T) /\ j \in T
      <4>1. Seq(JobType(sent)) \subseteq Seq(T)
        BY SeqGrows
      <4>2. QED
        BY <1>3, <4>1
    <3>2. w = Append(q, j)
      BY <1>2, <1>20
    <3> HIDE DEF T, q, w
    <3>3. Len(q) \in Nat /\ Len(w) = Len(q) + 1 /\ (\A k \in 1 .. Len(q) : w[k] = q[k]) /\ w[Len(q) + 1] = j
      BY <3>1, <3>2, AppendSeq
    <3>4. QED
      BY <3>3 DEF q, w
  <2>2. Untaken(j, D \cup {i}, Y)
    <3>1. ASSUME NEW m \in NextNeeded(j) .. j.last
          PROVE  m \notin D \cup {i}
      <4>1. m \in last + 1 .. i - 1
        BY <1>3, <1>4 DEF NextNeeded
      <4>2. m > last /\ m < i /\ m \in Nat
        BY <1>3, <4>1
      <4>3. \A k \in D : k \in Nat /\ k <= last
        BY <1>3, <1>7, <1>11, <1>13, <1>20
      <4>4. QED
        BY <1>3, <4>2, <4>3
    <3>2. QED
      BY <3>1 DEF Untaken, Fresh
  <2>3. ASSUME NEW k \in 1 .. Len(jobs')
        PROVE  Untaken(jobs'[k], D \cup {i}, Y)
    <3>1. k \in 1 .. Len(jobs) \/ k = Len(jobs) + 1
      BY <2>1
    <3>2. QED
      BY <1>18, <2>1, <2>2, <3>1
  <2>4. ASSUME NEW m \in 1 .. Len(jobs'), NEW k \in 1 .. Len(jobs'), m < k
        PROVE  jobs'[m].last < jobs'[k].first
    <3>1. m \in 1 .. Len(jobs) /\ (k \in 1 .. Len(jobs) \/ k = Len(jobs) + 1)
      BY <2>1, <2>4
    <3>2. CASE k \in 1 .. Len(jobs)
      BY <1>8, <2>1, <2>4, <3>1, <3>2 DEF JobsApart
    <3>3. CASE k = Len(jobs) + 1
      <4>1. jobs'[m].last \in Nat /\ jobs'[m].last <= last /\ jobs'[k].first = last + 1
        BY <1>4, <1>18, <2>1, <3>1, <3>3
      <4>2. QED
        BY <1>3, <4>1
    <3>4. QED
      BY <3>1, <3>2, <3>3
  <2>5. JobsUntaken(jobs', D \cup {i}, Y) /\ JobsApart(jobs')
    BY <2>3, <2>4 DEF JobsUntaken, JobsApart
  <2>6. QED
    BY <1>6, <1>16, <1>17, <2>5 DEF OnceInv, L, Y
<1>21. QED
  BY <1>19, <1>20

\* The next trade, or one delivered again.
LEMMA ReadsOnce ==
    ASSUME OnceInv, AccountInv', Read \/ ReadOld
    PROVE  OnceInv'
<1>1. last \in Nat /\ sent \in Nat
  BY TradeConstants DEF OnceInv, AccountInv, ProgressInv, TypedInv
<1>2. CASE Read
  <2>1. todo = <<>> /\ up' /\ ProcessMessage(sent + 1) /\ UNCHANGED <<chan, logged, again>>
    BY <1>2 DEF Read, Idle, tp
  <2>2. sent + 1 \in Nat /\ sent + 1 >= 1
    BY <1>1
  <2>3. QED
    BY <2>1, <2>2, MessageOnce
<1>3. CASE ReadOld
  <2>1. PICK i \in 1 .. last : ProcessMessage(i) /\ again' = again \cup {i}
    BY <1>3 DEF ReadOld
  <2>2. todo = <<>> /\ up' /\ UNCHANGED <<chan, logged>>
    BY <1>3 DEF ReadOld, Idle, tp
  <2>3. i \in Nat /\ i >= 1
    BY <1>1
  <2>4. QED
    BY <2>1, <2>2, <2>3, MessageOnce
<1>4. QED
  BY <1>2, <1>3

\* A handler starts and takes up the open gaps.
LEMMA StartOnce ==
    ASSUME OnceInv, AccountInv', Start
    PROVE  OnceInv'
<1> DEFINE L == LoggedIds(logged)
           S == {Job(g) : g \in OpenGaps}
<1>1. /\ AccountInv /\ TypedInv /\ ~up /\ Resumable /\ LogOnce(logged, again)
      /\ LineFresh(L, chan, todo, again)
  BY DEF OnceInv, AccountInv, ProgressInv, Start
<1>2. /\ Nothing /\ TpTyped(TpNow, sent) /\ sent \in Nat /\ jobs' \in ByFirstId(S) /\ up'
      /\ UNCHANGED <<todo, chan, logged, again>>
  BY <1>1, TradeConstants DEF Start, TypedInv, tp, ghosts
<1>3. OnTheWay = L
  BY <1>2, OnlyTheLog
<1>4. OnTheWay' = L
  BY <1>2, <1>3 DEF Delivered, OnTheWay
<1>5. DOMAIN jobs' = 1 .. Len(jobs')
  BY DEF AccountInv, ProgressInv, TypedInv
<1>6. /\ \A k \in 1 .. Len(jobs') : jobs'[k] \in S
      /\ \A j, k \in 1 .. Len(jobs') : j < k => jobs'[j].first < jobs'[k].first
  <2>1. jobs' \in [1 .. Cardinality(S) -> S]
        /\ \A j, k \in DOMAIN jobs' : j < k => jobs'[j].first < jobs'[k].first
    BY <1>2 DEF ByFirstId
  <2> HIDE DEF S
  <2>2. QED
    BY <1>5, <2>1
<1>7. ASSUME NEW j \in S
      PROVE  /\ Untaken(j, L, again) /\ j.first \in Nat /\ j.last \in Nat /\ j.first <= j.last
             /\ \E g \in OpenGaps : j.first = g.first /\ j.last = g.last
  <2>1. PICK g \in OpenGaps : j = Job(g)
    OBVIOUS
  <2>2. j.first = g.first /\ j.last = g.last /\ j.through = g.through
    BY <2>1 DEF Job
  <2>3. Untaken(g, L, again)
    BY <1>1 DEF Resumable
  <2>4. g.first \in Nat /\ g.last \in Nat /\ g.first <= g.last
    BY <1>2, GapFields DEF OpenGaps, TpTyped, TpNow
  <2> HIDE DEF L
  <2>5. QED
    BY <2>2, <2>3, <2>4 DEF Untaken, NextNeeded
<1>8. Apart(OpenGaps)
  BY <1>1 DEF Resumable
<1> HIDE DEF L, S
<1>9. JobsUntaken(jobs', L, again)
  BY <1>6, <1>7 DEF JobsUntaken
<1>10. ASSUME NEW j \in 1 .. Len(jobs'), NEW k \in 1 .. Len(jobs'), j < k
       PROVE  jobs'[j].last < jobs'[k].first
  <2> DEFINE a == jobs'[j]
             b == jobs'[k]
  <2>1. a \in S /\ b \in S /\ a.first < b.first
    BY <1>6, <1>10
  <2>2. PICK g \in OpenGaps : a.first = g.first /\ a.last = g.last
    BY <1>7, <2>1
  <2>3. PICK h \in OpenGaps : b.first = h.first /\ b.last = h.last
    BY <1>7, <2>1
  <2>4. /\ a.first \in Nat /\ a.last \in Nat /\ a.first <= a.last
        /\ b.first \in Nat /\ b.last \in Nat /\ b.first <= b.last
    BY <1>7, <2>1
  <2>5. g.first = h.first \/ g.last < h.first \/ h.last < g.first
    BY <1>8 DEF Apart
  <2> HIDE DEF a, b
  <2>6. a.last < b.first
    BY <2>1, <2>2, <2>3, <2>4, <2>5
  <2>7. QED
    BY <2>6 DEF a, b
<1>11. JobsApart(jobs')
  BY <1>10 DEF JobsApart
<1>12. LogOnce(logged', again') /\ LineFresh(LoggedIds(logged'), chan', todo', again')
  BY <1>1, <1>2 DEF L
<1>13. QED
  BY <1>2, <1>4, <1>9, <1>11, <1>12 DEF OnceInv

\* A handler ends: what it leaves must be fit to be taken up.
LEMMA KilledOnce ==
    ASSUME OnceInv, AccountInv', Killed, Resumable'
    PROVE  OnceInv'
<1>1. PICK n \in 0 .. Len(chan) : logged' = LogRows(SubSeq(chan, 1, n)).logged
  BY DEF Killed
<1>2. chan' = <<>> /\ jobs' = <<>> /\ todo' = <<>> /\ again' = again
  BY DEF Killed, ghosts
<1>3. LogOnce(logged', again')
  BY <1>1, <1>2, PrefixOnce
<1>4. Len(chan') = 0 /\ Len(jobs') = 0 /\ Len(todo') = 0
  BY <1>2
<1>5. LineFresh(LoggedIds(logged'), chan', todo', again')
  BY <1>4 DEF LineFresh, ChanFresh, ListFresh
<1>6. JobsUntaken(jobs', OnTheWay', again') /\ JobsApart(jobs')
  BY <1>4 DEF JobsUntaken, JobsApart
<1>7. QED
  BY <1>3, <1>5, <1>6 DEF OnceInv

\* Nothing is logged at first.
LEMMA OnceInit ==
    ASSUME Init
    PROVE  OnceInv
<1>1. AccountInv
  BY AccountInit
<1>2. Len(chan) = 0 /\ Len(jobs) = 0 /\ Len(todo) = 0 /\ gaps = {} /\ \A i \in Ids : logged[i] = 0
  BY DEF Init
<1>3. LogOnce(logged, again)
  BY <1>2 DEF LogOnce
<1>4. LineFresh(LoggedIds(logged), chan, todo, again)
  BY <1>2 DEF LineFresh, ChanFresh, ListFresh
<1>5. JobsUntaken(jobs, OnTheWay, again) /\ JobsApart(jobs)
  BY <1>2 DEF JobsUntaken, JobsApart
<1>6. Resumable
  BY <1>2 DEF Resumable, OpenGaps, Apart
<1>7. QED
  BY <1>1, <1>3, <1>4, <1>5, <1>6 DEF OnceInv

\* Every step keeps it, when what a handler that ends leaves is fit to be taken up.
LEMMA OnceNext ==
    ASSUME OnceInv, KillAnywhere = FALSE, [Next]_vars, Killed => Resumable'
    PROVE  OnceInv'
<1>1. AccountInv'
  BY AccountNext DEF OnceInv
<1>2. CASE UNCHANGED vars
  <2>1. UNCHANGED <<up, jobs, todo, chan, logged, gaps, again>>
    BY <1>2 DEF vars, handler, tp, ghosts
  <2>2. QED
    BY <1>1, <2>1, OnceSame
<1>3. ASSUME NEW granted \in BOOLEAN, PumpBackfill(granted)
      PROVE  OnceInv'
  BY <1>1, <1>3, PumpOnce
<1>4. CASE Killed
  BY <1>1, <1>4, KilledOnce
<1>5. QED
  BY <1>1, <1>2, <1>3, <1>4, TpLogsOnce, StartOnce, QuietOnce, ReadsOnce, PublishRowOnce,
     RecordGapOnce, FlushesOnce
     DEF Next

-----------------------------------------------------------------------------
(***************************************************************************)
(* Ready.  As long as no connection breaks, an event of a gap is           *)
(* acknowledged or rejected before anything else is done, so what a        *)
(* handler leaves when it ends is fit to be taken up: of an open gap the   *)
(* log has what TP says and no more, no live row is inside one, and no two *)
(* of them overlap.                                                        *)
(***************************************************************************)

Open(G) == {g \in G : g.status \in OpenStatuses}

\* The gaps that are or may become open in TP.
Work == OpenGaps \cup Open(Held) \cup Range(jobs)

AllUntaken(G, A, X) == \A g \in G : Untaken(g, A, X)

\* The row c is a gap's, or is in no gap of G.
OutOf(c, G, X) == c.back \/ c.id \in X \/ \A g \in G : ~ Covers(g, c.id)

\* The rows published and to be published.
Rows(q, td) == Range(q) \cup {c \in Range(td) : c.do = "row"}

AllOut(S, G, X) == \A c \in S : OutOf(c, G, X)

\* An event is sent at once, and a connection is closed only before the first row.
Attended == events # <<>> => todo # <<>> /\ todo[1].do = "flush"

Connected == conn # "up" => Mine = {} /\ (last = 0 \/ (todo # <<>> /\ todo[1].do = "row"))

ReadyInv ==
    /\ left["break"] = 0 /\ conn # "broken"
    /\ AllUntaken(OpenGaps, LoggedIds(logged), again)
    /\ AllUntaken(Open(Held), OnTheWay, again)
    /\ AllOut(Rows(chan, todo), Work, again)
    /\ Apart(Work)
    /\ last > 0 => \A g \in Work : g.last <= last
    /\ Attended
    /\ Connected

\* Fewer gaps and fewer rows.
LEMMA OutFewer ==
    ASSUME NEW V, NEW W, SpansIn(V, W), NEW S, NEW R, R \subseteq S, NEW X, NEW Y, X \subseteq Y
    PROVE  /\ AllOut(S, W, X) => AllOut(R, V, Y)
           /\ Apart(W) => Apart(V)
           /\ \A m : (\A g \in W : g.last <= m) => (\A g \in V : g.last <= m)
<1>1. ASSUME AllOut(S, W, X)
      PROVE  AllOut(R, V, Y)
  <2>1. ASSUME NEW c \in R
        PROVE  OutOf(c, V, Y)
    <3>1. OutOf(c, W, X)
      BY <1>1 DEF AllOut
    <3>2. QED
      BY <3>1 DEF OutOf, SpansIn, Covers
  <2>2. QED
    BY <2>1 DEF AllOut
<1>2. ASSUME Apart(W)
      PROVE  Apart(V)
  <2>1. ASSUME NEW g \in V, NEW h \in V
        PROVE  g.first = h.first \/ g.last < h.first \/ h.last < g.first
    <3>1. PICK a \in W : g.first = a.first /\ g.last = a.last
      BY DEF SpansIn
    <3>2. PICK b \in W : h.first = b.first /\ h.last = b.last
      BY DEF SpansIn
    <3>3. a.first = b.first \/ a.last < b.first \/ b.last < a.first
      BY <1>2 DEF Apart
    <3>4. QED
      BY <3>1, <3>2, <3>3
  <2>2. QED
    BY <2>1 DEF Apart
<1>3. \A m : (\A g \in W : g.last <= m) => (\A g \in V : g.last <= m)
  BY DEF SpansIn
<1>4. QED
  BY <1>1, <1>2, <1>3

\* What a step has to show.
LEMMA ReadyKept ==
    ASSUME ReadyInv, left'["break"] = 0, conn' # "broken", last' = last, again' = again,
           AllUntaken(OpenGaps', LoggedIds(logged'), again'),
           AllUntaken(Open(Held'), OnTheWay', again'),
           Rows(chan', todo') \subseteq Rows(chan, todo), SpansIn(Work', Work),
           Attended', Connected'
    PROVE  ReadyInv'
<1> DEFINE V == Work'
           W == Work
           S == Rows(chan, todo)
           R == Rows(chan', todo')
           X == again
<1>1. /\ SpansIn(V, W) /\ R \subseteq S /\ X \subseteq X /\ AllOut(S, W, X) /\ Apart(W)
      /\ last > 0 => \A g \in W : g.last <= last
  BY DEF ReadyInv
<1> HIDE DEF V, W, S, R, X
<1>2. AllOut(R, V, X) /\ Apart(V) /\ (last > 0 => \A g \in V : g.last <= last)
  BY <1>1, OutFewer
<1>3. AllOut(Rows(chan', todo'), Work', again') /\ Apart(Work') /\ (last' > 0 => \A g \in Work' : g.last <= last')
  BY <1>2 DEF R, V, X
<1>4. Open(Held)' = Open(Held')
  BY DEF Open
<1>5. QED
  BY <1>3, <1>4 DEF ReadyInv

\* A row that is logged: one of a gap moves it on, a live one is in no open gap.
LEMMA LogRowReady ==
    ASSUME NEW s \in 0 .. MaxTrades, NEW t, TpTyped(t, s), NEW c \in RowType(s), NEW X,
           AllUntaken(Open(t.gaps), LoggedIds(t.logged), X), OutOf(c, Open(t.gaps), X)
    PROVE  LET u == LogRow(t, c)
           IN  /\ SpansIn(Open(u.gaps), Open(t.gaps))
               /\ AllUntaken(Open(u.gaps), LoggedIds(u.logged), X)
<1> DEFINE u == LogRow(t, c)
           L == LoggedIds(t.logged)
           i == c.id
<1>1. c \in RowType(MaxTrades) /\ t \in TpType /\ s \in Nat /\ i \in Nat /\ t.gaps \subseteq GapType(s) /\ i >= 1
  BY TypesGrow, TradeConstants DEF TpTyped, RowType
<1>2. /\ LoggedIds(u.logged) = L \cup {i}
      /\ u.gaps = IF c.back THEN {Moved(g, i) : g \in t.gaps} ELSE t.gaps
  BY <1>1, LogRowEffect
<1> HIDE DEF u, L, i
<1>3. ASSUME NEW h \in Open(u.gaps)
      PROVE  /\ \E g \in Open(t.gaps) : h.first = g.first /\ h.last = g.last
             /\ Untaken(h, L \cup {i}, X)
  <2>1. CASE c.back
    <3>1. PICK g \in t.gaps : h = Moved(g, i)
      BY <1>2, <2>1 DEF Open
    <3>2. /\ h.first = g.first /\ h.last = g.last /\ h.status = g.status
          /\ h.through = IF Covers(g, i) /\ i > g.through THEN i ELSE g.through
      BY <1>1, <3>1, MovedGap
    <3>3. g \in Open(t.gaps)
      BY <3>2 DEF Open
    <3>4. g.first \in Nat /\ g.last \in Nat /\ g.through \in Nat /\ (g.through > 0 => g.first <= g.through)
      BY <1>1, GapFields
    <3>5. Untaken(g, L, X)
      BY <3>3 DEF AllUntaken, L
    <3>6. ASSUME NEW k \in NextNeeded(h) .. h.last
          PROVE  Fresh(k, L \cup {i}, X)
      <4>1. CASE Covers(g, i)
        <5>1. k \in NextNeeded(g) .. g.last /\ k # i
          BY <1>1, <3>2, <3>4, <4>1 DEF NextNeeded, Covers
        <5>2. QED
          BY <3>5, <5>1 DEF Untaken, Fresh
      <4>2. CASE ~ Covers(g, i)
        <5>1. k \in NextNeeded(g) .. g.last
          BY <3>2, <4>2 DEF NextNeeded
        <5>2. k = i => FALSE
          BY <1>1, <3>4, <4>2, <5>1 DEF NextNeeded, Covers
        <5>3. QED
          BY <3>5, <5>1, <5>2 DEF Untaken, Fresh
      <4>3. QED
        BY <4>1, <4>2
    <3>7. QED
      BY <3>2, <3>3, <3>6 DEF Untaken
  <2>2. CASE ~ c.back
    <3>1. h \in Open(t.gaps) /\ h \in GapType(s)
      BY <1>1, <1>2, <2>2 DEF Open
    <3>2. Untaken(h, L, X) /\ (i \in X \/ ~ Covers(h, i))
      BY <2>2, <3>1 DEF AllUntaken, OutOf, L, i
    <3>3. h.first \in Nat /\ h.last \in Nat /\ h.through \in Nat /\ (h.through > 0 => h.first <= h.through)
      BY <1>1, <3>1, GapFields
    <3>4. ASSUME NEW k \in NextNeeded(h) .. h.last
          PROVE  Fresh(k, L \cup {i}, X)
      <4>1. Fresh(k, L, X)
        BY <3>2 DEF Untaken
      <4>2. Covers(h, k)
        BY <3>3 DEF NextNeeded, Covers
      <4>3. k = i => i \in X
        BY <3>2, <4>2
      <4>4. QED
        BY <4>1, <4>3 DEF Fresh
    <3>5. QED
      BY <3>1, <3>4 DEF Untaken
  <2>3. QED
    BY <2>1, <2>2
<1>4. SpansIn(Open(u.gaps), Open(t.gaps))
  BY <1>3 DEF SpansIn
<1>5. AllUntaken(Open(u.gaps), L \cup {i}, X)
  BY <1>3 DEF AllUntaken
<1>6. QED
  BY <1>2, <1>4, <1>5 DEF u

\* Rows are logged one after the other.
LEMMA RunReady ==
    ASSUME NEW s \in 0 .. MaxTrades, NEW t, TpTyped(t, s), NEW q \in Seq(RowType(s)),
           NEW r, LogRun(r, t, q), NEW X, AllUntaken(Open(t.gaps), LoggedIds(t.logged), X),
           AllOut(Range(q), Open(t.gaps), X)
    PROVE  \A n \in 0 .. Len(q) : /\ SpansIn(Open(r[n].gaps), Open(t.gaps))
                                  /\ AllUntaken(Open(r[n].gaps), LoggedIds(r[n].logged), X)
<1>0. \A n \in 0 .. Len(q) :
        TpTyped(r[n], s) /\ LoggedIds(r[n].logged) = LoggedIds(t.logged) \cup ChanIds(q, 0, n)
  BY RunTyped
<1> DEFINE Q(n) == /\ SpansIn(Open(r[n].gaps), Open(t.gaps))
                   /\ AllUntaken(Open(r[n].gaps), LoggedIds(r[n].logged), X)
           P == {n \in Nat : n <= Len(q) => Q(n)}
<1>1. 0 \in P
  <2>1. r[0] = t
    BY DEF LogRun
  <2>2. SpansIn(Open(t.gaps), Open(t.gaps))
    BY DEF SpansIn
  <2>3. QED
    BY <2>1, <2>2
<1>2. ASSUME NEW n \in Nat, n \in P
      PROVE  n + 1 \in P
  <2>1. SUFFICES ASSUME n + 1 <= Len(q)
                 PROVE  Q(n + 1)
    OBVIOUS
  <2>2. Q(n) /\ n + 1 \in 1 .. Len(q) /\ n \in 0 .. Len(q) /\ (n + 1) - 1 = n
    BY <1>2, <2>1
  <2> DEFINE u == r[n]
             c == q[n + 1]
             v == r[n + 1]
  <2>3. v = LogRow(u, c)
    BY <2>2 DEF LogRun
  <2>4. c \in RowType(s) /\ c \in Range(q)
    BY <2>2 DEF Range
  <2>5. TpTyped(u, s)
    BY <1>0, <2>2
  <2>6. SpansIn(Open(u.gaps), Open(t.gaps)) /\ AllUntaken(Open(u.gaps), LoggedIds(u.logged), X)
    BY <2>2
  <2> HIDE DEF u, c, v, Q, P
  <2>7. OutOf(c, Open(u.gaps), X)
    <3>1. OutOf(c, Open(t.gaps), X)
      BY <2>4 DEF AllOut
    <3>2. QED
      BY <2>6, <3>1 DEF OutOf, SpansIn, Covers
  <2>8. /\ SpansIn(Open(v.gaps), Open(u.gaps))
        /\ AllUntaken(Open(v.gaps), LoggedIds(v.logged), X)
    BY <2>3, <2>4, <2>5, <2>6, <2>7, LogRowReady
  <2>9. SpansIn(Open(v.gaps), Open(t.gaps))
    BY <2>6, <2>8 DEF SpansIn
  <2>10. QED
    BY <2>8, <2>9 DEF Q, v
<1> HIDE DEF Q
<1>3. Nat \subseteq P
  <2> HIDE DEF P
  <2>1. QED
    BY <1>1, <1>2, SetInduction
<1>4. ASSUME NEW n \in 0 .. Len(q)
      PROVE  Q(n)
  BY <1>3
<1>5. QED
  BY <1>4 DEF Q

\* Any number of rows from the channel.
LEMMA PrefixReady ==
    ASSUME TypedInv, ReadyInv, NEW n \in 0 .. Len(chan)
    PROVE  LET t == LogRows(SubSeq(chan, 1, n))
           IN  /\ SpansIn(Open(t.gaps), OpenGaps)
               /\ AllUntaken(Open(t.gaps), LoggedIds(t.logged), again)
<1> DEFINE q == SubSeq(chan, 1, n)
           t == LogRows(q)
<1>1. /\ q \in Seq(RowType(sent)) /\ Len(q) = n /\ (\A i \in 1 .. n : q[i] = chan[i])
      /\ sent \in 0 .. MaxTrades /\ TpTyped(TpNow, sent) /\ Len(chan) \in Nat
      /\ DOMAIN chan = 1 .. Len(chan)
  BY PrefixSeq DEF TypedInv
<1>2. TpNow.logged = logged /\ TpNow.gaps = gaps
  BY DEF TpNow
<1>3. Open(gaps) = OpenGaps
  BY DEF Open, OpenGaps
<1> HIDE DEF q
<1>4. Range(q) \subseteq Range(chan)
  <2>1. DOMAIN q = 1 .. n /\ 1 .. n \subseteq 1 .. Len(chan)
    BY <1>1
  <2>2. QED
    BY <1>1, <2>1 DEF Range
<1>5. AllOut(Range(q), OpenGaps, again)
  <2>1. AllOut(Rows(chan, todo), Work, again)
    BY DEF ReadyInv
  <2>2. Range(q) \subseteq Rows(chan, todo)
    BY <1>4 DEF Rows
  <2>3. SpansIn(OpenGaps, Work) /\ again \subseteq again
    BY DEF Work, SpansIn
  <2>4. QED
    BY <2>1, <2>2, <2>3, OutFewer
<1>6. PICK r : LogRun(r, TpNow, q) /\ LogRows(q) = r[Len(q)]
  BY <1>1, LogRowsRun
<1>7. Len(q) \in 0 .. Len(q)
  BY <1>1
<1>8. AllUntaken(Open(TpNow.gaps), LoggedIds(TpNow.logged), again) /\ AllOut(Range(q), Open(TpNow.gaps), again)
  BY <1>2, <1>3, <1>5 DEF ReadyInv
<1> DEFINE u == TpNow
<1>9. u.gaps = gaps
  BY <1>2
<1> HIDE DEF u
<1>10. \A k \in 0 .. Len(q) : /\ SpansIn(Open(r[k].gaps), Open(u.gaps))
                              /\ AllUntaken(Open(r[k].gaps), LoggedIds(r[k].logged), again)
  BY <1>1, <1>6, <1>8, RunReady DEF u
<1>11. QED
  BY <1>3, <1>6, <1>7, <1>9, <1>10 DEF q

-----------------------------------------------------------------------------
(* Ready: one lemma per action *)

\* The gaps at work come from gaps at work.
LEMMA WorkFewer ==
    ASSUME SpansIn(OpenGaps', Work), SpansIn(Open(Held'), Work), SpansIn(Range(jobs'), Work)
    PROVE  SpansIn(Work', Work)
<1> DEFINE W == Work
           V == Work'
<1>1. V = OpenGaps' \cup Open(Held') \cup Range(jobs')
  BY DEF Work, Open
<1>2. SpansIn(OpenGaps', W) /\ SpansIn(Open(Held'), W) /\ SpansIn(Range(jobs'), W)
  OBVIOUS
<1> HIDE DEF W, V
<1>3. SpansIn(V, W)
  BY <1>1, <1>2 DEF SpansIn
<1>4. QED
  BY <1>3 DEF W, V

\* Gaps among those at work.
LEMMA AtWork ==
    /\ \A G : SpansIn(G, OpenGaps) => SpansIn(G, Work)
    /\ \A G : SpansIn(G, Range(jobs)) => SpansIn(G, Work)
    /\ \A G : G \subseteq Held => SpansIn(Open(G), Work)
    /\ SpansIn(OpenGaps, Work) /\ SpansIn(Range(jobs), Work) /\ SpansIn(Open(Held), Work)
<1>1. OpenGaps \subseteq Work /\ Open(Held) \subseteq Work /\ Range(jobs) \subseteq Work
  BY DEF Work
<1>2. \A G : G \subseteq Held => Open(G) \subseteq Open(Held)
  BY DEF Open
<1>3. QED
  BY <1>1, <1>2 DEF SpansIn

\* Fewer ids on the way, and fewer gaps.
LEMMA HeldUntaken ==
    ASSUME ReadyInv, again \subseteq again', Held' \subseteq Held, OnTheWay' \subseteq OnTheWay
    PROVE  AllUntaken(Open(Held'), OnTheWay', again')
<1> DEFINE A == OnTheWay
           B == OnTheWay'
           X == again
           Y == again'
<1>1. AllUntaken(Open(Held), A, X) /\ B \subseteq A /\ X \subseteq Y
  BY DEF ReadyInv
<1>2. Open(Held') \subseteq Open(Held)
  BY DEF Open
<1> HIDE DEF A, B, X, Y
<1>3. AllUntaken(Open(Held'), B, Y)
  BY <1>1, <1>2, FreshLess DEF AllUntaken
<1>4. QED
  BY <1>3 DEF B, Y

\* TP logs the first row of the channel.
LEMMA TpLogsReady ==
    ASSUME OnceInv, ReadyInv, AccountInv', TpLogs
    PROVE  ReadyInv'
<1> DEFINE c == chan[1]
           t == LogRow(TpNow, c)
<1>1. chan \in Seq(RowType(sent)) /\ sent \in 0 .. MaxTrades /\ TpTyped(TpNow, sent)
  BY DEF OnceInv, AccountInv, ProgressInv, TypedInv
<1>2. /\ chan # <<>> /\ chan' = Tail(chan) /\ UNCHANGED <<conn, last, jobs, events, todo, again, left>>
      /\ logged' = LogRows(<<Head(chan)>>).logged /\ gaps' = LogRows(<<Head(chan)>>).gaps
  BY DEF TpLogs, handler, ghosts
<1>3. c \in RowType(sent) /\ Head(chan) = c /\ Range(chan) = {c} \cup Range(chan')
  BY <1>1, <1>2, TailSeq, TailRange
<1>4. logged' = t.logged /\ gaps' = t.gaps
  BY <1>1, <1>2, <1>3, LogOne
<1>5. TpNow.logged = logged /\ TpNow.gaps = gaps /\ Open(gaps) = OpenGaps /\ Open(gaps') = OpenGaps'
  BY DEF TpNow, Open, OpenGaps
<1>6. OutOf(c, OpenGaps, again)
  <2>1. AllOut(Rows(chan, todo), Work, again) /\ c \in Rows(chan, todo)
    BY <1>3 DEF ReadyInv, Rows
  <2>2. OutOf(c, Work, again) /\ OpenGaps \subseteq Work
    BY <2>1 DEF AllOut, Work
  <2>3. QED
    BY <2>2 DEF OutOf
<1>7. SpansIn(OpenGaps', OpenGaps) /\ AllUntaken(OpenGaps', LoggedIds(logged'), again)
  <2> DEFINE u == TpNow
  <2>1. /\ AllUntaken(Open(u.gaps), LoggedIds(u.logged), again) /\ OutOf(c, Open(u.gaps), again)
        /\ TpTyped(u, sent)
    BY <1>1, <1>5, <1>6 DEF ReadyInv
  <2> HIDE DEF c
  <2>2. /\ SpansIn(Open(t.gaps), Open(u.gaps))
        /\ AllUntaken(Open(t.gaps), LoggedIds(t.logged), again)
    <3> HIDE DEF u
    <3>1. LET v == LogRow(u, c)
          IN  /\ SpansIn(Open(v.gaps), Open(u.gaps))
              /\ AllUntaken(Open(v.gaps), LoggedIds(v.logged), again)
      BY <1>1, <1>3, <2>1, LogRowReady
    <3>2. QED
      BY <3>1 DEF u
  <2> HIDE DEF t
  <2>3. QED
    BY <1>4, <1>5, <2>2
<1>8. OnTheWay' \subseteq OnTheWay
  BY TpLogsOnce
<1>9. Held' = Held /\ Mine' = Mine
  BY <1>2 DEF Held, Mine
<1>10. SpansIn(Work', Work)
  BY <1>2, <1>7, <1>9, AtWork, WorkFewer
<1>11. AllUntaken(Open(Held'), OnTheWay', again')
  BY <1>2, <1>8, <1>9, HeldUntaken
<1>12. Rows(chan', todo') \subseteq Rows(chan, todo)
  BY <1>2, <1>3 DEF Rows
<1>13. Attended' /\ Connected' /\ left'["break"] = 0 /\ conn' # "broken"
  BY <1>2, <1>9 DEF ReadyInv, Attended, Connected
<1> HIDE DEF c, t
<1>14. QED
  BY <1>2, <1>7, <1>10, <1>11, <1>12, <1>13, ReadyKept

\* What follows the first command was there before.
LEMMA RestRange ==
    ASSUME NEW T, todo \in Seq(T), todo # <<>>, NEW evs
    PROVE  Range(Rest(evs)) \subseteq Range(todo) /\ Range(Tail(todo)) \subseteq Range(todo)
<1> DEFINE w == Tail(todo)
<1>1. w \in Seq(T) /\ Range(w) \subseteq Range(todo)
  BY TailSeq, TailRange
<1> HIDE DEF w
<1>2. w # <<>> => Range(Tail(w)) \subseteq Range(w)
  BY <1>1, TailRange
<1>3. Rest(evs) = w \/ (w # <<>> /\ Rest(evs) = Tail(w))
  BY DEF Rest, w
<1>4. QED
  BY <1>1, <1>2, <1>3 DEF w

\* The next row is published: nothing waits, and the connection is up.
LEMMA PublishRowReady ==
    ASSUME OnceInv, ReadyInv, AccountInv', PublishRow
    PROVE  ReadyInv'
<1> DEFINE c == todo[1]
<1>1. /\ todo \in Seq(CommandType(sent)) /\ chan \in Seq(RowType(sent)) /\ chan' \in Seq(RowType(sent'))
      /\ ListGood(todo, Delivered, AllGaps)
  BY DEF OnceInv, AccountInv, ProgressInv, TypedInv
<1>2. /\ todo # <<>> /\ c.do = "row" /\ Head(todo) = c
      /\ chan' = IF c.id = 0 THEN chan ELSE Append(chan, c)
      /\ todo' = Rest(events) /\ UNCHANGED <<sent, last, jobs, events, logged, gaps, again, left>>
      /\ conn' \in IF conn = "broken" THEN {"broken", "up"} ELSE {"up"}
  BY <1>1, TailSeq DEF PublishRow, tp, ghosts
<1>3. events = <<>>
  <2>1. todo[1].do # "flush"
    BY <1>2
  <2>2. QED
    BY <2>1 DEF ReadyInv, Attended
<1>4. conn' = "up" /\ left'["break"] = 0
  BY <1>2 DEF ReadyInv
<1>5. conn' # "broken" /\ Attended' /\ Connected'
  BY <1>2, <1>3, <1>4 DEF Attended, Connected
<1>6. EventsOf(todo') = EventsOf(todo)
  <2>1. EventsOf(todo) = EventsOf(Rest(events)) \cup (IF todo[1].do = "event" THEN {todo[1].event} ELSE {})
    BY <1>1, <1>2, RestGood
  <2>2. todo[1].do # "event"
    BY <1>2
  <2>3. QED
    BY <1>2, <2>1, <2>2
<1>7. Held' = Held
  <2>1. Held' = Range(events') \cup EventsOf(todo')
    BY DEF Held, EventsOf
  <2>2. QED
    BY <1>2, <1>6, <2>1, NewsAre
<1>8. OnTheWay' \subseteq OnTheWay
  BY PublishRowOnce
<1>9. AllUntaken(Open(Held'), OnTheWay', again')
  BY <1>2, <1>7, <1>8, HeldUntaken
<1>10. OpenGaps' = OpenGaps /\ AllUntaken(OpenGaps', LoggedIds(logged'), again')
  BY <1>2 DEF ReadyInv, OpenGaps
<1>11. SpansIn(Work', Work)
  BY <1>2, <1>7, <1>10, AtWork, WorkFewer
<1>12. Range(chan') \subseteq Range(chan) \cup {c}
  <2>1. CASE c.id = 0
    BY <1>2, <2>1
  <2>2. CASE c.id # 0
    <3> DEFINE T == RowType(sent) \cup {c}
               q == chan
    <3>1. chan' = Append(q, c) /\ c \in T /\ q \in Seq(T)
      <4>1. Seq(RowType(sent)) \subseteq Seq(T)
        BY SeqGrows
      <4>2. QED
        BY <1>1, <1>2, <2>2, <4>1
    <3> HIDE DEF T, c, q
    <3>2. Range(Append(q, c)) = Range(q) \cup {c}
      BY <3>1, AppendRange
    <3>3. QED
      BY <3>1, <3>2 DEF q
  <2>3. QED
    BY <2>1, <2>2
<1>13. Rows(chan', todo') \subseteq Rows(chan, todo)
  <2>1. Range(todo') \subseteq Range(todo) /\ c \in Range(todo)
    BY <1>1, <1>2, RestRange, TailRange
  <2> HIDE DEF c
  <2>2. QED
    BY <1>2, <1>12, <2>1 DEF Rows
<1> HIDE DEF c
<1>14. QED
  BY <1>2, <1>4, <1>5, <1>9, <1>10, <1>11, <1>13, ReadyKept

\* A fault of one kind leaves the other kinds to come.
LEMMA FaultLeaves ==
    ASSUME left \in [FaultKinds -> Nat], NEW kind \in FaultKinds \ {"any"},
           NEW other \in FaultKinds \ {"any"}, kind # other, Fault(kind)
    PROVE  left'[other] = left[other]
<1> DEFINE f == [left EXCEPT ![kind] = @ - 1]
<1>1. f[other] = left[other] /\ other \in DOMAIN f
  OBVIOUS
<1>2. left' = [f EXCEPT !["any"] = @ - 1]
  BY DEF Fault
<1> HIDE DEF f
<1>3. QED
  BY <1>1, <1>2

\* No connection breaks.
LEMMA NoBreak ==
    ASSUME TypedInv, ReadyInv
    PROVE  /\ ~ Fault("break")
           /\ \A kind \in {"message", "old", "reject", "blind", "kill"} :
                    Fault(kind) => left'["break"] = 0
<1>1. left \in [FaultKinds -> Nat] /\ left["break"] = 0
  BY DEF TypedInv, ReadyInv
<1>2. ~ Fault("break")
  BY <1>1 DEF Fault
<1>3. "break" \in FaultKinds \ {"any"} /\ \A kind \in {"message", "old", "reject", "blind", "kill"} :
          kind \in FaultKinds \ {"any"} /\ kind # "break"
  BY DEF FaultKinds
<1>4. QED
  BY <1>1, <1>2, <1>3, FaultLeaves

\* A gap event is queued, and its flush comes next.
LEMMA RecordGapReady ==
    ASSUME OnceInv, ReadyInv, AccountInv', RecordGap
    PROVE  ReadyInv'
<1> DEFINE c == todo[1]
           w == Tail(todo)
<1>1. /\ todo \in Seq(CommandType(sent)) /\ sent \in 0 .. MaxTrades /\ events \in Seq(GapType(sent))
  BY DEF OnceInv, AccountInv, ProgressInv, TypedInv
<1>2. /\ todo # <<>> /\ c.do = "event" /\ Head(todo) = c
      /\ events' = Append(events, c.event) /\ todo' = <<Flush>> \o w
      /\ UNCHANGED <<conn, last, jobs, chan, logged, gaps, again, left>>
  BY <1>1, TailSeq DEF RecordGap, tp, ghosts
<1>3. c \in CommandType(sent) /\ w \in Seq(CommandType(sent)) /\ c \in Range(todo)
      /\ Range(w) \subseteq Range(todo)
  BY <1>1, <1>2, TailSeq, TailRange
<1>4. c.event \in GapType(sent)
  <2> HIDE DEF c
  <2>1. QED
    BY <1>2, <1>3 DEF CommandType, Flush, Pump
<1>5. EventsOf(todo) = EventsOf(w) \cup {c.event}
  <2>1. EventsOf(todo) = EventsOf(w) \cup (IF c.do = "event" THEN {c.event} ELSE {})
    BY <1>1, <1>2, EventsOfTail
  <2>2. QED
    BY <1>2, <2>1
<1>6. /\ todo' \in Seq(CommandType(sent)) /\ todo' # <<>> /\ todo'[1] = Flush
      /\ Tail(todo') = w
  <2> DEFINE T == CommandType(sent)
  <2>1. w \in Seq(T) /\ Flush \in T
    BY <1>3 DEF CommandType
  <2> HIDE DEF T, w
  <2>2. QED
    BY <1>2, <2>1 DEF T
<1>7. Range(todo') = {Flush} \cup Range(w)
  <2> DEFINE T == CommandType(sent)
             v == todo'
  <2>1. v \in Seq(T) /\ v # <<>> /\ v[1] = Flush /\ Tail(v) = w
    BY <1>6
  <2> HIDE DEF T, v, w
  <2>2. Range(v) = {v[1]} \cup Range(Tail(v))
    BY <2>1, TailRange
  <2>3. QED
    BY <2>1, <2>2 DEF v
<1>8. Flush.do = "flush" /\ Flush.do # "row" /\ Flush.do # "event"
  BY DEF Flush
<1>9. Range(events') = Range(events) \cup {c.event}
  <2> DEFINE T == GapType(sent)
             e == c.event
  <2>1. events \in Seq(T) /\ e \in T /\ events' = Append(events, e)
    BY <1>1, <1>2, <1>4
  <2> HIDE DEF T, e
  <2>2. Range(Append(events, e)) = Range(events) \cup {e}
    BY <2>1, AppendRange
  <2>3. QED
    BY <2>1, <2>2 DEF e
<1> HIDE DEF c, w
<1>10. EventsOf(todo') = EventsOf(w)
  BY <1>7, <1>8 DEF EventsOf
<1>11. Held' = Held /\ c.event \in Held
  <2>1. Held' = Range(events') \cup EventsOf(todo')
    BY DEF Held, EventsOf
  <2>2. QED
    BY <1>5, <1>9, <1>10, <2>1, NewsAre
<1>12. Rows(chan', todo') \subseteq Rows(chan, todo)
  BY <1>2, <1>3, <1>7, <1>8 DEF Rows
<1>13. OnTheWay' \subseteq OnTheWay
  BY RecordGapOnce
<1>14. AllUntaken(Open(Held'), OnTheWay', again')
  BY <1>2, <1>11, <1>13, HeldUntaken
<1>15. OpenGaps' = OpenGaps /\ AllUntaken(OpenGaps', LoggedIds(logged'), again')
  BY <1>2 DEF ReadyInv, OpenGaps
<1>16. SpansIn(Work', Work)
  BY <1>2, <1>11, <1>15, AtWork, WorkFewer
<1>17. conn = "up"
  <2>1. Mine # {}
    BY <1>11 DEF Mine
  <2>2. QED
    BY <2>1 DEF ReadyInv, Connected
<1>18. Attended' /\ Connected' /\ left'["break"] = 0 /\ conn' # "broken"
  BY <1>2, <1>6, <1>8, <1>17 DEF ReadyInv, Attended, Connected
<1>19. QED
  BY <1>2, <1>12, <1>14, <1>15, <1>16, <1>18, ReadyKept

\* A flush: the connection is up, and TP answers.
LEMMA FlushesReady ==
    ASSUME OnceInv, ReadyInv, AccountInv', EventAcked \/ EventUnacked \/ EventRejected
    PROVE  ReadyInv'
<1> DEFINE t == LogRows(chan)
           e == Head(events)
<1>1. AccountInv /\ ProgressInv /\ TypedInv
  BY DEF OnceInv, AccountInv, ProgressInv
<1>2. Flushing /\ events # <<>> /\ todo # <<>> /\ todo \in Seq(CommandType(sent))
      /\ events \in Seq(GapType(sent)) /\ chan \in Seq(RowType(sent))
  BY <1>1 DEF EventAcked, EventUnacked, EventRejected, Flushing, TypedInv
<1>3. e \in Range(events) /\ e \in Held
  BY <1>2, TailSeq, TailRange, NewsAre
<1>4. conn = "up"
  <2>1. Mine # {}
    BY <1>3 DEF Mine
  <2>2. QED
    BY <2>1 DEF ReadyInv, Connected
<1>5. ~ EventUnacked
  BY <1>1, <1>4, NoBreak DEF EventUnacked
<1>6. /\ Sent /\ UNCHANGED <<conn, last, jobs, again>> /\ left'["break"] = 0
      /\ logged' = t.logged /\ gaps' \in {t.gaps, NoteGap(t.gaps, e)} /\ chan' = <<>>
  <2>1. CASE EventAcked
    BY <2>1 DEF EventAcked, TpEvent, ghosts, ReadyInv
  <2>2. CASE EventRejected
    <3>1. left'["break"] = 0
      BY <1>1, <2>2, NoBreak DEF EventRejected
    <3>2. QED
      BY <2>2, <3>1 DEF EventRejected
  <2>3. QED
    BY <1>5, <2>1, <2>2
<1>7. GoesOn /\ Answered(e)
  BY <1>6 DEF GoesOn, Answered
<1>8. OnTheWay' \subseteq OnTheWay
  BY FlushesOnce
<1>9. LoggedIds(logged') \subseteq OnTheWay
  BY <1>8 DEF OnTheWay, Delivered
<1>10. SpansIn(Open(t.gaps), OpenGaps) /\ AllUntaken(Open(t.gaps), LoggedIds(t.logged), again)
  <2>1. Len(chan) \in 0 .. Len(chan) /\ SubSeq(chan, 1, Len(chan)) = chan
    <3> DEFINE T == RowType(sent)
    <3>1. chan \in Seq(T)
      BY <1>2
    <3> HIDE DEF T
    <3>2. QED
      BY <3>1
  <2>2. LET u == LogRows(SubSeq(chan, 1, Len(chan)))
        IN  /\ SpansIn(Open(u.gaps), OpenGaps)
            /\ AllUntaken(Open(u.gaps), LoggedIds(u.logged), again)
    BY <1>1, <2>1, PrefixReady
  <2>3. QED
    BY <2>1, <2>2
<1> HIDE DEF t, e
<1>11. OpenGaps' \subseteq Open(t.gaps) \cup Open({e})
  BY <1>6 DEF OpenGaps, Open, NoteGap
<1>12. AllUntaken(OpenGaps', LoggedIds(logged'), again)
  <2> DEFINE M == LoggedIds(logged')
             A == OnTheWay
             X == again
  <2>1. M \subseteq A /\ AllUntaken(Open(t.gaps), M, X) /\ AllUntaken(Open(Held), A, X)
    BY <1>6, <1>9, <1>10 DEF ReadyInv
  <2>2. Open({e}) \subseteq Open(Held) /\ X \subseteq X
    BY <1>3 DEF Open
  <2> HIDE DEF M, A, X
  <2>3. AllUntaken(Open({e}), M, X)
    BY <2>1, <2>2, FreshLess DEF AllUntaken
  <2>4. AllUntaken(OpenGaps', M, X)
    BY <1>11, <2>1, <2>3 DEF AllUntaken
  <2>5. QED
    BY <2>4 DEF M, X
<1>13. EventsOf(todo') = EventsOf(todo) /\ Range(events') \subseteq Range(events)
  BY <1>1, <1>2, <1>7, GoesOnGood
<1>14. Held' \subseteq Held
  <2>1. Held' = Range(events') \cup EventsOf(todo')
    BY DEF Held, EventsOf
  <2>2. QED
    BY <1>13, <2>1, NewsAre
<1>15. SpansIn(Work', Work)
  <2>1. SpansIn(Open(t.gaps), Work) /\ SpansIn(Open({e}), Work)
    <3>1. {e} \subseteq Held
      BY <1>3
    <3>2. QED
      BY <1>10, <3>1, AtWork
  <2>2. SpansIn(OpenGaps', Work)
    BY <1>11, <2>1 DEF SpansIn
  <2>3. SpansIn(Open(Held'), Work) /\ SpansIn(Range(jobs'), Work)
    BY <1>6, <1>14, AtWork
  <2>4. QED
    BY <2>2, <2>3, WorkFewer
<1>16. AllUntaken(Open(Held'), OnTheWay', again')
  BY <1>6, <1>8, <1>14, HeldUntaken
<1>17. Rows(chan', todo') \subseteq Rows(chan, todo)
  <2>1. Range(todo') \subseteq Range(todo)
    BY <1>2, <1>6, RestRange DEF Sent
  <2>2. Range(chan') = {}
    BY <1>6, EmptyLists
  <2>3. QED
    BY <2>1, <2>2 DEF Rows
<1>18. Attended'
  <2>1. CASE Len(events) = 1
    <3>1. events' = <<>>
      <4> DEFINE T == GapType(sent)
                 q == events
      <4>1. q \in Seq(T) /\ Len(q) = 1 /\ events' = Tail(q)
        BY <1>2, <1>6, <2>1 DEF Sent
      <4> HIDE DEF T, q
      <4>2. QED
        BY <4>1
    <3>2. QED
      BY <3>1 DEF Attended
  <2>2. CASE Len(events) # 1
    <3>1. todo' = todo
      BY <1>6, <2>2 DEF Sent
    <3>2. QED
      BY <1>2, <3>1 DEF ReadyInv, Attended
  <2>3. QED
    BY <2>1, <2>2
<1>19. Connected' /\ conn' # "broken"
  BY <1>4, <1>6 DEF Connected
<1>20. QED
  BY <1>6, <1>12, <1>15, <1>16, <1>17, <1>18, <1>19, ReadyKept

\* A step that changes nothing of it but the connection, which may close when the
\* handler has nothing.
LEMMA ReadySame ==
    ASSUME OnceInv, ReadyInv, left'["break"] = 0,
           UNCHANGED <<last, jobs, events, todo, chan, logged, gaps, again>>,
           conn' = conn \/ (conn' \in {"closed", "up"} /\ Mine = {} /\ last = 0)
    PROVE  ReadyInv'
<1>1. OnTheWay' = OnTheWay /\ Held' = Held /\ Mine' = Mine /\ OpenGaps' = OpenGaps
  BY DEF Delivered, OnTheWay, Held, Mine, OpenGaps
<1>2. Work' = Work
  BY <1>1 DEF Work, Open
<1>3. Open(Held)' = Open(Held)
  BY <1>1 DEF Open
<1>4. Attended' /\ Connected' /\ conn' # "broken"
  BY <1>1 DEF ReadyInv, Attended, Connected
<1>5. QED
  BY <1>1, <1>2, <1>3, <1>4 DEF ReadyInv

\* The commands of a message.
LEMMA ShortLists ==
    \A a, b : /\ Range(<<Pump>>) = {Pump} /\ Range(<<b, Flush, Pump>>) = {b, Flush, Pump}
              /\ Range(<<a, b, Flush, Pump>>) = {a, b, Flush, Pump}
<1> SUFFICES ASSUME NEW a, NEW b
             PROVE  /\ Range(<<Pump>>) = {Pump} /\ Range(<<b, Flush, Pump>>) = {b, Flush, Pump}
                    /\ Range(<<a, b, Flush, Pump>>) = {a, b, Flush, Pump}
  OBVIOUS
<1> DEFINE u == <<Pump>>
           v == <<b, Flush, Pump>>
           w == <<a, b, Flush, Pump>>
<1>1. /\ DOMAIN u = 1 .. 1 /\ u[1] = Pump
      /\ DOMAIN v = 1 .. 3 /\ v[1] = b /\ v[2] = Flush /\ v[3] = Pump
      /\ DOMAIN w = 1 .. 4 /\ w[1] = a /\ w[2] = b /\ w[3] = Flush /\ w[4] = Pump
  OBVIOUS
<1> HIDE DEF u, v, w
<1>2. Range(u) = {Pump} /\ Range(v) = {b, Flush, Pump} /\ Range(w) = {a, b, Flush, Pump}
  BY <1>1 DEF Range
<1>3. QED
  BY <1>2 DEF u, v, w

\* The next message is of another symbol or cannot be read.
LEMMA OtherReady ==
    ASSUME OnceInv, ReadyInv, todo = <<>>, left'["break"] = 0,
           UNCHANGED <<conn, last, jobs, events, chan, logged, gaps, again>>,
           todo' \in {<<Pump>>, <<Row(0, FALSE), Flush, Pump>>}
    PROVE  ReadyInv'
<1> DEFINE b == Row(0, FALSE)
<1>1. AllRowIds(todo) = {} /\ AllRowIds(todo') = {} /\ EventsOf(todo) = {} /\ EventsOf(todo') = {}
  BY EmptyLists, OtherRows
<1>2. OnTheWay' = OnTheWay
  BY <1>1 DEF Delivered, OnTheWay
<1>3. Held' = Held
  <2>1. Held' = Range(events') \cup EventsOf(todo')
    BY DEF Held, EventsOf
  <2>2. QED
    BY <1>1, <2>1, NewsAre
<1>4. OpenGaps' = OpenGaps /\ Mine' = Mine /\ Open(Held)' = Open(Held)
  BY <1>3 DEF OpenGaps, Mine, Open
<1>5. Work' = Work
  BY <1>3, <1>4 DEF Work, Open
<1>6. events = <<>> /\ (conn # "up" => Mine = {} /\ last = 0)
  BY DEF ReadyInv, Attended, Connected
<1>7. Attended' /\ Connected'
  BY <1>4, <1>6 DEF Attended, Connected
<1>8. Rows(chan', todo') \subseteq Rows(chan, todo) \cup {b}
  <2>1. Range(todo') \subseteq {b, Flush, Pump}
    BY ShortLists
  <2>2. Flush.do # "row" /\ Pump.do # "row"
    BY DEF Flush, Pump
  <2> HIDE DEF b
  <2>3. QED
    BY <2>1, <2>2 DEF Rows
<1>9. OutOf(b, Work, again)
  <2>1. Work \subseteq AllGaps
    BY DEF Work, AllGaps, OpenGaps, Open
  <2>2. NatSpans(AllGaps)
    BY AllGapsNat DEF OnceInv, AccountInv, ProgressInv
  <2>3. b.id = 0
    BY DEF Row
  <2> HIDE DEF b
  <2>4. QED
    BY <2>1, <2>2, <2>3 DEF OutOf, Covers, NatSpans
<1> HIDE DEF b
<1>10. AllOut(Rows(chan', todo'), Work', again')
  BY <1>5, <1>8, <1>9 DEF ReadyInv, AllOut
<1>11. QED
  BY <1>2, <1>4, <1>5, <1>7, <1>10 DEF ReadyInv

\* The steps that touch no rows, and the messages that are none of the symbol's.
LEMMA QuietReady ==
    ASSUME OnceInv, ReadyInv,
           StartBlind \/ ReadUnreadable \/ ReadOther \/ Missed \/ Break \/ WorkerFetches
    PROVE  ReadyInv'
<1>1. TypedInv /\ left["break"] = 0
  BY DEF OnceInv, AccountInv, ProgressInv, ReadyInv
<1>2. CASE StartBlind
  <2>1. left'["break"] = 0
    BY <1>1, <1>2, NoBreak DEF StartBlind
  <2>2. Nothing /\ last = 0
    BY <1>1, <1>2 DEF StartBlind, TypedInv, OnceInv, AccountInv
  <2>3. Mine = {}
    BY <2>2, EmptyLists, NewsAre DEF Nothing
  <2>4. QED
    BY <1>2, <2>1, <2>2, <2>3, ReadySame DEF StartBlind, handler, tp, ghosts
<1>3. CASE Missed
  <2>1. left'["break"] = 0
    BY <1>1, <1>3, NoBreak DEF Missed
  <2>2. QED
    BY <1>3, <2>1, ReadySame DEF Missed, handler, tp, ghosts
<1>4. CASE Break
  BY <1>1, <1>4, NoBreak DEF Break
<1>5. CASE WorkerFetches
  BY <1>1, <1>5, ReadySame DEF WorkerFetches, tp, ghosts
<1>6. CASE ReadUnreadable
  <2>1. left'["break"] = 0
    BY <1>1, <1>6, NoBreak DEF ReadUnreadable
  <2>2. QED
    BY <1>6, <2>1, OtherReady DEF ReadUnreadable, Idle, tp, ghosts
<1>7. CASE ReadOther
  BY <1>1, <1>7, OtherReady DEF ReadOther, Idle, tp, ghosts
<1>8. QED
  BY <1>2, <1>3, <1>4, <1>5, <1>6, <1>7

\* The pump: what it says of the gaps is up to date.
LEMMA PumpReady ==
    ASSUME OnceInv, ReadyInv, AccountInv', NEW granted \in BOOLEAN, PumpBackfill(granted)
    PROVE  ReadyInv'
<1>1. PumpLeaves /\ TypedInv
  BY PumpFresh DEF OnceInv, AccountInv, ProgressInv
<1>2. /\ todo # <<>> /\ Head(todo).do = "pump"
      /\ UNCHANGED <<conn, last, events, chan, logged, gaps, again, left>>
  BY PumpParts DEF tp, ghosts
<1>3. todo[1].do = "pump" /\ todo \in Seq(CommandType(sent)) /\ todo' \in Seq(CommandType(sent'))
  BY <1>1, <1>2, TailSeq DEF TypedInv, AccountInv, ProgressInv
<1>4. todo[1].do # "flush" /\ todo[1].do # "row"
  BY <1>3
<1>5. events = <<>> /\ (conn # "up" => Mine = {} /\ last = 0)
  BY <1>4 DEF ReadyInv, Attended, Connected
<1>6. Range(events) = {} /\ EventsOf(todo) = {}
  BY <1>1, <1>2, <1>5, EmptyLists, PumpAlone
<1>7. Held' = EventsOf(todo') /\ Held = {}
  <2>1. Held' = Range(events') \cup EventsOf(todo')
    BY DEF Held, EventsOf
  <2>2. QED
    BY <1>2, <1>6, <2>1, NewsAre
<1>8. SpansIn(EventsOf(todo'), Range(jobs)) /\ SpansIn(Range(jobs'), Range(jobs))
  BY <1>1 DEF PumpLeaves
<1>9. OpenGaps' = OpenGaps /\ AllUntaken(OpenGaps', LoggedIds(logged'), again')
  BY <1>2 DEF ReadyInv, OpenGaps
<1>10. SpansIn(Work', Work)
  <2>1. SpansIn(Open(Held'), Range(jobs))
    BY <1>7, <1>8 DEF SpansIn, Open
  <2>2. QED
    BY <1>8, <1>9, <2>1, AtWork, WorkFewer
<1>11. AllUntaken(Open(Held'), OnTheWay', again')
  BY <1>1, <1>2, <1>7 DEF PumpLeaves, AllUntaken, Open
<1>12. Connected' /\ Attended' /\ conn' # "broken" /\ left'["break"] = 0
  <2>1. Mine = {} => Mine' = {}
    <3>1. Mine = Range(jobs) /\ Mine' = EventsOf(todo') \cup Range(jobs')
      BY <1>7 DEF Mine
    <3>2. QED
      BY <1>8, <3>1 DEF SpansIn
  <2>2. QED
    BY <1>2, <1>5, <2>1 DEF ReadyInv, Connected, Attended
<1> DEFINE V == Work'
           W == Work
           R == Range(chan)
           X == again
<1>13. SpansIn(V, W) /\ AllOut(R, W, X) /\ Apart(W) /\ (last > 0 => \A g \in W : g.last <= last)
  BY <1>10 DEF ReadyInv, AllOut, Rows
<1>14. AllOut(R, V, X) /\ Apart(V) /\ (last > 0 => \A g \in V : g.last <= last)
  <2> HIDE DEF V, W, R, X
  <2>1. R \subseteq R /\ X \subseteq X
    OBVIOUS
  <2>2. QED
    BY <1>13, <2>1, OutFewer
<1>15. \A c \in Range(todo') : c.do = "row" => c.back
  <2>1. BackOnly(todo') /\ DOMAIN todo' = 1 .. Len(todo')
    BY <1>1, <1>3 DEF PumpLeaves
  <2>2. QED
    BY <2>1 DEF BackOnly, Range
<1>16. AllOut(Rows(chan', todo'), V, X)
  <2> HIDE DEF V, X
  <2>1. QED
    BY <1>2, <1>14, <1>15 DEF AllOut, Rows, OutOf
<1>17. Open(Held)' = Open(Held')
  BY DEF Open
<1>18. QED
  BY <1>2, <1>9, <1>11, <1>12, <1>14, <1>16, <1>17 DEF ReadyInv

\* A handler starts and takes up the open gaps.
LEMMA StartReady ==
    ASSUME OnceInv, ReadyInv, AccountInv', Start
    PROVE  ReadyInv'
<1> DEFINE S == {Job(g) : g \in OpenGaps}
           V == Work'
           W == OpenGaps
<1>1. /\ AccountInv /\ ~up /\ Nothing /\ \A g \in OpenGaps : g.last <= LastId
  BY DEF OnceInv, AccountInv, ProgressInv, TypedInv, Start
<1>2. /\ last' = LastId /\ jobs' \in ByFirstId(S) /\ conn' = "up"
      /\ UNCHANGED <<events, todo, chan, logged, gaps, again, left>>
  BY DEF Start, tp, ghosts
<1>3. Held = {} /\ Held' = {} /\ Rows(chan', todo') = {} /\ events = <<>>
  <2>1. Held = {} /\ Range(chan) = {} /\ Range(todo) = {}
    BY <1>1, EmptyLists, NewsAre DEF Nothing
  <2>2. QED
    BY <1>1, <1>2, <2>1 DEF Held, Rows, Nothing
<1>4. SpansIn(Range(jobs'), W)
  <2>1. jobs' \in [1 .. Cardinality(S) -> S]
    BY <1>2 DEF ByFirstId
  <2>2. \A j \in S : \E g \in W : j.first = g.first /\ j.last = g.last
    BY DEF Job
  <2> HIDE DEF S, W
  <2>3. Range(jobs') \subseteq S
    BY <2>1 DEF Range
  <2>4. QED
    BY <2>2, <2>3 DEF SpansIn
<1>5. OpenGaps' = OpenGaps
  BY <1>2 DEF OpenGaps
<1>6. SpansIn(V, W)
  <2>1. V = OpenGaps \cup Range(jobs')
    BY <1>3, <1>5 DEF Work, Open
  <2> HIDE DEF V, W
  <2>2. QED
    BY <1>4, <2>1 DEF SpansIn, W
<1>7. Apart(W)
  BY <1>1 DEF OnceInv, Resumable
<1>8. Apart(V) /\ \A g \in V : g.last <= LastId
  <2> DEFINE R == {}
             m == LastId
  <2>1. R \subseteq R /\ \A g \in W : g.last <= m
    BY <1>1
  <2> HIDE DEF V, W, R, m
  <2>2. Apart(V) /\ \A g \in V : g.last <= m
    BY <1>6, <1>7, <2>1, OutFewer
  <2>3. QED
    BY <2>2 DEF m
<1>9. AllUntaken(OpenGaps', LoggedIds(logged'), again')
  BY <1>2, <1>5 DEF ReadyInv
<1>10. AllUntaken(Open(Held)', OnTheWay', again') /\ AllOut(Rows(chan', todo'), Work', again')
  BY <1>3 DEF AllUntaken, AllOut, Open
<1>11. Attended' /\ Connected'
  BY <1>2, <1>3 DEF Attended, Connected
<1>12. left'["break"] = 0 /\ conn' # "broken"
  BY <1>2 DEF ReadyInv
<1>13. QED
  BY <1>2, <1>8, <1>9, <1>10, <1>11, <1>12 DEF ReadyInv

\* A handler ends, and TP logs what had reached it: the open gaps can be taken up.
LEMMA KilledReady ==
    ASSUME OnceInv, ReadyInv, AccountInv', Killed
    PROVE  ReadyInv' /\ Resumable'
<1>1. TypedInv
  BY DEF OnceInv, AccountInv, ProgressInv
<1>2. PICK n \in 0 .. Len(chan) : /\ logged' = LogRows(SubSeq(chan, 1, n)).logged
                                  /\ gaps' = LogRows(SubSeq(chan, 1, n)).gaps
  BY DEF Killed
<1>3. /\ chan' = <<>> /\ last' = 0 /\ jobs' = <<>> /\ events' = <<>> /\ todo' = <<>>
      /\ conn' = "closed" /\ again' = again
  BY DEF Killed, ghosts
<1>4. left'["break"] = 0
  BY <1>1, NoBreak DEF Killed
<1> DEFINE t == LogRows(SubSeq(chan, 1, n))
<1>5. SpansIn(Open(t.gaps), OpenGaps) /\ AllUntaken(Open(t.gaps), LoggedIds(t.logged), again)
  BY <1>1, PrefixReady
<1>6. logged' = t.logged /\ OpenGaps' = Open(t.gaps)
  BY <1>2 DEF OpenGaps, Open
<1> HIDE DEF t
<1>7. Held' = {} /\ Mine' = {} /\ Range(jobs') = {} /\ Rows(chan', todo') = {}
  <2>1. Held' = Range(events') \cup EventsOf(todo')
    BY DEF Held, EventsOf
  <2>2. Held' = {} /\ Range(jobs') = {} /\ Range(chan') = {} /\ Range(todo') = {}
    BY <1>3, <2>1, EmptyLists
  <2>3. QED
    BY <2>2 DEF Mine, Rows
<1>8. Work' = OpenGaps'
  BY <1>7 DEF Work, Open
<1>9. Apart(OpenGaps')
  <2> DEFINE V == OpenGaps'
             W == Work
             R == {}
             X == {}
  <2>1. SpansIn(V, W) /\ Apart(W) /\ R \subseteq R /\ X \subseteq X
    BY <1>5, <1>6, AtWork DEF ReadyInv
  <2> HIDE DEF V, W, R, X
  <2>2. Apart(V)
    BY <2>1, OutFewer
  <2>3. QED
    BY <2>2 DEF V
<1>10. AllUntaken(OpenGaps', LoggedIds(logged'), again')
  BY <1>3, <1>5, <1>6
<1>11. AllUntaken(Open(Held)', OnTheWay', again') /\ AllOut(Rows(chan', todo'), Work', again')
  BY <1>7 DEF AllUntaken, AllOut, Open
<1>12. Attended' /\ Connected' /\ conn' # "broken" /\ ~ (last' > 0)
  BY <1>3, <1>7 DEF Attended, Connected
<1>13. Resumable'
  BY <1>9, <1>10 DEF Resumable, AllUntaken
<1>14. QED
  BY <1>4, <1>8, <1>9, <1>10, <1>11, <1>12, <1>13 DEF ReadyInv

\* A message: a gap that it shows is behind all that there is, and before its row.
LEMMA MessageReady ==
    ASSUME OnceInv, ReadyInv, AccountInv', todo = <<>>, NEW i \in Nat, i >= 1, ProcessMessage(i),
           left'["break"] = 0, UNCHANGED <<conn, events, chan, logged, gaps>>,
           (i \in 1 .. last /\ again' = again \cup {i}) \/ (i = sent + 1 /\ again' = again)
    PROVE  ReadyInv'
<1> DEFINE D == Delivered
           X == again
           Y == again'
           W == Work
           V == Work'
           gap == [first |-> last + 1, last |-> i - 1, through |-> 0]
           ev == GapEvent(gap, "detected")
           a == Record(ev)
           j == Job(gap)
           b == Row(i, FALSE)
           N == IF IsGap(i) THEN {ev, j} ELSE {}
<1>1. AccountInv /\ TypedInv
  BY DEF OnceInv, AccountInv, ProgressInv
<1>2. /\ jobs' = (IF IsGap(i) THEN Append(jobs, j) ELSE jobs) /\ last' = Max({last, i})
      /\ todo' = IF IsGap(i) THEN <<a, b, Flush, Pump>> ELSE <<b, Flush, Pump>>
  BY DEF ProcessMessage, ValidateTradeId
<1>3. /\ last \in Nat /\ sent \in Nat /\ last <= sent /\ jobs \in Seq(JobType(sent))
      /\ chan \in Seq(RowType(sent))
  BY <1>1, TradeConstants DEF TypedInv
<1>4. /\ ev.first = last + 1 /\ ev.last = i - 1 /\ ev.through = 0 /\ ev.status = "detected"
      /\ a.do = "event" /\ a.event = ev /\ j.first = last + 1 /\ j.last = i - 1
      /\ b.do = "row" /\ b.id = i
  BY DEF GapEvent, Record, Job, Row
<1>5. /\ X \subseteq Y /\ (i \in Y \/ i = sent + 1) /\ last' \in Nat /\ last' >= last
      /\ (last = 0 => last' > sent) /\ (IsGap(i) => last > 0 /\ i > last + 1 /\ i = sent + 1 /\ last' = i)
  <2>1. last' = IF last >= i THEN last ELSE i
    BY <1>2, <1>3, MaxOfTwo
  <2>2. QED
    BY <1>3, <2>1 DEF IsGap
<1>6. events = <<>> /\ (conn # "up" => Mine = {} /\ last = 0)
  BY DEF ReadyInv, Attended, Connected
<1> HIDE DEF gap, ev, a, j
<1>7. AllRowIds(todo') = {i} /\ AllRowIds(todo) = {} /\ EventsOf(todo) = {}
      /\ EventsOf(todo') = IF IsGap(i) THEN {ev} ELSE {}
  BY <1>2, <1>4, MessageRows, EmptyLists
<1> HIDE DEF b
<1>8. OnTheWay = D /\ OnTheWay' = D \cup {i}
  BY <1>7 DEF OnTheWay, Delivered
<1>9. Held = {} /\ Held' = IF IsGap(i) THEN {ev} ELSE {}
  <2>1. Held' = Range(events') \cup EventsOf(todo')
    BY DEF Held, EventsOf
  <2>2. QED
    BY <1>6, <1>7, <2>1, NewsAre, EmptyLists
<1>10. Range(jobs') = Range(jobs) \cup (IF IsGap(i) THEN {j} ELSE {})
  <2>1. CASE IsGap(i)
    <3> DEFINE T == JobType(sent) \cup {j}
    <3>1. jobs \in Seq(T) /\ j \in T
      <4>1. Seq(JobType(sent)) \subseteq Seq(T)
        BY SeqGrows
      <4>2. QED
        BY <1>3, <4>1
    <3> HIDE DEF T
    <3>2. Range(Append(jobs, j)) = Range(jobs) \cup {j}
      BY <3>1, AppendRange
    <3>3. QED
      BY <1>2, <2>1, <3>2
  <2>2. CASE ~ IsGap(i)
    BY <1>2, <2>2
  <2>3. QED
    BY <2>1, <2>2
<1>11. OpenGaps' = OpenGaps
  BY DEF OpenGaps
<1>12. V = W \cup N
  <2>1. Open({ev}) = {ev} /\ Open({}) = {}
    <3>1. "detected" \in OpenStatuses
      BY DEF OpenStatuses
    <3>2. QED
      BY <1>4, <3>1 DEF Open
  <2>2. V = OpenGaps \cup Open(Held') \cup Range(jobs')
    BY <1>11 DEF Work, Open
  <2>3. W = OpenGaps \cup Range(jobs)
    BY <1>9, <2>1 DEF Work
  <2>4. QED
    BY <1>9, <1>10, <2>1, <2>2, <2>3
<1>13. /\ NatSpans(W) /\ (\A g \in W : g.last <= sent) /\ D \subseteq 1 .. sent
       /\ (last > 0 => \A k \in D : k <= last)
  <2>1. W \subseteq AllGaps
    BY DEF Work, AllGaps, OpenGaps, Open
  <2>2. NatSpans(AllGaps) /\ (\A g \in AllGaps : g.last <= sent) /\ D \subseteq 1 .. sent
    BY <1>1, <1>8, AllGapsNat
  <2>3. last > 0 => \A k \in D : k <= last
    BY <1>1, <1>8 DEF AccountInv, TrackerCovers
  <2> HIDE DEF D, W
  <2>4. QED
    BY <2>1, <2>2, <2>3 DEF NatSpans
<1>14. /\ AllUntaken(OpenGaps, LoggedIds(logged), X) /\ AllOut(Rows(chan, todo), W, X) /\ Apart(W)
       /\ (last > 0 => \A g \in W : g.last <= last)
  BY DEF ReadyInv
<1>15. ASSUME NEW c \in Range(chan)
       PROVE  c.id \in D
  <2>1. DOMAIN chan = 1 .. Len(chan)
    BY <1>3
  <2>2. QED
    BY <2>1 DEF Range, Delivered, ChanIds
<1> HIDE DEF D, X, Y, W, V
<1>16. AllUntaken(OpenGaps', LoggedIds(logged'), Y)
  <2>1. LoggedIds(logged) \subseteq LoggedIds(logged)
    OBVIOUS
  <2>2. AllUntaken(OpenGaps, LoggedIds(logged), Y)
    BY <1>5, <1>14, <2>1, FreshLess DEF AllUntaken
  <2>3. QED
    BY <1>11, <2>2
<1>17. ASSUME IsGap(i)
       PROVE  Untaken(ev, D \cup {i}, Y)
  <2>1. ASSUME NEW m \in NextNeeded(ev) .. ev.last
        PROVE  m \notin D \cup {i}
    <3>1. m \in last + 1 .. i - 1
      BY <1>3, <1>4 DEF NextNeeded
    <3>2. m > last /\ m < i /\ m \in Nat
      BY <1>3, <3>1
    <3>3. \A k \in D : k \in Nat /\ k <= last
      BY <1>3, <1>5, <1>13, <1>17
    <3>4. QED
      BY <1>3, <3>2, <3>3
  <2>2. QED
    BY <2>1 DEF Untaken, Fresh
<1>18. AllUntaken(Open(Held)', OnTheWay', Y)
  <2>1. Open(Held)' = Open(Held')
    BY DEF Open
  <2>2. QED
    BY <1>8, <1>9, <1>17, <2>1 DEF AllUntaken, Open
<1>19. ASSUME NEW c \in Range(chan)
       PROVE  OutOf(c, V, Y)
  <2>1. OutOf(c, W, X)
    BY <1>14 DEF AllOut, Rows
  <2>2. ASSUME NEW g \in N
        PROVE  ~ Covers(g, c.id)
    <3>1. IsGap(i) /\ g.first = last + 1
      BY <1>4
    <3>2. last > 0 /\ c.id \in D
      BY <1>5, <1>15, <3>1
    <3>3. c.id \in 1 .. sent /\ c.id <= last
      BY <1>13, <3>2
    <3>4. QED
      BY <1>3, <3>1, <3>3 DEF Covers
  <2> HIDE DEF N
  <2>3. QED
    BY <1>5, <1>12, <2>1, <2>2 DEF OutOf
<1>20. OutOf(b, V, Y)
  <2>1. CASE i \in Y
    BY <1>4, <2>1 DEF OutOf
  <2>2. CASE i = sent + 1
    <3>1. \A g \in W : ~ Covers(g, i)
      BY <1>3, <1>13, <2>2 DEF Covers, NatSpans
    <3>2. \A g \in N : ~ Covers(g, i)
      BY <1>3, <1>4 DEF Covers
    <3> HIDE DEF N
    <3>3. QED
      BY <1>4, <1>12, <3>1, <3>2 DEF OutOf
  <2>3. QED
    BY <1>5, <2>1, <2>2
<1>21. AllOut(Rows(chan', todo'), V, Y)
  <2>1. Range(todo') \subseteq {a, b, Flush, Pump}
    BY <1>2, ShortLists
  <2>2. Flush.do # "row" /\ Pump.do # "row" /\ a.do # "row"
    BY <1>4 DEF Flush, Pump
  <2>3. Rows(chan', todo') \subseteq Range(chan) \cup {b}
    BY <2>1, <2>2 DEF Rows
  <2>4. QED
    BY <1>19, <1>20, <2>3 DEF AllOut
<1>22. Apart(V) /\ \A g \in V : g.last <= last'
  <2>1. ASSUME NEW g \in W
        PROVE  g.last <= last' /\ (IsGap(i) => g.last < last + 1)
    <3>1. g.last \in Nat /\ g.last <= sent /\ (last > 0 => g.last <= last)
      BY <1>13, <1>14 DEF NatSpans
    <3>2. QED
      BY <1>3, <1>5, <3>1
  <2>2. ASSUME NEW g \in N
        PROVE  IsGap(i) /\ g.first = last + 1 /\ g.last = i - 1 /\ g.last <= last'
    <3>1. IsGap(i) /\ g.first = last + 1 /\ g.last = i - 1 /\ last' = i
      BY <1>4, <1>5
    <3>2. i - 1 <= i
      OBVIOUS
    <3>3. QED
      BY <3>1, <3>2
  <2> HIDE DEF N
  <2>3. ASSUME NEW g \in V, NEW h \in V
        PROVE  g.first = h.first \/ g.last < h.first \/ h.last < g.first
    <3>1. CASE g \in W /\ h \in W
      BY <1>14, <3>1 DEF Apart
    <3>2. CASE g \in N /\ h \in N
      BY <2>2, <3>2
    <3>3. CASE g \in W /\ h \in N
      BY <2>1, <2>2, <3>3
    <3>4. CASE g \in N /\ h \in W
      BY <2>1, <2>2, <3>4
    <3>5. QED
      BY <1>12, <3>1, <3>2, <3>3, <3>4
  <2>4. QED
    BY <1>12, <2>1, <2>2, <2>3 DEF Apart
<1>23. Attended'
  BY <1>6 DEF Attended
<1>24. Connected'
  <2>1. CASE conn = "up"
    BY <2>1 DEF Connected
  <2>2. CASE conn # "up"
    <3>1. Mine = {} /\ ~ IsGap(i)
      BY <1>3, <1>5, <1>6, <2>2
    <3>2. Mine' = {}
      BY <1>9, <1>10, <3>1 DEF Mine
    <3>3. todo' # <<>> /\ todo'[1] = b
      BY <1>2, <3>1
    <3>4. QED
      BY <1>4, <3>2, <3>3 DEF Connected
  <2>3. QED
    BY <2>1, <2>2
<1>25. conn' # "broken"
  BY DEF ReadyInv
<1>26. /\ AllUntaken(OpenGaps', LoggedIds(logged'), again') /\ AllUntaken(Open(Held)', OnTheWay', again')
       /\ AllOut(Rows(chan', todo'), Work', again') /\ Apart(Work') /\ \A g \in Work' : g.last <= last'
  BY <1>16, <1>18, <1>21, <1>22 DEF V, Y
<1>27. QED
  BY <1>23, <1>24, <1>25, <1>26 DEF ReadyInv

\* The next trade, or one delivered again.
LEMMA ReadsReady ==
    ASSUME OnceInv, ReadyInv, AccountInv', Read \/ ReadOld
    PROVE  ReadyInv'
<1>1. last \in Nat /\ sent \in Nat /\ TypedInv /\ left["break"] = 0
  BY TradeConstants DEF OnceInv, AccountInv, ProgressInv, TypedInv, ReadyInv
<1>2. CASE Read
  <2>1. /\ todo = <<>> /\ ProcessMessage(sent + 1)
        /\ UNCHANGED <<conn, events, chan, logged, gaps, again, left>>
    BY <1>2 DEF Read, Idle, tp
  <2>2. sent + 1 \in Nat /\ sent + 1 >= 1 /\ left'["break"] = 0
    BY <1>1, <2>1
  <2>3. QED
    BY <2>1, <2>2, MessageReady
<1>3. CASE ReadOld
  <2>1. PICK i \in 1 .. last : ProcessMessage(i) /\ again' = again \cup {i}
    BY <1>3 DEF ReadOld
  <2>2. todo = <<>> /\ UNCHANGED <<conn, events, chan, logged, gaps>>
    BY <1>3 DEF ReadOld, Idle, tp
  <2>3. i \in Nat /\ i >= 1
    BY <1>1
  <2>4. left'["break"] = 0
    BY <1>1, <1>3, NoBreak DEF ReadOld
  <2>5. QED
    BY <2>1, <2>2, <2>3, <2>4, MessageReady
<1>4. QED
  BY <1>2, <1>3

-----------------------------------------------------------------------------
(* Every trade is logged once *)

\* Nothing is under way at first.
LEMMA ReadyInit ==
    ASSUME Init, MaxFaults["break"] = 0
    PROVE  ReadyInv
<1>1. /\ events = <<>> /\ jobs = <<>> /\ todo = <<>> /\ chan = <<>> /\ gaps = {} /\ last = 0
      /\ left = MaxFaults /\ conn = "closed"
  BY DEF Init
<1>2. Range(jobs) = {} /\ Range(chan) = {} /\ Range(todo) = {} /\ Held = {} /\ OpenGaps = {}
  BY <1>1, EmptyLists, NewsAre DEF OpenGaps
<1>3. Work = {} /\ Mine = {} /\ Rows(chan, todo) = {} /\ Open(Held) = {}
  BY <1>2 DEF Work, Mine, Rows, Open
<1>4. Attended /\ Connected /\ ~ (last > 0) /\ conn # "broken" /\ left["break"] = 0
  BY <1>1, <1>3 DEF Attended, Connected
<1>5. QED
  BY <1>2, <1>3, <1>4 DEF ReadyInv, AllUntaken, AllOut, Apart

\* Every step keeps both, and what a handler that ends leaves can be taken up.
LEMMA ReadyNext ==
    ASSUME KillAnywhere = FALSE, OnceInv, ReadyInv, [Next]_vars
    PROVE  OnceInv' /\ ReadyInv'
<1>1. AccountInv'
  BY AccountNext DEF OnceInv
<1>2. CASE UNCHANGED vars
  <2>1. UNCHANGED <<conn, last, jobs, events, todo, chan, logged, gaps, again, left>>
    BY <1>2 DEF vars, handler, tp, ghosts
  <2>2. left'["break"] = 0
    BY <2>1 DEF ReadyInv
  <2>3. ReadyInv'
    BY <2>1, <2>2, ReadySame
  <2>4. ~ Killed \/ Resumable'
    <3>1. up' = up /\ up \in BOOLEAN
      BY <1>2 DEF vars, OnceInv, AccountInv, ProgressInv, TypedInv
    <3>2. QED
      BY <3>1 DEF Killed
  <2>5. QED
    BY <2>3, <2>4, OnceNext
<1>3. ASSUME NEW granted \in BOOLEAN, PumpBackfill(granted)
      PROVE  ReadyInv'
  BY <1>1, <1>3, PumpReady
<1>4. CASE Next
  <2>1. ReadyInv'
    BY <1>1, <1>3, <1>4, TpLogsReady, StartReady, KilledReady, QuietReady, ReadsReady,
       PublishRowReady, RecordGapReady, FlushesReady
       DEF Next
  <2>2. Killed => Resumable'
    BY <1>1, KilledReady
  <2>3. QED
    BY <2>1, <2>2, OnceNext
<1>5. QED
  BY <1>2, <1>4

\* Without kills there is no handler that ends.
LEMMA UnkilledNext ==
    ASSUME KillAnywhere = FALSE, OnceInv, left["kill"] = 0, [Next]_vars
    PROVE  OnceInv' /\ left'["kill"] = 0
<1>1. left \in [FaultKinds -> Nat]
  BY DEF OnceInv, AccountInv, ProgressInv, TypedInv
<1>2. ~ Killed
  BY DEF Killed, Fault
<1>3. OnceInv'
  BY <1>2, OnceNext
<1>4. ASSUME NEW kind \in {"message", "old", "break", "reject", "blind"}, Fault(kind)
      PROVE  left'["kill"] = 0
  <2>1. "kill" \in FaultKinds \ {"any"} /\ kind \in FaultKinds \ {"any"} /\ kind # "kill"
    BY DEF FaultKinds
  <2>2. QED
    BY <1>1, <1>4, <2>1, FaultLeaves
<1>5. CASE UNCHANGED left
  BY <1>3, <1>5
<1>6. UNCHANGED left \/ \E kind \in {"message", "old", "break", "reject", "blind"} : Fault(kind)
  <2>1. CASE UNCHANGED vars
    BY <2>1 DEF vars
  <2>2. CASE TpLogs \/ Start \/ Read \/ ReadOther \/ PublishRow \/ RecordGap \/ EventAcked \/ WorkerFetches
    BY <2>2 DEF TpLogs, Start, Read, ReadOther, PublishRow, RecordGap, EventAcked, WorkerFetches
  <2>3. CASE StartBlind \/ ReadOld \/ ReadUnreadable \/ EventRejected \/ Break
    BY <2>3 DEF StartBlind, ReadOld, ReadUnreadable, EventRejected, Break
  <2>4. CASE Missed \/ EventUnacked
    BY <2>4 DEF Missed, EventUnacked
  <2>5. ASSUME NEW granted \in BOOLEAN, PumpBackfill(granted)
        PROVE  UNCHANGED left
    BY <2>5 DEF PumpBackfill
  <2>6. QED
    BY <1>2, <2>1, <2>2, <2>3, <2>4, <2>5 DEF Next
<1>7. QED
  BY <1>3, <1>4, <1>5, <1>6

\* "No id fetched or published twice" (README.md:319), when no handler is killed, or when
\* no connection breaks and no handler is killed while a gap's record and the row behind
\* it disagree.  Through lost and repeated messages, lost trade states, rejected events,
\* short and failed pages, broken connections (the first case) and kills in the middle of
\* a backfill (the second), a trade is logged once unless the exchange delivered it again:
\* TradeBackfill::pump publishes a gap's rows before the event that moves it on
\* (trade_backfill.hpp:309-323), TP derives its progress from the rows (tp.q:393-395), and
\* a handler that starts goes on behind them (trade_gap.hpp:45).  With breaks and a kill
\* it does not hold.
THEOREM NothingTwice ==
    ASSUME KillAnywhere = FALSE, MaxFaults["kill"] = 0 \/ MaxFaults["break"] = 0
    PROVE  Spec => []LoggedOnce
<1>1. OnceInv => LoggedOnce
  BY DEF OnceInv, LogOnce, LoggedOnce
<1>2. CASE MaxFaults["kill"] = 0
  <2>1. Init => OnceInv /\ left["kill"] = 0
    BY <1>2, OnceInit DEF Init
  <2>2. OnceInv /\ left["kill"] = 0 /\ [Next]_vars => (OnceInv /\ left["kill"] = 0)'
    BY UnkilledNext
  <2>3. QED
    BY <1>1, <2>1, <2>2, PTL DEF Spec
<1>3. CASE MaxFaults["break"] = 0
  <2>1. Init => OnceInv /\ ReadyInv
    BY <1>3, OnceInit, ReadyInit
  <2>2. OnceInv /\ ReadyInv /\ [Next]_vars => (OnceInv /\ ReadyInv)'
    BY ReadyNext
  <2>3. QED
    BY <1>1, <2>1, <2>2, PTL DEF Spec
<1>4. QED
  BY <1>2, <1>3

=============================================================================
