----------------------------- MODULE Wdb_proofs -----------------------------
(***************************************************************************)
(* Proofs about Wdb: the types; that WDB never refuses a row that it does  *)
(* not have, so that none is lost between TP's log and disk, whatever      *)
(* fails; and that none is written twice as long as checkpoints can be     *)
(* saved.  For every number of tables, rows, days, faults and kills.       *)
(***************************************************************************)
EXTENDS Wdb, NatLemmas, FiniteSetTheorems, TLAPS

-----------------------------------------------------------------------------
(* Types *)

LogType == [tbl : Tables, date : Days, day : Days]

OutcomeType == [dates : Nat, save : BOOLEAN]

\* What WdbAssumption says of the constants.
LEMMA WdbConstants ==
    /\ MaxLog \in Nat /\ MaxDay \in Nat
    /\ TableSeq \in Seq(Tables)
    /\ \A f \in FaultKinds : MaxFaults[f] \in Nat
BY WdbAssumption

\* Every table has its turn.
LEMMA TablesInSeq ==
    \A t \in Tables : \E k \in 1 .. Len(TableSeq) : TableSeq[k] = t
<1>1. DOMAIN TableSeq = 1 .. Len(TableSeq)
  BY WdbConstants
<1>2. QED
  BY <1>1 DEF Tables, Range

\* What goes wrong is one table's affair.
LEMMA OutcomeTyped ==
    ASSUME NEW oc \in Outcomes
    PROVE  oc \in [Tables -> OutcomeType]
<1>1. MaxDay + 1 \in Nat /\ Days \subseteq Nat
  BY WdbConstants DEF Days
<1>2. AllWell \in [Tables -> OutcomeType]
  BY <1>1 DEF AllWell, OutcomeType
<1>3. ASSUME NEW t \in Tables, NEW k \in Days
      PROVE  [AllWell EXCEPT ![t].dates = k] \in [Tables -> OutcomeType]
  BY <1>1, <1>2 DEF OutcomeType
<1>4. ASSUME NEW t \in Tables
      PROVE  [AllWell EXCEPT ![t].save = FALSE] \in [Tables -> OutcomeType]
  BY <1>1, <1>2 DEF OutcomeType
<1>5. QED
  BY <1>2, <1>3, <1>4 DEF Outcomes

\* The rows of the first dates are among the ones to flush, and these among
\* the buffered ones.
LEMMA FlushSets ==
    ASSUME NEW s, NEW t, NEW k
    PROVE  /\ OfFirstDates(s, t, k) \subseteq ToFlush(s, t)
           /\ ToFlush(s, t) \subseteq Buffered(s, t)
           /\ Buffered(s, t) \subseteq Rows
BY DEF OfFirstDates, ToFlush, Buffered

\* The highest row of a set of rows.
LEMMA MaxOfRows ==
    ASSUME NEW S, S \subseteq Rows, S # {}
    PROVE  Max(S) \in S /\ \A n \in S : n <= Max(S)
<1>1. S \subseteq Nat /\ MaxLog \in Nat /\ \A n \in S : n <= MaxLog
  BY WdbConstants DEF Rows
<1>2. QED
  BY <1>1, MaxOfSet

\* Writing rows keeps the types, and changes only what is on disk.
LEMMA WriteRowsTyped ==
    ASSUME NEW s \in DbType, NEW t \in Tables, NEW ns \in SUBSET Rows
    PROVE  /\ WriteRows(s, t, ns) \in DbType
           /\ WriteRows(s, t, ns).buf = s.buf
           /\ WriteRows(s, t, ns).bufMax = s.bufMax
           /\ WriteRows(s, t, ns).cp = s.cp
           /\ WriteRows(s, t, ns).cpFile = s.cpFile
           /\ WriteRows(s, t, ns).tmp = s.tmp \cup ns
           /\ WriteRows(s, t, ns).hdb = s.hdb
           /\ \A n \in Rows : WriteRows(s, t, ns).copies[n] =
                                IF n \in ns THEN s.copies[n] + s.buf[t][n] ELSE s.copies[n]
<1> DEFINE c == [n \in Rows |-> IF n \in ns THEN s.copies[n] + s.buf[t][n] ELSE s.copies[n]]
<1>1. WriteRows(s, t, ns) = [s EXCEPT !.tmp = s.tmp \cup ns, !.copies = c]
  BY DEF WriteRows, DbType
<1>2. s.buf \in [Tables -> [Rows -> Nat]] /\ s.copies \in [Rows -> Nat]
  BY DEF DbType
<1>3. \A n \in Rows : s.buf[t][n] \in Nat /\ s.copies[n] \in Nat
  BY <1>2
<1>4. c \in [Rows -> Nat]
  BY <1>3
<1>5. \A n \in Rows : c[n] = IF n \in ns THEN s.copies[n] + s.buf[t][n] ELSE s.copies[n]
  OBVIOUS
<1> HIDE DEF c
<1>6. QED
  BY <1>1, <1>4, <1>5 DEF DbType

\* Dropping flushed rows from a buffer changes that buffer only.
LEMMA KeepTyped ==
    ASSUME NEW s \in DbType, NEW t \in Tables, NEW ns
    PROVE  /\ Keep(s, t, ns) \in DbType
           /\ \A u \in Tables : u # t => Keep(s, t, ns).buf[u] = s.buf[u]
           /\ \A n \in Rows : Keep(s, t, ns).buf[t][n] = IF n \in ns THEN s.buf[t][n] ELSE 0
           /\ Keep(s, t, ns).bufMax = s.bufMax
           /\ Keep(s, t, ns).cp = s.cp
           /\ Keep(s, t, ns).cpFile = s.cpFile
           /\ Keep(s, t, ns).tmp = s.tmp
           /\ Keep(s, t, ns).hdb = s.hdb
           /\ Keep(s, t, ns).copies = s.copies
<1> DEFINE c == [n \in Rows |-> IF n \in ns THEN s.buf[t][n] ELSE 0]
<1>1. Keep(s, t, ns) = [s EXCEPT !.buf = [s.buf EXCEPT ![t] = c]]
  BY DEF Keep, DbType
<1>2. s.buf \in [Tables -> [Rows -> Nat]]
  BY DEF DbType
<1>3. c \in [Rows -> Nat]
  BY <1>2
<1>4. \A n \in Rows : c[n] = IF n \in ns THEN s.buf[t][n] ELSE 0
  OBVIOUS
<1> HIDE DEF c
<1>5. [s.buf EXCEPT ![t] = c] \in [Tables -> [Rows -> Nat]]
  BY <1>2, <1>3
<1>6. [s.buf EXCEPT ![t] = c][t] = c /\ \A u \in Tables : u # t => [s.buf EXCEPT ![t] = c][u] = s.buf[u]
  BY <1>2
<1>7. QED
  BY <1>1, <1>4, <1>5, <1>6 DEF DbType

-----------------------------------------------------------------------------
(* What a flush does *)

\* No row of table t that is left is below a written one.
Advances(s, t, w) == \A m \in w, n \in ToFlush(s, t) \ w : m < n

\* x is s after a flush of table t that could write the rows w.
Flushed(x, s, t, w, save) ==
    /\ x \in DbType
    /\ x.bufMax = s.bufMax /\ x.hdb = s.hdb /\ x.tmp = s.tmp \cup w
    /\ \A n \in Rows :
           x.copies[n] = IF n \in w THEN s.copies[n] + s.buf[t][n] ELSE s.copies[n]
    /\ \A u \in Tables : u # t => x.buf[u] = s.buf[u] /\ x.cp[u] = s.cp[u]
    /\ \A n \in Rows :
           /\ x.buf[t][n] \in {0, s.buf[t][n]}
           /\ n \in ToFlush(s, t) \ w => x.buf[t][n] = s.buf[t][n]
    /\ \/ /\ w = {} \/ ~Advances(s, t, w)
          /\ x.cp = s.cp /\ x.cpFile = s.cpFile
       \/ /\ w # {} /\ Advances(s, t, w)
          /\ x.cp[t] = Max(w)
          /\ x.cpFile = IF save THEN x.cp ELSE s.cpFile

\* flushTable writes the rows of the first dates, and advances the
\* checkpoint only if no row is left below them.
LEMMA FlushTableDoes ==
    ASSUME NEW s \in DbType, NEW t \in Tables, NEW oc \in OutcomeType
    PROVE  Flushed(FlushTable(s, t, oc), s, t, OfFirstDates(s, t, oc.dates), oc.save)
<1> DEFINE w == OfFirstDates(s, t, oc.dates)
           F == ToFlush(s, t)
           x == FlushTable(s, t, oc)
           flushed == Keep(WriteRows(s, t, w), t, F \ w)
           advanced == [flushed EXCEPT !.cp[t] = Max(w)]
<1>1. w \subseteq F /\ F \subseteq Rows
  BY FlushSets
<1>2. x = CASE F = {} -> Keep(s, t, {})
            [] w = {} /\ F # {} -> s
            [] w # {} /\ ~Advances(s, t, w) -> flushed
            [] w # {} /\ Advances(s, t, w) -> SaveCheckpoint(advanced, oc.save)
  BY DEF FlushTable, Advances
<1>3. s.buf \in [Tables -> [Rows -> Nat]] /\ s.copies \in [Rows -> Nat] /\ s.cp \in [Tables -> 0 .. MaxLog]
  BY DEF DbType
<1>4. \A n \in Rows : s.buf[t][n] \in Nat /\ s.copies[n] \in Nat
  BY <1>3
<1> SUFFICES Flushed(x, s, t, w, oc.save)
  OBVIOUS
<1> HIDE DEF w, F, x, advanced
<1>5. F = ToFlush(s, t)
  BY DEF F
<1>6. CASE F = {}
  <2>1. x = Keep(s, t, {}) /\ w = {}
    BY <1>1, <1>2, <1>6
  <2>2. QED
    BY <1>5, <1>6, <2>1, KeepTyped, <1>4 DEF Flushed
<1>7. CASE w = {} /\ F # {}
  <2>1. x = s
    BY <1>2, <1>7
  <2>2. QED
    BY <1>5, <1>7, <2>1, <1>4 DEF Flushed
<1>8. /\ flushed \in DbType
      /\ flushed.bufMax = s.bufMax /\ flushed.hdb = s.hdb /\ flushed.tmp = s.tmp \cup w
      /\ flushed.cp = s.cp /\ flushed.cpFile = s.cpFile
      /\ \A n \in Rows :
           flushed.copies[n] = IF n \in w THEN s.copies[n] + s.buf[t][n] ELSE s.copies[n]
      /\ \A u \in Tables : u # t => flushed.buf[u] = s.buf[u]
      /\ \A n \in Rows : flushed.buf[t][n] = IF n \in F \ w THEN s.buf[t][n] ELSE 0
  <2> DEFINE v == WriteRows(s, t, w)
  <2>1. /\ v \in DbType /\ v.buf = s.buf /\ v.bufMax = s.bufMax /\ v.cp = s.cp
        /\ v.cpFile = s.cpFile /\ v.tmp = s.tmp \cup w /\ v.hdb = s.hdb
        /\ \A n \in Rows : v.copies[n] = IF n \in w THEN s.copies[n] + s.buf[t][n] ELSE s.copies[n]
    <3>1. w \in SUBSET Rows
      BY <1>1
    <3>2. QED
      BY <3>1, WriteRowsTyped
  <2> HIDE DEF v
  <2> DEFINE left == F \ w
  <2>2. flushed = Keep(v, t, left)
    BY DEF v
  <2> HIDE DEF flushed, left
  <2>3. /\ flushed \in DbType
        /\ \A u \in Tables : u # t => flushed.buf[u] = v.buf[u]
        /\ \A n \in Rows : flushed.buf[t][n] = IF n \in left THEN v.buf[t][n] ELSE 0
        /\ flushed.bufMax = v.bufMax /\ flushed.cp = v.cp /\ flushed.cpFile = v.cpFile
        /\ flushed.tmp = v.tmp /\ flushed.hdb = v.hdb /\ flushed.copies = v.copies
    BY <2>1, <2>2, KeepTyped
  <2>4. QED
    BY <2>1, <2>3 DEF left
<1> HIDE DEF flushed
<1>9. CASE w # {} /\ ~Advances(s, t, w)
  <2>1. x = flushed
    BY <1>1, <1>2, <1>9
  <2>2. QED
    BY <1>5, <1>8, <1>9, <2>1, <1>4 DEF Flushed
<1>10. CASE w # {} /\ Advances(s, t, w)
  <2>1. x = SaveCheckpoint(advanced, oc.save)
    BY <1>1, <1>2, <1>10
  <2>2. Max(w) \in 0 .. MaxLog
    <3>1. w \subseteq Rows
      BY <1>1
    <3>2. Max(w) \in w
      BY <1>10, <3>1, MaxOfRows
    <3>3. Max(w) \in Rows
      BY <3>1, <3>2
    <3>4. QED
      BY <3>3 DEF Rows
  <2>3. flushed.cp \in [Tables -> 0 .. MaxLog]
    BY <1>8 DEF DbType
  <2> DEFINE c == [flushed.cp EXCEPT ![t] = Max(w)]
  <2>4. /\ c \in [Tables -> 0 .. MaxLog] /\ c[t] = Max(w)
        /\ \A u \in Tables : u # t => c[u] = s.cp[u]
    BY <1>8, <2>2, <2>3
  <2>5. advanced = [flushed EXCEPT !.cp = c]
    BY <1>8 DEF advanced, DbType
  <2> HIDE DEF c
  <2>6. /\ advanced \in DbType /\ advanced.cp = c /\ advanced.cpFile = flushed.cpFile
        /\ advanced.buf = flushed.buf /\ advanced.bufMax = flushed.bufMax
        /\ advanced.tmp = flushed.tmp /\ advanced.hdb = flushed.hdb
        /\ advanced.copies = flushed.copies
    BY <1>8, <2>4, <2>5 DEF DbType
  <2>7. /\ x \in DbType /\ x.cp = c /\ x.cpFile = IF oc.save THEN c ELSE flushed.cpFile
        /\ x.buf = flushed.buf /\ x.bufMax = flushed.bufMax
        /\ x.tmp = flushed.tmp /\ x.hdb = flushed.hdb
        /\ x.copies = flushed.copies
    BY <2>1, <2>4, <2>6 DEF SaveCheckpoint, DbType
  <2>8. QED
    BY <1>4, <1>5, <1>8, <1>10, <2>4, <2>7 DEF Flushed
<1>11. QED
  BY <1>6, <1>7, <1>9, <1>10

-----------------------------------------------------------------------------
(* What the receipt of a row does *)

\* The floor of a table: its checkpoint or its last buffered row.
LEMMA FloorIs ==
    ASSUME NEW s \in DbType, NEW t \in Tables
    PROVE  /\ s.cp[t] \in 0 .. MaxLog /\ s.bufMax[t] \in 0 .. MaxLog
           /\ Floor(s, t) = IF s.cp[t] >= s.bufMax[t] THEN s.cp[t] ELSE s.bufMax[t]
<1>1. s.cp[t] \in 0 .. MaxLog /\ s.bufMax[t] \in 0 .. MaxLog
  BY DEF DbType
<1>2. QED
  BY <1>1, MaxOfTwo, WdbConstants DEF Floor

\* x is s with row n of table t in the buffer.
Accepted(x, s, n, t) ==
    /\ x \in DbType
    /\ x.cp = s.cp /\ x.cpFile = s.cpFile /\ x.tmp = s.tmp /\ x.hdb = s.hdb
    /\ x.copies = s.copies
    /\ x.bufMax[t] = n /\ x.buf[t][n] = s.buf[t][n] + 1
    /\ \A m \in Rows : m # n => x.buf[t][m] = s.buf[t][m]
    /\ \A u \in Tables : u # t => x.buf[u] = s.buf[u] /\ x.bufMax[u] = s.bufMax[u]

\* A row that is accepted is buffered, and becomes the last buffered row.
LEMMA AcceptDoes ==
    ASSUME NEW s \in DbType, NEW n \in Rows, NEW t \in Tables, tpLog[n].tbl = t
    PROVE  IF n <= Floor(s, t) THEN Accept(s, n) = s ELSE Accepted(Accept(s, n), s, n, t)
<1>1. CASE n <= Floor(s, t)
  BY <1>1 DEF Accept
<1>2. CASE ~(n <= Floor(s, t))
  <2>1. s.buf \in [Tables -> [Rows -> Nat]] /\ s.bufMax \in [Tables -> 0 .. MaxLog]
    BY DEF DbType
  <2>2. n \in 0 .. MaxLog /\ MaxLog \in Nat
    BY WdbConstants DEF Rows
  <2>3. s.bufMax[t] \in Int /\ n \in Int /\ s.bufMax[t] < n
    BY <1>2, <2>2, FloorIs
  <2>4. Max({s.bufMax[t], n}) = n
    <3> DEFINE low == s.bufMax[t]
    <3>1. low \in Int /\ n \in Int /\ low < n
      BY <2>3
    <3> HIDE DEF low
    <3>2. Max({low, n}) = n
      BY <3>1, MaxOfTwo
    <3>3. QED
      BY <3>2 DEF low
  <2> DEFINE b == [s.buf EXCEPT ![t] = [s.buf[t] EXCEPT ![n] = s.buf[t][n] + 1]]
             m == [s.bufMax EXCEPT ![t] = n]
             x == [s EXCEPT !.buf = b, !.bufMax = m]
  <2>5. Accept(s, n) = x
    BY <1>2, <2>1, <2>4 DEF Accept, DbType
  <2>6. /\ b \in [Tables -> [Rows -> Nat]]
        /\ b[t][n] = s.buf[t][n] + 1
        /\ \A k \in Rows : k # n => b[t][k] = s.buf[t][k]
        /\ \A u \in Tables : u # t => b[u] = s.buf[u]
    BY <2>1
  <2>7. /\ m \in [Tables -> 0 .. MaxLog]
        /\ m[t] = n
        /\ \A u \in Tables : u # t => m[u] = s.bufMax[u]
    BY <2>1, <2>2
  <2> HIDE DEF b, m
  <2>8. Accepted(x, s, n, t)
    BY <2>6, <2>7 DEF Accepted, DbType
  <2>9. QED
    BY <1>2, <2>5, <2>8
<1>3. QED
  BY <1>1, <1>2

\* A row is taken or refused, and then the table flushed or not.
Ingested(x, s, n, t, oc) ==
    LET y == IF n <= Floor(s, t) THEN s ELSE Accept(s, n) IN
    /\ y \in DbType
    /\ n > Floor(s, t) => Accepted(y, s, n, t)
    /\ \/ x = y
       \/ Flushed(x, y, t, OfFirstDates(y, t, oc[t].dates), oc[t].save)

\* An ingested row is refused or accepted, and may fill the buffer.
LEMMA IngestDoes ==
    ASSUME NEW s \in DbType, NEW n \in Rows, NEW t \in Tables, tpLog[n].tbl = t,
           NEW oc \in Outcomes
    PROVE  Ingested(Ingest(s, n, oc), s, n, t, oc)
<1>1. n \in Int /\ Floor(s, t) \in Int /\ oc[t] \in OutcomeType
  BY FloorIs, OutcomeTyped, WdbConstants DEF Rows
<1> DEFINE y == Accept(s, n)
<1>2. /\ y \in DbType
      /\ n <= Floor(s, t) => y = s
      /\ n > Floor(s, t) => Accepted(y, s, n, t)
  BY <1>1, AcceptDoes DEF Accepted
<1>3. Ingest(s, n, oc) = IF y # s /\ BufLen(y, t) > MaxBuf THEN FlushTable(y, t, oc[t]) ELSE y
  BY DEF Ingest
<1>4. (IF n <= Floor(s, t) THEN s ELSE Accept(s, n)) = y
  BY <1>2
<1> HIDE DEF y
<1>5. Flushed(FlushTable(y, t, oc[t]), y, t, OfFirstDates(y, t, oc[t].dates), oc[t].save)
  BY <1>1, <1>2, FlushTableDoes
<1>6. Ingested(Ingest(s, n, oc), s, n, t, oc) <=>
        /\ y \in DbType
        /\ n > Floor(s, t) => Accepted(y, s, n, t)
        /\ \/ Ingest(s, n, oc) = y
           \/ Flushed(Ingest(s, n, oc), y, t, OfFirstDates(y, t, oc[t].dates), oc[t].save)
  BY <1>4 DEF Ingested
<1>7. CASE y # s /\ BufLen(y, t) > MaxBuf
  <2>1. Ingest(s, n, oc) = FlushTable(y, t, oc[t])
    BY <1>3, <1>7
  <2>2. QED
    BY <1>2, <1>5, <1>6, <2>1
<1>8. CASE ~(y # s /\ BufLen(y, t) > MaxBuf)
  BY <1>2, <1>3, <1>6, <1>8
<1>9. QED
  BY <1>7, <1>8

\* Ingesting a row keeps the types.
LEMMA IngestTyped ==
    ASSUME NEW s \in DbType, NEW n \in Rows, tpLog[n].tbl \in Tables, NEW oc \in Outcomes
    PROVE  Ingest(s, n, oc) \in DbType
BY IngestDoes DEF Ingested, Flushed

-----------------------------------------------------------------------------
(* Folds: several tables flushed, several rows received *)

\* r is what the database becomes as the tables of q are flushed one by one.
FlushRun(r, s, q, oc) ==
    /\ r \in [0 .. Len(q) -> DbType]
    /\ r[0] = s
    /\ \A k \in 1 .. Len(q) : r[k] = FlushTable(r[k - 1], q[k], oc[q[k]])
    /\ FlushTables(s, oc, q) = r[Len(q)]

\* Tables can be flushed one after the other.
LEMMA FlushTablesRun ==
    ASSUME NEW s \in DbType, NEW q \in Seq(Tables), NEW oc \in Outcomes
    PROVE  \E r : FlushRun(r, s, q, oc)
<1> DEFINE n == Len(q)
           h == [k \in 1 .. n |-> [y \in DbType |-> FlushTable(y, q[k], oc[q[k]])]]
           Is(g) == g = [p \in SUBSET (DOMAIN q) |->
                           IF p = {} THEN s ELSE FlushTable(g[p \ {Max(p)}], q[Max(p)], oc[q[Max(p)]])]
           f == CHOOSE g : Is(g)
<1>1. n \in Nat /\ DOMAIN q = 1 .. n /\ \A k \in 1 .. n : q[k] \in Tables
  OBVIOUS
<1>2. h \in [1 .. n -> [DbType -> DbType]]
  <2>1. \A k \in 1 .. n : \A y \in DbType : FlushTable(y, q[k], oc[q[k]]) \in DbType
    BY <1>1, OutcomeTyped, FlushTableDoes DEF Flushed
  <2> HIDE DEF n
  <2>2. QED
    BY <2>1
<1>3. PICK g \in [SUBSET (1 .. n) -> DbType] : FoldsSteps(g, n, s, h)
  <2> HIDE DEF n, h
  <2>1. QED
    BY <1>1, <1>2, StepsFold
<1>4. ASSUME NEW k \in 1 .. n, NEW y \in DbType
      PROVE  h[k][y] = FlushTable(y, q[k], oc[q[k]])
  <2> HIDE DEF n
  <2>1. QED
    OBVIOUS
<1>5. ASSUME NEW p \in SUBSET (1 .. n), p # {}
      PROVE  g[p] = FlushTable(g[p \ {Max(p)}], q[Max(p)], oc[q[Max(p)]])
  <2> HIDE DEF n, h
  <2>1. Max(p) \in 1 .. n /\ g[p] = h[Max(p)][g[p \ {Max(p)}]] /\ p \ {Max(p)} \in SUBSET (1 .. n)
    BY <1>3, <1>5 DEF FoldsSteps
  <2>2. g[p \ {Max(p)}] \in DbType
    BY <1>3, <2>1
  <2>3. QED
    BY <1>4, <2>1, <2>2
<1>6. Is(g)
  <2> HIDE DEF n, h
  <2>1. g[{}] = s
    BY <1>3 DEF FoldsSteps
  <2>2. QED
    BY <1>1, <1>3, <1>5, <2>1
<1>7. Is(f)
  <2> HIDE DEF Is
  <2>1. QED
    BY <1>6
<1>8. FlushTables(s, oc, q) = f[DOMAIN q]
  BY DEF FlushTables, FoldLeft, MapThenFoldSet
<1> HIDE DEF f
<1>9. FoldsIn(f, n, s, h, DbType)
  <2>1. f[{}] = s
    BY <1>7
  <2>2. ASSUME NEW p \in SUBSET (1 .. n), p # {}, f[p \ {Max(p)}] \in DbType
        PROVE  f[p] = h[Max(p)][f[p \ {Max(p)}]]
    <3>1. f[p] = FlushTable(f[p \ {Max(p)}], q[Max(p)], oc[q[Max(p)]])
      BY <1>1, <1>7, <2>2
    <3>2. Max(p) \in 1 .. n
      <4> HIDE DEF n, h
      <4>1. QED
        BY <1>3, <2>2 DEF FoldsSteps
    <3> HIDE DEF n, h
    <3>3. QED
      BY <1>4, <2>2, <3>1, <3>2
  <2> HIDE DEF n, h
  <2>3. QED
    BY <2>1, <2>2 DEF FoldsIn
<1>10. PICK r : StepsThrough(r, n, s, h, DbType) /\ f[1 .. n] = r[n]
  <2> HIDE DEF n, h, Is
  <2>1. QED
    BY <1>1, <1>2, <1>9, RunOfFold
<1>11. r \in [0 .. n -> DbType] /\ r[0] = s
  <2> HIDE DEF n, h
  <2>1. QED
    BY <1>10 DEF StepsThrough
<1>12. ASSUME NEW k \in 1 .. n
       PROVE  r[k] = FlushTable(r[k - 1], q[k], oc[q[k]])
  <2> HIDE DEF n, h
  <2>1. r[k] = h[k][r[k - 1]]
    BY <1>10 DEF StepsThrough
  <2>2. k - 1 \in 0 .. n
    BY <1>1
  <2>3. r[k - 1] \in DbType
    BY <1>11, <2>2
  <2>4. QED
    BY <1>4, <2>1, <2>3
<1>13. FlushTables(s, oc, q) = r[n]
  BY <1>1, <1>8, <1>10
<1>14. FlushRun(r, s, q, oc)
  <2> HIDE DEF h, Is
  <2>1. QED
    BY <1>11, <1>12, <1>13 DEF FlushRun
<1>15. QED
  BY <1>14

\* r is what the database becomes as the rows of R among q are received.
IngestRun(r, s, q, R, oc) ==
    /\ r \in [0 .. Len(q) -> DbType]
    /\ r[0] = s
    /\ \A k \in 1 .. Len(q) : r[k] = IF q[k] \in R THEN Ingest(r[k - 1], q[k], oc) ELSE r[k - 1]
    /\ IngestSeq(s, q, R, oc) = r[Len(q)]

\* Rows can be received one after the other.
LEMMA IngestSeqRun ==
    ASSUME NEW s \in DbType, NEW q \in Seq(Rows \cup {Eod}), NEW oc \in Outcomes,
           NEW R \in SUBSET Rows, \A m \in R : tpLog[m].tbl \in Tables
    PROVE  \E r : IngestRun(r, s, q, R, oc)
<1> DEFINE n == Len(q)
           h == [k \in 1 .. n |-> [y \in DbType |-> IF q[k] \in R THEN Ingest(y, q[k], oc) ELSE y]]
           Is(g) == g = [p \in SUBSET (DOMAIN q) |->
                           IF p = {} THEN s
                           ELSE IF q[Max(p)] \in R THEN Ingest(g[p \ {Max(p)}], q[Max(p)], oc) ELSE g[p \ {Max(p)}]]
           f == CHOOSE g : Is(g)
<1>1. n \in Nat /\ DOMAIN q = 1 .. n /\ \A k \in 1 .. n : q[k] \in Rows \cup {Eod}
  OBVIOUS
<1>2. h \in [1 .. n -> [DbType -> DbType]]
  <2>1. \A k \in 1 .. n : \A y \in DbType : (IF q[k] \in R THEN Ingest(y, q[k], oc) ELSE y) \in DbType
    BY <1>1, IngestTyped
  <2> HIDE DEF n
  <2>2. QED
    BY <2>1
<1>3. PICK g \in [SUBSET (1 .. n) -> DbType] : FoldsSteps(g, n, s, h)
  <2> HIDE DEF n, h
  <2>1. QED
    BY <1>1, <1>2, StepsFold
<1>4. ASSUME NEW k \in 1 .. n, NEW y \in DbType
      PROVE  h[k][y] = IF q[k] \in R THEN Ingest(y, q[k], oc) ELSE y
  <2> HIDE DEF n
  <2>1. QED
    OBVIOUS
<1>5. ASSUME NEW p \in SUBSET (1 .. n), p # {}
      PROVE  g[p] = IF q[Max(p)] \in R THEN Ingest(g[p \ {Max(p)}], q[Max(p)], oc) ELSE g[p \ {Max(p)}]
  <2> HIDE DEF n, h
  <2>1. Max(p) \in 1 .. n /\ g[p] = h[Max(p)][g[p \ {Max(p)}]] /\ p \ {Max(p)} \in SUBSET (1 .. n)
    BY <1>3, <1>5 DEF FoldsSteps
  <2>2. g[p \ {Max(p)}] \in DbType
    BY <1>3, <2>1
  <2>3. QED
    BY <1>4, <2>1, <2>2
<1>6. Is(g)
  <2> HIDE DEF n, h
  <2>1. g[{}] = s
    BY <1>3 DEF FoldsSteps
  <2>2. QED
    BY <1>1, <1>3, <1>5, <2>1
<1>7. Is(f)
  <2> HIDE DEF Is
  <2>1. QED
    BY <1>6
<1>8. IngestSeq(s, q, R, oc) = f[DOMAIN q]
  BY DEF IngestSeq, FoldLeft, MapThenFoldSet
<1> HIDE DEF f
<1>9. FoldsIn(f, n, s, h, DbType)
  <2>1. f[{}] = s
    BY <1>7
  <2>2. ASSUME NEW p \in SUBSET (1 .. n), p # {}, f[p \ {Max(p)}] \in DbType
        PROVE  f[p] = h[Max(p)][f[p \ {Max(p)}]]
    <3>1. f[p] = IF q[Max(p)] \in R THEN Ingest(f[p \ {Max(p)}], q[Max(p)], oc) ELSE f[p \ {Max(p)}]
      BY <1>1, <1>7, <2>2
    <3>2. Max(p) \in 1 .. n
      <4> HIDE DEF n, h
      <4>1. QED
        BY <1>3, <2>2 DEF FoldsSteps
    <3> HIDE DEF n, h
    <3>3. QED
      BY <1>4, <2>2, <3>1, <3>2
  <2> HIDE DEF n, h
  <2>3. QED
    BY <2>1, <2>2 DEF FoldsIn
<1>10. PICK r : StepsThrough(r, n, s, h, DbType) /\ f[1 .. n] = r[n]
  <2> HIDE DEF n, h, Is
  <2>1. QED
    BY <1>1, <1>2, <1>9, RunOfFold
<1>11. r \in [0 .. n -> DbType] /\ r[0] = s
  <2> HIDE DEF n, h
  <2>1. QED
    BY <1>10 DEF StepsThrough
<1>12. ASSUME NEW k \in 1 .. n
       PROVE  r[k] = IF q[k] \in R THEN Ingest(r[k - 1], q[k], oc) ELSE r[k - 1]
  <2> HIDE DEF n, h
  <2>1. r[k] = h[k][r[k - 1]]
    BY <1>10 DEF StepsThrough
  <2>2. k - 1 \in 0 .. n
    BY <1>1
  <2>3. r[k - 1] \in DbType
    BY <1>11, <2>2
  <2>4. QED
    BY <1>4, <2>1, <2>3
<1>13. IngestSeq(s, q, R, oc) = r[n]
  BY <1>1, <1>8, <1>10
<1>14. IngestRun(r, s, q, R, oc)
  <2> HIDE DEF h, Is
  <2>1. QED
    BY <1>11, <1>12, <1>13 DEF IngestRun
<1>15. QED
  BY <1>14

\* Ingesting rows keeps the types.
LEMMA IngestSeqTyped ==
    ASSUME NEW s \in DbType, NEW q \in Seq(Rows \cup {Eod}), NEW oc \in Outcomes,
           NEW R \in SUBSET Rows, \A m \in R : tpLog[m].tbl \in Tables
    PROVE  IngestSeq(s, q, R, oc) \in DbType
<1>1. PICK r : IngestRun(r, s, q, R, oc)
  BY IngestSeqRun
<1>2. Len(q) \in 0 .. Len(q)
  OBVIOUS
<1>3. QED
  BY <1>1, <1>2 DEF IngestRun

\* r is what the database becomes as one table after the other of q gets
\* its rows among ns.
TablesRun(r, s, q, ns, R, oc) ==
    /\ r \in [0 .. Len(q) -> DbType]
    /\ r[0] = s
    /\ \A k \in 1 .. Len(q) : r[k] = IngestSeq(r[k - 1], ns, R[q[k]], oc)
    /\ IngestTables(s, ns, R, oc) = r[Len(q)]

\* Tables can get their rows one after the other.
LEMMA IngestTablesRun ==
    ASSUME NEW s \in DbType, NEW q, q = TableSeq, NEW ns \in Seq(Rows \cup {Eod}),
           NEW oc \in Outcomes, NEW R \in [Tables -> SUBSET Rows],
           \A t \in Tables : \A m \in R[t] : tpLog[m].tbl \in Tables
    PROVE  \E r : TablesRun(r, s, q, ns, R, oc)
<1> DEFINE n == Len(q)
           h == [k \in 1 .. n |-> [y \in DbType |-> IngestSeq(y, ns, R[q[k]], oc)]]
           Is(g) == g = [p \in SUBSET (DOMAIN q) |->
                           IF p = {} THEN s ELSE IngestSeq(g[p \ {Max(p)}], ns, R[q[Max(p)]], oc)]
           f == CHOOSE g : Is(g)
<1>1. n \in Nat /\ DOMAIN q = 1 .. n /\ \A k \in 1 .. n : q[k] \in Tables
  BY WdbConstants
<1>2. h \in [1 .. n -> [DbType -> DbType]]
  <2>1. \A k \in 1 .. n : \A y \in DbType : IngestSeq(y, ns, R[q[k]], oc) \in DbType
    BY <1>1, IngestSeqTyped
  <2> HIDE DEF n
  <2>2. QED
    BY <2>1
<1>3. PICK g \in [SUBSET (1 .. n) -> DbType] : FoldsSteps(g, n, s, h)
  <2> HIDE DEF n, h
  <2>1. QED
    BY <1>1, <1>2, StepsFold
<1>4. ASSUME NEW k \in 1 .. n, NEW y \in DbType
      PROVE  h[k][y] = IngestSeq(y, ns, R[q[k]], oc)
  <2> HIDE DEF n
  <2>1. QED
    OBVIOUS
<1>5. ASSUME NEW p \in SUBSET (1 .. n), p # {}
      PROVE  g[p] = IngestSeq(g[p \ {Max(p)}], ns, R[q[Max(p)]], oc)
  <2> HIDE DEF n, h
  <2>1. Max(p) \in 1 .. n /\ g[p] = h[Max(p)][g[p \ {Max(p)}]] /\ p \ {Max(p)} \in SUBSET (1 .. n)
    BY <1>3, <1>5 DEF FoldsSteps
  <2>2. g[p \ {Max(p)}] \in DbType
    BY <1>3, <2>1
  <2>3. QED
    BY <1>4, <2>1, <2>2
<1>6. Is(g)
  <2> HIDE DEF n, h
  <2>1. g[{}] = s
    BY <1>3 DEF FoldsSteps
  <2>2. QED
    BY <1>1, <1>3, <1>5, <2>1
<1>7. Is(f)
  <2> HIDE DEF Is
  <2>1. QED
    BY <1>6
<1>8. IngestTables(s, ns, R, oc) = f[DOMAIN q]
  BY DEF IngestTables, FoldLeft, MapThenFoldSet
<1> HIDE DEF f
<1>9. FoldsIn(f, n, s, h, DbType)
  <2>1. f[{}] = s
    BY <1>7
  <2>2. ASSUME NEW p \in SUBSET (1 .. n), p # {}, f[p \ {Max(p)}] \in DbType
        PROVE  f[p] = h[Max(p)][f[p \ {Max(p)}]]
    <3>1. f[p] = IngestSeq(f[p \ {Max(p)}], ns, R[q[Max(p)]], oc)
      BY <1>1, <1>7, <2>2
    <3>2. Max(p) \in 1 .. n
      <4> HIDE DEF n, h
      <4>1. QED
        BY <1>3, <2>2 DEF FoldsSteps
    <3> HIDE DEF n, h
    <3>3. QED
      BY <1>4, <2>2, <3>1, <3>2
  <2> HIDE DEF n, h
  <2>3. QED
    BY <2>1, <2>2 DEF FoldsIn
<1>10. PICK r : StepsThrough(r, n, s, h, DbType) /\ f[1 .. n] = r[n]
  <2> HIDE DEF n, h, Is
  <2>1. QED
    BY <1>1, <1>2, <1>9, RunOfFold
<1>11. r \in [0 .. n -> DbType] /\ r[0] = s
  <2> HIDE DEF n, h
  <2>1. QED
    BY <1>10 DEF StepsThrough
<1>12. ASSUME NEW k \in 1 .. n
       PROVE  r[k] = IngestSeq(r[k - 1], ns, R[q[k]], oc)
  <2> HIDE DEF n, h
  <2>1. r[k] = h[k][r[k - 1]]
    BY <1>10 DEF StepsThrough
  <2>2. k - 1 \in 0 .. n
    BY <1>1
  <2>3. r[k - 1] \in DbType
    BY <1>11, <2>2
  <2>4. QED
    BY <1>4, <2>1, <2>3
<1>13. IngestTables(s, ns, R, oc) = r[n]
  BY <1>1, <1>8, <1>10
<1>14. TablesRun(r, s, q, ns, R, oc)
  <2> HIDE DEF h, Is
  <2>1. QED
    BY <1>11, <1>12, <1>13 DEF TablesRun
<1>15. QED
  BY <1>14

\* Flushing every table keeps the types.
LEMMA FlushTablesTyped ==
    ASSUME NEW s \in DbType, NEW q \in Seq(Tables), NEW oc \in Outcomes
    PROVE  FlushTables(s, oc, q) \in DbType
<1>1. PICK r : FlushRun(r, s, q, oc)
  BY FlushTablesRun
<1>2. Len(q) \in 0 .. Len(q)
  OBVIOUS
<1>3. QED
  BY <1>1, <1>2 DEF FlushRun

\* Ingesting the rows of every table keeps the types.
LEMMA IngestTablesTyped ==
    ASSUME NEW s \in DbType, NEW ns \in Seq(Rows \cup {Eod}),
           NEW oc \in Outcomes, NEW R \in [Tables -> SUBSET Rows],
           \A t \in Tables : \A m \in R[t] : tpLog[m].tbl \in Tables
    PROVE  IngestTables(s, ns, R, oc) \in DbType
<1>1. PICK r : TablesRun(r, s, TableSeq, ns, R, oc)
  BY IngestTablesRun
<1>2. Len(TableSeq) \in 0 .. Len(TableSeq)
  BY WdbConstants
<1>3. QED
  BY <1>1, <1>2 DEF TablesRun

\* A process that ends loses its memory only.
LEMMA NoMemoryTyped ==
    ASSUME NEW s \in DbType
    PROVE  /\ NoMemory(s) \in DbType
           /\ NoMemory(s).tmp = s.tmp /\ NoMemory(s).hdb = s.hdb
           /\ NoMemory(s).copies = s.copies /\ NoMemory(s).cpFile = s.cpFile
           /\ \A t \in Tables : /\ NoMemory(s).cp[t] = 0 /\ NoMemory(s).bufMax[t] = 0
                                /\ \A n \in Rows : NoMemory(s).buf[t][n] = 0
<1> DEFINE b == [t \in Tables |-> NoRows]
           z == [t \in Tables |-> 0]
<1>1. NoMemory(s) = [s EXCEPT !.buf = b, !.bufMax = z, !.cp = z]
  BY DEF NoMemory
<1>2. b \in [Tables -> [Rows -> Nat]] /\ \A t \in Tables : \A n \in Rows : b[t][n] = 0
  BY DEF NoRows
<1>3. z \in [Tables -> 0 .. MaxLog] /\ \A t \in Tables : z[t] = 0
  BY WdbConstants
<1> HIDE DEF b, z
<1>4. QED
  BY <1>1, <1>2, <1>3 DEF DbType

\* Moving dates to the HDB keeps the types.
LEMMA MoveDatesTyped ==
    ASSUME NEW s \in DbType, NEW failed
    PROVE  LET x == MoveDates(s, failed) IN
           /\ x \in DbType
           /\ x.tmp \cup x.hdb = s.tmp \cup s.hdb
           /\ x.buf = s.buf /\ x.bufMax = s.bufMax /\ x.cp = s.cp
           /\ x.cpFile = s.cpFile /\ x.copies = s.copies
<1> DEFINE m == {n \in s.tmp : /\ tpLog[n].date < today
                               /\ tpLog[n].date \notin failed
                               /\ ~Partition(s, tpLog[n].date)}
           x == MoveDates(s, failed)
<1>1. x = [s EXCEPT !.tmp = s.tmp \ m, !.hdb = s.hdb \cup m]
  BY DEF MoveDates, DbType
<1>2. m \subseteq s.tmp
  OBVIOUS
<1> HIDE DEF m, x
<1>3. s.tmp \subseteq Rows /\ s.hdb \subseteq Rows
  BY DEF DbType
<1>4. s.tmp \ m \in SUBSET Rows /\ s.hdb \cup m \in SUBSET Rows
  BY <1>2, <1>3
<1>5. /\ x \in DbType /\ x.tmp = s.tmp \ m /\ x.hdb = s.hdb \cup m
      /\ x.buf = s.buf /\ x.bufMax = s.bufMax /\ x.cp = s.cp
      /\ x.cpFile = s.cpFile /\ x.copies = s.copies
  BY <1>1, <1>4 DEF DbType
<1>6. x.tmp \cup x.hdb = s.tmp \cup s.hdb
  BY <1>2, <1>5
<1>7. QED
  BY <1>5, <1>6 DEF x

\* Flushing and moving, as a roll does, keeps the types.
LEMMA RollDbTyped ==
    ASSUME NEW s \in DbType, NEW oc \in Outcomes, NEW failed
    PROVE  FlushAll(s, oc) \in DbType /\ RollDb(s, oc, failed) \in DbType
<1>1. FlushAll(s, oc) \in DbType
  BY FlushTablesTyped, WdbConstants DEF FlushAll
<1>2. MoveDates(FlushAll(s, oc), failed) \in DbType
  BY <1>1, MoveDatesTyped
<1>3. QED
  BY <1>1, <1>2 DEF RollDb

-----------------------------------------------------------------------------
(* Types are kept *)

\* TP has logged what it has published, and no more than the bound.
ChanLogged ==
    /\ Len(tpLog) <= MaxLog
    /\ \A i \in DOMAIN chan : chan[i] <= Len(tpLog)

TypeInv == TypeOK /\ ChanLogged

\* A row that TP has logged has a table.
LEMMA LoggedRows ==
    ASSUME TypeOK, Len(tpLog) <= MaxLog
    PROVE  /\ Len(tpLog) \in 0 .. MaxLog /\ DOMAIN tpLog = 1 .. Len(tpLog)
           /\ DOMAIN tpLog \subseteq Rows
           /\ \A n \in DOMAIN tpLog : tpLog[n] \in LogType
           /\ \A n \in DOMAIN tpLog : tpLog[n].tbl \in Tables /\ tpLog[n].date \in Days
<1>1. tpLog \in Seq(LogType)
  BY DEF TypeOK, LogType
<1>2. Len(tpLog) \in 0 .. MaxLog /\ DOMAIN tpLog = 1 .. Len(tpLog)
  BY <1>1, WdbConstants
<1>3. DOMAIN tpLog \subseteq Rows
  BY <1>2, WdbConstants DEF Rows
<1>4. \A n \in DOMAIN tpLog : tpLog[n] \in LogType
  BY <1>1
<1>5. QED
  BY <1>2, <1>3, <1>4 DEF LogType

\* A sequence is a function from 1..n.
LEMMA SeqOfFunction ==
    ASSUME NEW T, NEW n \in Nat, NEW f \in [1 .. n -> T]
    PROVE  f \in Seq(T) /\ Len(f) = n
OBVIOUS

\* What has come and is not yet handled.
LEMMA ChanRows ==
    ASSUME TypeInv, NEW i \in DOMAIN chan
    PROVE  chan[i] \in 0 .. Len(tpLog) /\ (chan[i] # Eod => chan[i] \in DOMAIN tpLog)
<1>1. chan \in Seq(Rows \cup {Eod}) /\ chan[i] <= Len(tpLog)
  BY DEF TypeInv, TypeOK, ChanLogged
<1>2. chan[i] \in Rows \cup {Eod}
  BY <1>1
<1>3. Len(tpLog) \in 0 .. MaxLog /\ DOMAIN tpLog = 1 .. Len(tpLog)
  BY LoggedRows DEF TypeInv, ChanLogged
<1>4. QED
  BY <1>1, <1>2, <1>3 DEF Rows, Eod

\* Merging the rows of the log keeps the types.
LEMMA MergeTyped ==
    ASSUME TypeInv, NEW from, NEW upto, NEW oc \in Outcomes
    PROVE  Merge(from, upto, oc) \in DbType
<1>1. DOMAIN tpLog \subseteq Rows /\ DOMAIN tpLog = 1 .. Len(tpLog) /\ Len(tpLog) \in Nat
  BY LoggedRows, WdbConstants DEF TypeInv, ChanLogged
<1> DEFINE ns == [n \in DOMAIN tpLog |-> n]
           R == [t \in Tables |-> Staged(t, from, upto[t])]
<1>2. ns \in [1 .. Len(tpLog) -> Rows \cup {Eod}]
  BY <1>1
<1>3. ns \in Seq(Rows \cup {Eod})
  <2> DEFINE l == Len(tpLog)
             T == Rows \cup {Eod}
  <2> HIDE DEF l, T, ns
  <2>1. QED
    BY <1>1, <1>2, SeqOfFunction DEF l, T
<1>4. \A t \in Tables : Staged(t, from, upto[t]) \subseteq DOMAIN tpLog
  BY DEF Staged, RowsOf
<1>5. R \in [Tables -> SUBSET Rows]
  BY <1>1, <1>4
<1>6. \A t \in Tables : \A m \in R[t] : tpLog[m].tbl \in Tables
  BY <1>4, LoggedRows DEF TypeInv, ChanLogged
<1>7. db \in DbType
  BY DEF TypeInv, TypeOK
<1>8. Merge(from, upto, oc) = IngestTables(db, ns, R, oc)
  BY DEF Merge
<1> HIDE DEF ns, R
<1>9. QED
  BY <1>3, <1>5, <1>6, <1>7, <1>8, IngestTablesTyped

\* Draining the live buffer keeps the types.
LEMMA DrainTyped ==
    ASSUME TypeInv, NEW s \in DbType, NEW k \in 0 .. Len(chan), NEW oc \in Outcomes
    PROVE  Drain(s, k, oc) \in DbType
<1>1. DOMAIN tpLog \subseteq Rows
  BY LoggedRows DEF TypeInv, ChanLogged
<1> DEFINE ns == SubSeq(chan, 1, k)
           R == [t \in Tables |-> {n \in RowsOf(t) : n > info.cutoff}]
           T == Rows \cup {Eod}
<1>2. chan \in Seq(T)
  BY DEF TypeInv, TypeOK
<1>3. ns \in Seq(T)
  <2> HIDE DEF T
  <2>1. QED
    BY <1>2, PrefixSeq
<1>4. R \in [Tables -> SUBSET Rows]
  BY <1>1 DEF RowsOf
<1>5. \A t \in Tables : \A m \in R[t] : tpLog[m].tbl \in Tables
  BY LoggedRows DEF TypeInv, ChanLogged, RowsOf
<1>6. Drain(s, k, oc) = IngestTables(s, ns, R, oc)
  BY DEF Drain
<1> HIDE DEF ns, R
<1>7. QED
  BY <1>3, <1>4, <1>5, <1>6, IngestTablesTyped

\* One more fault of some kinds.
FaultsTyped(fs) == \A f \in FaultKinds : fs[f] \in 0 .. MaxFaults[f]

\* A fault that happens is taken off the budget of its kind.
LEMMA FaultsKeepType ==
    ASSUME FaultsTyped(faults), NEW fs, Faults(fs)
    PROVE  FaultsTyped(faults')
<1>1. ASSUME NEW f \in FaultKinds
      PROVE  faults'[f] \in 0 .. MaxFaults[f]
  <2>1. faults[f] \in 0 .. MaxFaults[f] /\ MaxFaults[f] \in Nat
    BY WdbConstants DEF FaultsTyped
  <2>2. faults'[f] = IF f \in fs THEN faults[f] + 1 ELSE faults[f]
    BY DEF Faults
  <2>3. CASE f \in fs
    <3>1. faults[f] < MaxFaults[f]
      BY <2>3 DEF Faults
    <3>2. QED
      BY <2>1, <2>2, <2>3, <3>1
  <2>4. QED
    BY <2>1, <2>2, <2>3
<1>2. QED
  BY <1>1 DEF FaultsTyped

\* The rows on disk at the start are logged ones, one for each table.
LEMMA SeedIs ==
    /\ SeedRows \subseteq Rows /\ SeedRows \subseteq DOMAIN TableSeq
    /\ \E n \in Nat : SeedRows = 1 .. n /\ n <= MaxLog
    /\ Seeded => \A t \in Tables : \E n \in SeedRows : TableSeq[n] = t
<1>1. /\ TableSeq \in Seq(Tables) /\ Len(TableSeq) \in Nat /\ Len(TableSeq) <= MaxLog
      /\ DOMAIN TableSeq = 1 .. Len(TableSeq)
  BY WdbAssumption
<1>2. 1 .. Len(TableSeq) \subseteq Rows
  BY <1>1, WdbConstants DEF Rows
<1>3. {} = 1 .. 0
  OBVIOUS
<1>4. \A t \in Tables : \E n \in DOMAIN TableSeq : TableSeq[n] = t
  BY DEF Tables, Range
<1>5. \E n \in Nat : SeedRows = 1 .. n /\ n <= MaxLog
  <2>1. CASE Seeded
    BY <1>1, <2>1 DEF SeedRows
  <2>2. CASE ~Seeded
    <3>1. SeedRows = 1 .. 0 /\ 0 \in Nat /\ 0 <= MaxLog
      BY <1>3, <2>2, WdbConstants DEF SeedRows
    <3>2. QED
      BY <3>1
  <2>3. QED
    BY <2>1, <2>2
<1>6. QED
  BY <1>1, <1>2, <1>4, <1>5 DEF SeedRows

\* The log at the start: one row of each table, or none.
LEMMA InitLog ==
    ASSUME Init
    PROVE  /\ tpLog \in Seq(LogType) /\ DOMAIN tpLog = SeedRows /\ Len(tpLog) <= MaxLog
           /\ \A n \in SeedRows : tpLog[n].tbl = TableSeq[n] /\ tpLog[n].date = 0
<1>1. PICK k \in Nat : SeedRows = 1 .. k /\ k <= MaxLog
  BY SeedIs
<1>2. tpLog = [n \in SeedRows |-> [tbl |-> TableSeq[n], date |-> 0, day |-> 0]]
  BY DEF Init
<1>3. 0 \in Days
  BY WdbConstants DEF Days
<1>4. ASSUME NEW n \in SeedRows
      PROVE  [tbl |-> TableSeq[n], date |-> 0, day |-> 0] \in LogType
  BY <1>3, SeedIs, WdbConstants DEF LogType
<1>5. tpLog \in [1 .. k -> LogType]
  BY <1>1, <1>2, <1>4
<1>6. tpLog \in Seq(LogType) /\ Len(tpLog) = k
  BY <1>5, SeqOfFunction
<1>7. QED
  BY <1>1, <1>2, <1>6

\* The state of WDB before its first start is typed.
LEMMA InitDb ==
    ASSUME Init
    PROVE  /\ db \in DbType /\ db.tmp = SeedRows /\ db.hdb = {}
           /\ \A t \in Tables : /\ db.cp[t] = 0 /\ db.bufMax[t] = 0
                                /\ \A n \in Rows : db.buf[t][n] = 0
                                /\ Seeded => /\ db.cpFile[t] \in SeedRows
                                             /\ TableSeq[db.cpFile[t]] = t
                                /\ ~Seeded => db.cpFile[t] = 0
           /\ \A n \in Rows : db.copies[n] = IF n \in SeedRows THEN 1 ELSE 0
<1> DEFINE c == [t \in Tables |-> IF Seeded THEN CHOOSE n \in SeedRows : TableSeq[n] = t ELSE 0]
           z == [t \in Tables |-> 0]
           b == [t \in Tables |-> NoRows]
           w == [n \in Rows |-> IF n \in SeedRows THEN 1 ELSE 0]
<1>1. db = [buf |-> b, bufMax |-> z, cp |-> z, cpFile |-> c, tmp |-> SeedRows, hdb |-> {}, copies |-> w]
  BY DEF Init
<1>2. ASSUME NEW t \in Tables
      PROVE  /\ Seeded => c[t] \in SeedRows /\ TableSeq[c[t]] = t
             /\ ~Seeded => c[t] = 0
  BY SeedIs
<1>3. Rows \subseteq 0 .. MaxLog /\ 0 \in 0 .. MaxLog
  BY WdbConstants DEF Rows
<1>4. SeedRows \subseteq Rows
  BY SeedIs
<1>5. c \in [Tables -> 0 .. MaxLog]
  BY <1>2, <1>3, <1>4
<1>6. z \in [Tables -> 0 .. MaxLog] /\ \A t \in Tables : z[t] = 0
  BY <1>3
<1>7. b \in [Tables -> [Rows -> Nat]] /\ \A t \in Tables : \A n \in Rows : b[t][n] = 0
  BY DEF NoRows
<1>8. w \in [Rows -> Nat] /\ \A n \in Rows : w[n] = IF n \in SeedRows THEN 1 ELSE 0
  OBVIOUS
<1> HIDE DEF c, z, b, w
<1>9. QED
  BY <1>1, <1>2, <1>4, <1>5, <1>6, <1>7, <1>8 DEF DbType

\* The initial states are typed.
LEMMA InitTyped ==
    Init => TypeInv
<1> SUFFICES ASSUME Init PROVE TypeInv
  OBVIOUS
<1>1. 0 \in Days /\ 0 \in 0 .. MaxLog /\ \A f \in FaultKinds : 0 \in 0 .. MaxFaults[f]
  BY WdbConstants DEF Days
<1>2. NoInfo \in [cutoff : 0 .. MaxLog, firstTp : [Tables -> 0 .. MaxLog]]
  BY <1>1 DEF NoInfo, NoSeq
<1>3. chan = <<>> /\ <<>> \in Seq(Rows \cup {Eod})
  BY DEF Init
<1>4. DOMAIN chan = {}
  BY <1>3
<1>5. \A f \in FaultKinds : faults[f] \in 0 .. MaxFaults[f]
  BY <1>1 DEF Init
<1>6. "down" \in ConnStates
  BY DEF ConnStates
<1>7. TypeOK
  BY <1>1, <1>2, <1>3, <1>5, <1>6, InitLog, InitDb DEF Init, TypeOK, LogType
<1>8. QED
  BY <1>4, <1>7, InitLog DEF TypeInv, ChanLogged

\* TypeInv in the next state from its parts.
LEMMA TypeParts ==
    ASSUME /\ (tpLog \in Seq(LogType))' /\ (Len(tpLog) <= MaxLog)'
           /\ (today \in Days /\ tpDay \in Days)'
           /\ (conn \in ConnStates)'
           /\ (chan \in Seq(Rows \cup {Eod}))'
           /\ (\A i \in DOMAIN chan : chan[i] <= Len(tpLog))'
           /\ (info \in [cutoff : 0 .. MaxLog, firstTp : [Tables -> 0 .. MaxLog]])'
           /\ (up \in BOOLEAN)'
           /\ (db \in DbType)'
           /\ (currentDate \in Days /\ rollDue \in BOOLEAN /\ startupRollDone \in BOOLEAN)'
           /\ FaultsTyped(faults')
    PROVE  TypeInv'
BY DEF TypeInv, TypeOK, ChanLogged, LogType, FaultsTyped

\* What the steps use of the type invariant.
LEMMA TypeFacts ==
    ASSUME TypeInv
    PROVE  /\ tpLog \in Seq(LogType) /\ Len(tpLog) <= MaxLog
           /\ today \in Days /\ tpDay \in Days
           /\ conn \in ConnStates
           /\ chan \in Seq(Rows \cup {Eod})
           /\ \A i \in DOMAIN chan : chan[i] <= Len(tpLog)
           /\ info \in [cutoff : 0 .. MaxLog, firstTp : [Tables -> 0 .. MaxLog]]
           /\ up \in BOOLEAN
           /\ db \in DbType
           /\ currentDate \in Days /\ rollDue \in BOOLEAN /\ startupRollDone \in BOOLEAN
           /\ FaultsTyped(faults)
BY DEF TypeInv, TypeOK, ChanLogged, LogType, FaultsTyped

\* A message is published behind the others.
LEMMA PublishTyped ==
    ASSUME NEW q \in Seq(Rows \cup {Eod}), NEW m \in Rows \cup {Eod}, NEW k \in Nat, NEW l \in Nat,
           \A i \in DOMAIN q : q[i] <= k, k <= l, m <= l
    PROVE  Append(q, m) \in Seq(Rows \cup {Eod}) /\ \A i \in DOMAIN Append(q, m) : Append(q, m)[i] <= l
<1> DEFINE T == Rows \cup {Eod}
           n == Len(q)
           a == Append(q, m)
<1>1. n \in Nat /\ DOMAIN q = 1 .. n /\ \A i \in DOMAIN q : q[i] \in Nat
  BY WdbConstants DEF Rows, Eod
<1>2. m \in T /\ q \in Seq(T)
  OBVIOUS
<1> HIDE DEF T
<1>3. /\ a \in Seq(T) /\ Len(a) = n + 1
      /\ \A i \in 1 .. n : a[i] = q[i]
      /\ a[n + 1] = m
  BY <1>2, AppendSeq
<1>4. DOMAIN a = 1 .. n + 1
  BY <1>1, <1>3
<1> HIDE DEF n, a
<1>5. ASSUME NEW i \in 1 .. n + 1
      PROVE  a[i] <= l
  <2>1. CASE i \in 1 .. n
    BY <1>1, <1>3, <2>1
  <2>2. CASE i = n + 1
    BY <1>3, <2>2
  <2>3. QED
    BY <1>1, <2>1, <2>2
<1>6. QED
  BY <1>3, <1>4, <1>5 DEF a, T

\* Logging a row keeps the types.
LEMMA TpLogTyped ==
    ASSUME TypeInv, NEW t \in Tables, NEW d \in Days, TpLog(t, d)
    PROVE  TypeInv'
<1> DEFINE row == [tbl |-> t, date |-> d, day |-> tpDay]
           n == Len(tpLog)
<1>1. row \in LogType
  BY TypeFacts DEF LogType
<1>2. tpLog \in Seq(LogType) /\ tpLog' = Append(tpLog, row) /\ n \in Nat /\ n < MaxLog
  BY TypeFacts DEF TpLog
<1>3. chan' = IF conn = "down" THEN chan ELSE Append(chan, n + 1)
  BY DEF TpLog
<1>4. UNCHANGED <<today, tpDay, conn, info, up, db, rollVars, faults>>
  BY DEF TpLog
<1> HIDE DEF row
<1>5. tpLog' \in Seq(LogType) /\ Len(tpLog') = n + 1
  BY <1>1, <1>2, AppendSeq
<1>6. n + 1 \in Rows /\ n + 1 \in Rows \cup {Eod} /\ n + 1 \in Nat
  BY <1>2, WdbConstants DEF Rows
<1>7. chan \in Seq(Rows \cup {Eod}) /\ \A i \in DOMAIN chan : chan[i] <= n
  BY TypeFacts
<1>8. \A i \in DOMAIN chan : chan[i] \in Nat
  BY <1>7, WdbConstants DEF Rows, Eod
<1> HIDE DEF n
<1>9. chan' \in Seq(Rows \cup {Eod}) /\ \A i \in DOMAIN chan' : chan'[i] <= n + 1
  <2>1. CASE conn = "down"
    BY <1>2, <1>3, <1>7, <1>8, <2>1
  <2>2. CASE conn # "down"
    <3>1. chan' = Append(chan, n + 1)
      BY <1>3, <2>2
    <3>2. n + 1 \in Nat /\ n <= n + 1 /\ n + 1 <= n + 1
      BY <1>2
    <3>3. QED
      BY <1>2, <1>6, <1>7, <3>1, <3>2, PublishTyped
  <2>3. QED
    BY <2>1, <2>2
<1>10. Len(tpLog') <= MaxLog
  BY <1>2, <1>5, WdbConstants
<1>11. QED
  BY <1>4, <1>5, <1>9, <1>10, TypeFacts, TypeParts DEF rollVars

\* The first row of the day that TP tells a subscriber of is a row or none.
LEMMA FirstTpTyped ==
    ASSUME TypeInv, NEW t \in Tables
    PROVE  FirstTp(t) \in 0 .. MaxLog
<1> DEFINE ns == {n \in RowsOf(t) : tpLog[n].day = tpDay}
<1>1. FirstTp(t) = IF t \in EventTables \/ ns = {} THEN NoSeq ELSE Min(ns)
  BY DEF FirstTp
<1>2. ns \subseteq Rows
  BY LoggedRows DEF TypeInv, ChanLogged, RowsOf
<1> HIDE DEF ns
<1>3. ns \subseteq Nat /\ Rows \subseteq 0 .. MaxLog /\ 0 \in 0 .. MaxLog
  BY <1>2, WdbConstants DEF Rows
<1>4. ns # {} => Min(ns) \in ns
  BY <1>3, MinOfSet
<1>5. QED
  BY <1>1, <1>2, <1>3, <1>4 DEF NoSeq

\* A connection starts with no message on it.
LEMMA EmptyChan ==
    /\ <<>> \in Seq(Rows \cup {Eod})
    /\ DOMAIN <<>> = {}
OBVIOUS

\* The checkpoint that a start arrives at, and the last row on disk.
LEMMA StartTyped ==
    ASSUME TypeInv, NEW t \in Tables
    PROVE  Reconciled(t) \in 0 .. MaxLog /\ DiskMax(db, t) \in 0 .. MaxLog
<1>1. db.cpFile[t] \in 0 .. MaxLog /\ db.tmp \subseteq Rows
  BY TypeFacts DEF DbType
<1> DEFINE S == {n \in db.tmp : tpLog[n].tbl = t} \cup {0}
<1>2. S \subseteq 0 .. MaxLog /\ S # {} /\ MaxLog \in Nat
  BY <1>1, WdbConstants DEF Rows
<1>3. DiskMax(db, t) = Max(S)
  BY DEF DiskMax
<1> HIDE DEF S
<1>4. S \subseteq Nat /\ \A n \in S : n <= MaxLog
  BY <1>2
<1>5. Max(S) \in S
  BY <1>2, <1>4, MaxOfSet
<1>6. DiskMax(db, t) \in 0 .. MaxLog
  BY <1>2, <1>3, <1>5
<1>7. Reconciled(t) = IF db.cpFile[t] >= DiskMax(db, t) THEN db.cpFile[t] ELSE DiskMax(db, t)
  BY <1>1, <1>2, <1>6, MaxOfTwo DEF Reconciled, LoadedCheckpoint
<1>8. QED
  BY <1>1, <1>6, <1>7

\* A start raises its checkpoint to the rows of the temporary partitions, and
\* saves it unless the save fails.
LEMMA StartDoes ==
    ASSUME TypeInv, Start
    PROVE  /\ db' \in DbType
           /\ db'.buf = db.buf /\ db'.bufMax = db.bufMax /\ db'.tmp = db.tmp
           /\ db'.hdb = db.hdb /\ db'.copies = db.copies
           /\ \A t \in Tables : db'.cp[t] = Reconciled(t)
           /\ \/ db'.cpFile = db'.cp /\ faults' = faults
              \/ db'.cpFile = db.cpFile /\ Fault("save")
<1> DEFINE c == [t \in Tables |-> Reconciled(t)]
           x == [db EXCEPT !.cp = c]
<1>1. c \in [Tables -> 0 .. MaxLog] /\ \A t \in Tables : c[t] = Reconciled(t)
  BY StartTyped
<1>2. \/ db' = SaveCheckpoint(x, TRUE) /\ UNCHANGED faults
      \/ db' = SaveCheckpoint(x, FALSE) /\ Fault("save")
  BY DEF Start
<1> HIDE DEF c, x
<1>3. /\ x \in DbType /\ x.cp = c /\ x.cpFile = db.cpFile
      /\ x.buf = db.buf /\ x.bufMax = db.bufMax /\ x.tmp = db.tmp
      /\ x.hdb = db.hdb /\ x.copies = db.copies
  BY <1>1, TypeFacts DEF DbType, x
<1>4. /\ SaveCheckpoint(x, FALSE) = x
      /\ SaveCheckpoint(x, TRUE) = [x EXCEPT !.cpFile = x.cp]
  BY DEF SaveCheckpoint
<1> DEFINE y == [x EXCEPT !.cpFile = x.cp]
<1>5. /\ y \in DbType /\ y.cp = c /\ y.cpFile = c
      /\ y.buf = db.buf /\ y.bufMax = db.bufMax /\ y.tmp = db.tmp
      /\ y.hdb = db.hdb /\ y.copies = db.copies
  BY <1>1, <1>3 DEF DbType
<1> HIDE DEF y
<1>6. CASE db' = y /\ UNCHANGED faults
  BY <1>1, <1>5, <1>6
<1>7. CASE db' = x /\ Fault("save")
  BY <1>1, <1>3, <1>7
<1>8. QED
  BY <1>2, <1>4, <1>6, <1>7 DEF y

\* What Replay, Roll and the kills make of the database is a database.
LEMMA ReplayTyped ==
    ASSUME TypeInv, Replay
    PROVE  db' \in DbType /\ (\E oc \in Outcomes : Charge(oc))
<1>1. PICK from \in ReadFrom : \E k \in 0 .. Len(chan), oc \in Outcomes :
        /\ Charge(oc)
        /\ LET replayed == Drain(Merge(from, ToCutoff, oc), k, oc) IN
           db' = IF startupRollDone THEN replayed ELSE RollDb(replayed, oc, {})
  BY DEF Replay
<1>2. PICK k \in 0 .. Len(chan), oc \in Outcomes :
        /\ Charge(oc)
        /\ LET replayed == Drain(Merge(from, ToCutoff, oc), k, oc) IN
           db' = IF startupRollDone THEN replayed ELSE RollDb(replayed, oc, {})
  BY <1>1
<1>3. Drain(Merge(from, ToCutoff, oc), k, oc) \in DbType
  BY MergeTyped, DrainTyped
<1>4. QED
  BY <1>2, <1>3, RollDbTyped

\* Nothing going wrong is one of the outcomes.
LEMMA AllWellOutcome ==
    AllWell \in Outcomes
BY DEF Outcomes

\* A roll keeps the types.
LEMMA RollTyped ==
    ASSUME TypeInv, Roll
    PROVE  db' \in DbType /\ FaultsTyped(faults')
<1>1. FaultsTyped(faults) /\ db \in DbType
  BY TypeFacts
<1>2. CASE \E oc \in Outcomes : Charge(oc) /\ db' = RollDb(db, oc, {})
  BY <1>1, <1>2, RollDbTyped, FaultsKeepType DEF Charge
<1>3. CASE Fault("roll") /\ \E failed \in SUBSET Days : db' = RollDb(db, AllWell, failed)
  BY <1>1, <1>3, RollDbTyped, FaultsKeepType, AllWellOutcome DEF Fault
<1>4. QED
  BY <1>2, <1>3 DEF Roll

\* The database in a flush, as FlushKilled finds it.
LEMMA FlushingTyped ==
    ASSUME TypeInv, NEW i \in DOMAIN TableSeq, NEW s \in Flushing(i)
    PROVE  s \in DbType
<1>1. TableSeq \in Seq(Tables) /\ i \in 1 .. Len(TableSeq) /\ db \in DbType
  BY WdbConstants, TypeFacts
<1>2. SubSeq(TableSeq, 1, i - 1) \in Seq(Tables)
  <2>1. i - 1 \in 0 .. Len(TableSeq)
    BY <1>1
  <2>2. QED
    BY <1>1, <2>1, PrefixSeq
<1>3. FlushTables(db, AllWell, SubSeq(TableSeq, 1, i - 1)) \in DbType
  BY <1>1, <1>2, AllWellOutcome, FlushTablesTyped
<1>4. ASSUME chan # <<>>, Head(chan) # Eod
      PROVE  Accept(db, Head(chan)) \in DbType
  <2>1. Head(chan) = chan[1] /\ 1 \in DOMAIN chan
    BY <1>4, TypeFacts
  <2>2. Head(chan) \in DOMAIN tpLog
    BY <1>4, <2>1, ChanRows
  <2>3. Head(chan) \in Rows /\ tpLog[Head(chan)].tbl \in Tables
    BY <2>2, LoggedRows DEF TypeInv, ChanLogged
  <2>4. QED
    BY <1>1, <2>3, AcceptDoes DEF Accepted
<1>5. QED
  BY <1>3, <1>4 DEF Flushing

\* A kill or a shutdown keeps the types.
LEMMA GoneTyped ==
    ASSUME TypeInv, Gone, db' \in DbType, FaultsTyped(faults')
    PROVE  TypeInv'
<1>1. /\ up' = FALSE /\ conn' = "down" /\ chan' = <<>> /\ info' = NoInfo
      /\ UNCHANGED <<tpLog, today, tpDay, currentDate, rollDue, startupRollDone>>
  BY DEF Gone, tpVars, rollVars
<1>2. conn' \in ConnStates
  BY <1>1 DEF ConnStates
<1>3. info' \in [cutoff : 0 .. MaxLog, firstTp : [Tables -> 0 .. MaxLog]]
  BY <1>1, WdbConstants DEF NoInfo, NoSeq
<1>4. chan' \in Seq(Rows \cup {Eod}) /\ \A i \in DOMAIN chan' : chan'[i] <= Len(tpLog')
  BY <1>1, EmptyChan
<1>5. QED
  BY <1>1, <1>2, <1>3, <1>4, TypeFacts, TypeParts

\* Every step keeps the types.
LEMMA NextTyped ==
    ASSUME TypeInv, [Next]_vars
    PROVE  TypeInv'
<1>1. /\ tpLog \in Seq(LogType) /\ Len(tpLog) <= MaxLog
      /\ today \in Days /\ tpDay \in Days /\ conn \in ConnStates
      /\ chan \in Seq(Rows \cup {Eod}) /\ \A i \in DOMAIN chan : chan[i] <= Len(tpLog)
      /\ info \in [cutoff : 0 .. MaxLog, firstTp : [Tables -> 0 .. MaxLog]]
      /\ up \in BOOLEAN /\ db \in DbType
      /\ currentDate \in Days /\ rollDue \in BOOLEAN /\ startupRollDone \in BOOLEAN
      /\ FaultsTyped(faults)
  BY TypeFacts
<1>2. Len(tpLog) \in 0 .. MaxLog /\ Len(tpLog) \in Nat
  BY LoggedRows, WdbConstants DEF TypeInv, ChanLogged
<1>3. ASSUME NEW t \in Tables, NEW d \in Days, TpLog(t, d)
      PROVE  TypeInv'
  BY <1>3, TpLogTyped
<1>4. CASE Midnight
  <2>1. today' \in Days
    BY <1>1, <1>4, WdbConstants DEF Midnight, Days
  <2>2. QED
    BY <1>1, <1>4, <2>1, TypeParts DEF Midnight, connVars, rollVars
<1>5. CASE TpEndOfDay
  <2>1. chan' \in Seq(Rows \cup {Eod}) /\ \A i \in DOMAIN chan' : chan'[i] <= Len(tpLog)
    <3>1. CASE conn = "down"
      BY <1>1, <1>5, <3>1 DEF TpEndOfDay
    <3>2. CASE conn # "down"
      <4>1. chan' = Append(chan, Eod)
        BY <1>5, <3>2 DEF TpEndOfDay
      <4>2. Eod \in Rows \cup {Eod} /\ Eod <= Len(tpLog) /\ Len(tpLog) <= Len(tpLog)
        BY <1>2 DEF Eod
      <4>3. QED
        BY <1>1, <1>2, <4>1, <4>2, PublishTyped
    <3>3. QED
      BY <3>1, <3>2
  <2>2. QED
    BY <1>1, <1>5, <2>1, TypeParts DEF TpEndOfDay, rollVars
<1>6. CASE Subscribe
  <2>1. conn' \in ConnStates /\ chan' = <<>>
    BY <1>6 DEF Subscribe, ConnStates
  <2>2. QED
    BY <1>1, <1>6, <2>1, EmptyChan, TypeParts DEF Subscribe, tpVars, rollVars
<1>7. CASE AskReplay
  <2>1. conn' \in ConnStates
    BY <1>7 DEF AskReplay, ConnStates
  <2>2. info' \in [cutoff : 0 .. MaxLog, firstTp : [Tables -> 0 .. MaxLog]]
    BY <1>2, <1>7, FirstTpTyped DEF AskReplay, ReplayInfo
  <2>3. QED
    BY <1>1, <1>7, <2>1, <2>2, TypeParts DEF AskReplay, tpVars, rollVars
<1>8. CASE Replay
  <2>1. db' \in DbType /\ FaultsTyped(faults')
    BY <1>1, <1>8, ReplayTyped, FaultsKeepType DEF Charge
  <2>2. PICK k \in 0 .. Len(chan) :
          /\ chan' = SubSeq(chan, k + 1, Len(chan))
          /\ rollDue' = (rollDue \/ \E i \in 1 .. k : chan[i] = Eod)
    BY <1>8 DEF Replay
  <2>3. chan' \in Seq(Rows \cup {Eod}) /\ \A i \in DOMAIN chan' : chan'[i] <= Len(tpLog)
    <3> DEFINE T == Rows \cup {Eod}
               n == Len(chan)
    <3>1. chan \in Seq(T) /\ n \in Nat /\ DOMAIN chan = 1 .. n
      BY <1>1
    <3> HIDE DEF T
    <3>2. /\ chan' \in Seq(T) /\ Len(chan') = n - k
          /\ \A i \in 1 .. n - k : chan'[i] = chan[k + i]
      BY <2>2, <3>1, SuffixSeq
    <3>3. DOMAIN chan' = 1 .. n - k
      BY <3>2
    <3> HIDE DEF n
    <3>4. ASSUME NEW i \in 1 .. n - k
          PROVE  chan'[i] <= Len(tpLog)
      <4>1. k + i \in 1 .. n
        BY <2>2, <3>1 DEF n
      <4>2. QED
        BY <1>1, <3>1, <3>2, <4>1
    <3>5. QED
      BY <3>2, <3>3, <3>4 DEF T
  <2>4. rollDue' \in BOOLEAN /\ startupRollDone' \in BOOLEAN /\ conn' \in ConnStates
    BY <1>8, <2>2 DEF Replay, ConnStates
  <2>5. UNCHANGED <<tpLog, today, tpDay, info, up, currentDate>>
    BY <1>8 DEF Replay, tpVars
  <2>6. QED
    BY <1>1, <2>1, <2>3, <2>4, <2>5, TypeParts
<1>9. CASE ReplayFails \/ Disconnect
  <2>1. conn' \in ConnStates /\ chan' = <<>> /\ FaultsTyped(faults')
    BY <1>1, <1>9, FaultsKeepType DEF ReplayFails, Disconnect, ConnStates, Fault
  <2>2. QED
    BY <1>1, <1>9, <2>1, EmptyChan, TypeParts DEF ReplayFails, Disconnect, tpVars, rollVars
<1>10. CASE Deliver
  <2>1. chan # <<>> /\ chan' = Tail(chan)
    BY <1>10 DEF Deliver
  <2>2. chan' \in Seq(Rows \cup {Eod}) /\ \A i \in DOMAIN chan' : chan'[i] <= Len(tpLog)
    <3> DEFINE T == Rows \cup {Eod}
               n == Len(chan)
    <3>1. chan \in Seq(T) /\ n \in Nat /\ DOMAIN chan = 1 .. n
      BY <1>1
    <3> HIDE DEF T
    <3>2. /\ chan' \in Seq(T) /\ Len(chan') = n - 1 /\ n >= 1
          /\ \A i \in 1 .. n - 1 : chan'[i] = chan[i + 1]
      BY <2>1, <3>1, TailSeq
    <3>3. DOMAIN chan' = 1 .. n - 1
      BY <3>2
    <3> HIDE DEF n
    <3>4. ASSUME NEW i \in 1 .. n - 1
          PROVE  chan'[i] <= Len(tpLog)
      <4>1. i + 1 \in 1 .. n
        BY <3>1
      <4>2. QED
        BY <1>1, <3>1, <3>2, <4>1
    <3>5. QED
      BY <3>2, <3>3, <3>4 DEF T
  <2>3. CASE Head(chan) = Eod
    BY <1>1, <1>10, <2>2, <2>3, TypeParts DEF Deliver, tpVars
  <2>4. CASE Head(chan) # Eod
    <3>1. Head(chan) = chan[1] /\ 1 \in DOMAIN chan
      BY <1>1, <2>1
    <3>2. Head(chan) \in DOMAIN tpLog
      BY <2>4, <3>1, ChanRows
    <3>3. Head(chan) \in Rows /\ tpLog[Head(chan)].tbl \in Tables
      BY <3>2, LoggedRows DEF TypeInv, ChanLogged
    <3>4. PICK oc \in Outcomes : Charge(oc) /\ db' = Ingest(db, Head(chan), oc)
      BY <1>10, <2>4 DEF Deliver
    <3>5. db' \in DbType /\ FaultsTyped(faults')
      BY <1>1, <3>3, <3>4, IngestTyped, FaultsKeepType DEF Charge
    <3>6. UNCHANGED <<tpLog, today, tpDay, conn, info, up, currentDate, startupRollDone, rollDue>>
      BY <1>10, <2>4 DEF Deliver, tpVars
    <3>7. QED
      BY <1>1, <2>2, <3>5, <3>6, TypeParts
  <2>5. QED
    BY <2>3, <2>4
<1>11. CASE DateAdvanced
  BY <1>1, <1>11, TypeParts DEF DateAdvanced, tpVars, connVars
<1>12. CASE ClockRoll \/ FallbackRoll
  <2>1. db' \in DbType /\ FaultsTyped(faults')
    BY <1>12, RollTyped DEF ClockRoll, FallbackRoll
  <2>2. rollDue' \in BOOLEAN /\ startupRollDone' \in BOOLEAN
    BY <1>1, <1>12 DEF ClockRoll, FallbackRoll
  <2>3. UNCHANGED <<tpLog, today, tpDay, conn, chan, info, up, currentDate>>
    BY <1>12 DEF ClockRoll, FallbackRoll, tpVars, connVars
  <2>4. QED
    BY <1>1, <2>1, <2>2, <2>3, TypeParts
<1>13. CASE ManualFlush
  <2>1. db' \in DbType /\ FaultsTyped(faults')
    BY <1>1, <1>13, RollDbTyped, FaultsKeepType DEF ManualFlush, Charge
  <2>2. UNCHANGED <<tpLog, today, tpDay, conn, chan, info, up, currentDate, rollDue, startupRollDone>>
    BY <1>13 DEF ManualFlush, tpVars, connVars, rollVars
  <2>3. QED
    BY <1>1, <2>1, <2>2, TypeParts
<1>14. CASE Shutdown
  <2>1. PICK oc \in Outcomes : Faults({"stop"} \cup Cost(oc)) /\ db' = NoMemory(FlushAll(db, oc))
    BY <1>14 DEF Shutdown
  <2>2. db' \in DbType /\ FaultsTyped(faults')
    BY <1>1, <2>1, RollDbTyped, NoMemoryTyped, FaultsKeepType
  <2>3. QED
    BY <1>14, <2>2, GoneTyped DEF Shutdown
<1>15. CASE Killed
  <2>1. db' \in DbType /\ FaultsTyped(faults')
    BY <1>1, <1>15, NoMemoryTyped, FaultsKeepType DEF Killed, Fault
  <2>2. QED
    BY <1>15, <2>1, GoneTyped DEF Killed
<1>16. CASE FlushKilled
  <2>1. PICK i \in DOMAIN TableSeq, k \in 1 .. MaxDay + 1 : \E s \in Flushing(i) :
           db' = NoMemory(WriteRows(s, TableSeq[i], OfFirstDates(s, TableSeq[i], k)))
    BY <1>16 DEF FlushKilled
  <2>2. PICK s \in Flushing(i) :
           db' = NoMemory(WriteRows(s, TableSeq[i], OfFirstDates(s, TableSeq[i], k)))
    BY <2>1
  <2>3. s \in DbType /\ TableSeq[i] \in Tables
    BY FlushingTyped, WdbConstants
  <2>4. OfFirstDates(s, TableSeq[i], k) \in SUBSET Rows
    BY FlushSets
  <2>5. db' \in DbType
    BY <2>2, <2>3, <2>4, WriteRowsTyped, NoMemoryTyped
  <2>6. FaultsTyped(faults')
    BY <1>1, <1>16, FaultsKeepType DEF FlushKilled, Fault
  <2>7. QED
    BY <1>16, <2>5, <2>6, GoneTyped DEF FlushKilled
<1>17. CASE RollKilled
  <2>1. db' \in DbType /\ FaultsTyped(faults')
    BY <1>1, <1>17, RollDbTyped, NoMemoryTyped, FaultsKeepType, AllWellOutcome DEF RollKilled, Fault
  <2>2. QED
    BY <1>17, <2>1, GoneTyped DEF RollKilled
<1>18. CASE ReplayKilled
  <2>1. \E from, upto : db' = NoMemory(Merge(from, upto, AllWell))
    BY <1>18 DEF ReplayKilled
  <2>2. db' \in DbType
    BY <2>1, MergeTyped, NoMemoryTyped, AllWellOutcome
  <2>3. FaultsTyped(faults')
    BY <1>1, <1>18, FaultsKeepType DEF ReplayKilled, Fault
  <2>4. QED
    BY <1>18, <2>2, <2>3, GoneTyped DEF ReplayKilled
<1>19. CASE Start
  <2>1. db' \in DbType /\ FaultsTyped(faults')
    BY <1>1, <1>19, StartDoes, FaultsKeepType DEF Fault
  <2>2. UNCHANGED <<tpLog, today, tpDay, conn, chan, info>>
    BY <1>19 DEF Start, tpVars, connVars
  <2>3. up' \in BOOLEAN /\ currentDate' \in Days /\ rollDue' \in BOOLEAN /\ startupRollDone' \in BOOLEAN
    BY <1>1, <1>19 DEF Start
  <2>4. QED
    BY <1>1, <2>1, <2>2, <2>3, TypeParts
<1>20. CASE UNCHANGED vars
  BY <1>1, <1>20, TypeParts DEF vars, tpVars, connVars, rollVars
<1>21. QED
  BY <1>3, <1>4, <1>5, <1>6, <1>7, <1>8, <1>9, <1>10, <1>11, <1>12, <1>13, <1>14, <1>15, <1>16,
     <1>17, <1>18, <1>19, <1>20 DEF Next

\* The state keeps its types: buffers, checkpoints and partitions hold rows of
\* the log, whatever is replayed, flushed, rolled or killed.
THEOREM WdbTyped ==
    Spec => []TypeOK
<1>1. Init => TypeInv
  BY InitTyped
<1>2. TypeInv /\ [Next]_vars => TypeInv'
  BY NextTyped
<1>3. TypeInv => TypeOK
  BY DEF TypeInv
<1>4. QED
  BY <1>1, <1>2, <1>3, PTL DEF Spec

-----------------------------------------------------------------------------
(* What WDB refuses it has.  L is the log of TP.                           *)

RowsIn(L, t) == {n \in DOMAIN L : L[n].tbl = t}

OnDisk(s) == s.tmp \cup s.hdb

LogGood(L) ==
    /\ L \in Seq(LogType) /\ Len(L) <= MaxLog
    /\ \A m, n \in DOMAIN L : L[m].tbl = L[n].tbl /\ m < n => L[m].date <= L[n].date

\* Of table t: what is buffered is logged; what is at or below a checkpoint is
\* on disk; what is at or below the last buffered row is on disk or buffered;
\* and the rows on disk have no hole.
TableGood(s, L, t) ==
    /\ \A n \in Rows : s.buf[t][n] > 0 => n \in RowsIn(L, t) /\ n <= s.bufMax[t]
    /\ s.cp[t] <= Len(L) /\ s.bufMax[t] <= Len(L)
    /\ s.cpFile[t] > 0 /\ s.cpFile[t] <= Len(L)
    /\ \A n \in RowsIn(L, t) :
           /\ n <= s.cp[t] \/ n <= s.cpFile[t] => n \in OnDisk(s)
           /\ n <= s.bufMax[t] => n \in OnDisk(s) \/ s.buf[t][n] > 0
    /\ \A m, n \in RowsIn(L, t) : m < n /\ n \in OnDisk(s) => m \in OnDisk(s)

\* No save of the checkpoint fails.
SavesWork == MaxFaults["save"] = 0

\* The outcomes that this leaves.
Possible == {oc \in Outcomes : SavesWork => \A t \in Tables : oc[t].save = TRUE}

\* A row on disk was written once, and no buffer has a row twice; rows in the
\* HDB are checkpointed.
DiskOnce(s, L) ==
    /\ \A n \in Rows : s.copies[n] = IF n \in OnDisk(s) THEN 1 ELSE 0
    /\ \A t \in Tables : \A n \in Rows : s.buf[t][n] <= 1
    /\ \A n \in s.hdb : n <= s.cpFile[L[n].tbl]

\* The checkpoint is saved and is not behind the rows on disk.
Checkpointed(s, L, t) ==
    /\ s.cpFile[t] = s.cp[t]
    /\ \A n \in RowsIn(L, t) : n \in OnDisk(s) => n <= s.cp[t]

DbGood(s, L) ==
    /\ s \in DbType
    /\ OnDisk(s) \subseteq DOMAIN L
    /\ \A t \in Tables : TableGood(s, L, t)
    /\ SavesWork => DiskOnce(s, L)

\* The same for a process that runs: it has loaded its checkpoint.
DbUp(s, L) ==
    /\ DbGood(s, L)
    /\ \A t \in Tables : s.cp[t] > 0 /\ (SavesWork => Checkpointed(s, L, t))

\* x refuses every row that s refuses.
Higher(x, s) == \A t \in Tables : s.cp[t] <= x.cp[t] /\ s.bufMax[t] <= x.bufMax[t]

\* w are rows of table t to flush, without a hole.
LowRows(s, t, w) ==
    /\ w \subseteq ToFlush(s, t)
    /\ \A m \in ToFlush(s, t), n \in w : m < n => m \in w

\* A good log holds rows of tables, on days.
LEMMA LogGoodFacts ==
    ASSUME NEW L, LogGood(L)
    PROVE  /\ Len(L) \in 0 .. MaxLog /\ DOMAIN L = 1 .. Len(L) /\ DOMAIN L \subseteq Rows
           /\ \A n \in DOMAIN L : L[n].tbl \in Tables /\ L[n].date \in Days
           /\ \A t : RowsIn(L, t) \subseteq Rows
<1>1. L \in Seq(LogType) /\ Len(L) <= MaxLog
  BY DEF LogGood
<1>2. Len(L) \in 0 .. MaxLog /\ DOMAIN L = 1 .. Len(L)
  BY <1>1, WdbConstants
<1>3. DOMAIN L \subseteq Rows
  BY <1>2, WdbConstants DEF Rows
<1>4. \A n \in DOMAIN L : L[n] \in LogType
  BY <1>1
<1>5. QED
  BY <1>2, <1>3, <1>4 DEF LogType, RowsIn

\* The rows to flush: buffered and above the checkpoint.
LEMMA ToFlushIs ==
    ASSUME NEW s, NEW t
    PROVE  ToFlush(s, t) = {n \in Rows : s.buf[t][n] > 0 /\ n > s.cp[t]}
BY DEF ToFlush, Buffered

\* The rows of the first dates are the first rows: the dates of a table's rows
\* never step back.
LEMMA FirstDatesLow ==
    ASSUME LogGood(tpLog), NEW s, NEW t, NEW k \in Nat,
           \A n \in Rows : s.buf[t][n] > 0 => n \in RowsIn(tpLog, t)
    PROVE  LowRows(s, t, OfFirstDates(s, t, k))
<1> DEFINE F == ToFlush(s, t)
           dates == {tpLog[n].date : n \in F}
           Upto(n) == {d \in dates : d <= tpLog[n].date}
           w == OfFirstDates(s, t, k)
<1>1. w = {n \in F : Cardinality(Upto(n)) <= k}
  BY DEF OfFirstDates
<1>2. F \subseteq RowsIn(tpLog, t)
  BY ToFlushIs
<1>3. \A n \in F : tpLog[n].date \in Days /\ n \in Rows /\ tpLog[n].tbl = t /\ n \in DOMAIN tpLog
  BY <1>2, LogGoodFacts DEF RowsIn
<1>4. dates \subseteq Days /\ Days \subseteq Nat /\ Rows \subseteq Nat
  BY <1>3, WdbConstants DEF Days, Rows
<1>5. IsFiniteSet(Days)
  BY FS_Interval, WdbConstants DEF Days
<1>6. ASSUME NEW m \in F, NEW n \in w, m < n
      PROVE  m \in w
  <2>1. n \in F /\ Cardinality(Upto(n)) <= k
    BY <1>1, <1>6
  <2>2. tpLog[m].date <= tpLog[n].date
    BY <1>3, <1>6, <2>1 DEF LogGood
  <2>3. tpLog[m].date \in Nat /\ tpLog[n].date \in Nat
    BY <1>3, <1>4, <2>1
  <2>4. ASSUME NEW d \in Upto(m)
        PROVE  d \in Upto(n)
    <3>1. d \in dates /\ d <= tpLog[m].date
      OBVIOUS
    <3>2. d \in Nat
      BY <1>4, <3>1
    <3>3. d <= tpLog[n].date
      BY <2>2, <2>3, <3>1, <3>2
    <3>4. QED
      BY <3>1, <3>3
  <2>5. IsFiniteSet(Upto(n))
    <3>1. Upto(n) \subseteq Days
      BY <1>4
    <3> HIDE DEF Upto
    <3>2. QED
      BY <1>5, <3>1, FS_Subset
  <2>6. Cardinality(Upto(m)) <= Cardinality(Upto(n)) /\ IsFiniteSet(Upto(m))
    <3> HIDE DEF Upto
    <3>1. QED
      BY <2>4, <2>5, FS_Subset
  <2>7. Cardinality(Upto(m)) \in Nat /\ Cardinality(Upto(n)) \in Nat
    <3> HIDE DEF Upto
    <3>1. QED
      BY <2>5, <2>6, FS_CardinalityType
  <2>8. Cardinality(Upto(m)) <= k
    <3> HIDE DEF Upto
    <3>1. QED
      BY <2>1, <2>6, <2>7
  <2>9. QED
    BY <1>1, <2>8
<1>7. w \subseteq F
  BY FlushSets
<1> HIDE DEF w, F
<1>8. QED
  BY <1>6, <1>7 DEF LowRows, w, F

\* Rows without a hole let the checkpoint advance.
LEMMA LowAdvances ==
    ASSUME NEW s, NEW t, NEW w, LowRows(s, t, w)
    PROVE  Advances(s, t, w)
<1>1. ToFlush(s, t) \subseteq Nat
  BY ToFlushIs, WdbConstants DEF Rows
<1>2. ASSUME NEW m \in w, NEW n \in ToFlush(s, t) \ w
      PROVE  m < n
  <2>1. m \in Nat /\ n \in Nat /\ m # n
    BY <1>1 DEF LowRows
  <2>2. ~(n < m)
    BY DEF LowRows
  <2>3. QED
    BY <2>1, <2>2
<1>3. QED
  BY <1>2 DEF Advances

\* The rows on disk have no hole when the first rows of a table are written.
LEMMA DiskGrows ==
    ASSUME NEW L, LogGood(L), NEW s, DbGood(s, L), NEW t \in Tables, NEW w, LowRows(s, t, w)
    PROVE  /\ w \subseteq RowsIn(L, t)
           /\ OnDisk(s) \cup w \subseteq DOMAIN L
           /\ \A u \in Tables : \A m, n \in RowsIn(L, u) :
                  m < n /\ n \in OnDisk(s) \cup w => m \in OnDisk(s) \cup w
<1>1. /\ s \in DbType /\ OnDisk(s) \subseteq DOMAIN L /\ TableGood(s, L, t)
      /\ \A u \in Tables : TableGood(s, L, u)
  BY DEF DbGood
<1>2. ASSUME NEW n \in w
      PROVE  n \in Rows /\ s.buf[t][n] > 0 /\ n > s.cp[t] /\ n \in RowsIn(L, t) /\ n <= s.bufMax[t]
  <2>1. n \in ToFlush(s, t)
    BY DEF LowRows
  <2>2. n \in Rows /\ s.buf[t][n] > 0 /\ n > s.cp[t]
    BY <2>1, ToFlushIs
  <2>3. QED
    BY <1>1, <2>2 DEF TableGood
<1>3. RowsIn(L, t) \subseteq DOMAIN L /\ \A u \in Tables : RowsIn(L, u) \subseteq Nat
  BY LogGoodFacts, WdbConstants DEF RowsIn, Rows
<1>4. ASSUME NEW u \in Tables, NEW m \in RowsIn(L, u), NEW n \in RowsIn(L, u),
             m < n, n \in OnDisk(s) \cup w
      PROVE  m \in OnDisk(s) \cup w
  <2>1. CASE n \in OnDisk(s)
    BY <1>1, <1>4, <2>1 DEF TableGood
  <2>2. CASE n \in w
    <3>1. u = t /\ m \in RowsIn(L, t)
      BY <1>2, <2>2 DEF RowsIn
    <3>2. s.cp[t] \in Nat /\ s.bufMax[t] \in Nat /\ m \in Nat /\ n \in Nat
      BY <1>1, <1>3, FloorIs
    <3>3. CASE m <= s.cp[t]
      BY <1>1, <3>1, <3>3 DEF TableGood
    <3>4. CASE m > s.cp[t] /\ s.buf[t][m] > 0
      <4>1. m \in Rows
        BY <3>1, LogGoodFacts
      <4>2. m \in ToFlush(s, t)
        BY <3>4, <4>1, ToFlushIs
      <4>3. QED
        BY <1>4, <2>2, <4>2 DEF LowRows
    <3>5. CASE ~(s.buf[t][m] > 0)
      <4>1. m <= s.bufMax[t]
        BY <1>2, <1>4, <2>2, <3>2
      <4>2. QED
        BY <1>1, <3>1, <3>5, <4>1 DEF TableGood
    <3>6. QED
      BY <3>2, <3>3, <3>4, <3>5
  <2>3. QED
    BY <1>4, <2>1, <2>2
<1>5. QED
  BY <1>1, <1>2, <1>3, <1>4

\* A flush of rows without a hole loses nothing and repeats nothing.
LEMMA GoodFlushed ==
    ASSUME NEW L, LogGood(L), NEW s, DbUp(s, L), NEW t \in Tables,
           NEW w, LowRows(s, t, w), NEW save, SavesWork => save = TRUE,
           NEW x, Flushed(x, s, t, w, save)
    PROVE  DbUp(x, L) /\ Higher(x, s)
<1>1. s \in DbType /\ DbGood(s, L) /\ \A u \in Tables : TableGood(s, L, u) /\ s.cp[u] > 0
  BY DEF DbUp, DbGood
<1>2. x \in DbType /\ x.bufMax = s.bufMax /\ OnDisk(x) = OnDisk(s) \cup w
  BY DEF Flushed, OnDisk
<1>3. /\ w \subseteq RowsIn(L, t) /\ OnDisk(x) \subseteq DOMAIN L
      /\ \A u \in Tables : \A m, n \in RowsIn(L, u) : m < n /\ n \in OnDisk(x) => m \in OnDisk(x)
  BY <1>1, <1>2, DiskGrows
<1>4. Advances(s, t, w)
  BY LowAdvances
<1>5. \A u \in Tables : /\ s.cp[u] \in Nat /\ s.bufMax[u] \in Nat /\ s.cpFile[u] \in Nat
                        /\ x.cp[u] \in Nat /\ x.cpFile[u] \in Nat
                        /\ \A n \in Rows : s.buf[u][n] \in Nat
  BY <1>1, <1>2, WdbConstants DEF DbType
<1>6. Len(L) \in Nat /\ \A u \in Tables : RowsIn(L, u) \subseteq 1 .. Len(L) /\ RowsIn(L, u) \subseteq Rows
  BY LogGoodFacts, WdbConstants DEF RowsIn
<1>7. /\ \A u \in Tables : x.cp[u] = s.cp[u] \/ (u = t /\ w # {} /\ x.cp[u] = Max(w))
      /\ \/ x.cpFile = s.cpFile
         \/ x.cpFile = x.cp
  BY <1>4 DEF Flushed
<1>8. w # {} => Max(w) \in w
  BY <1>3, <1>6, MaxOfRows
<1>9. \A n \in w : n \in Nat /\ n > s.cp[t] /\ n <= Len(L) /\ n > 0
  BY <1>3, <1>6, ToFlushIs DEF LowRows
<1>10. ASSUME NEW u \in Tables
       PROVE  s.cp[u] <= x.cp[u] /\ x.cp[u] > 0 /\ x.cp[u] <= Len(L)
  <2>1. CASE x.cp[u] = s.cp[u]
    BY <1>1, <1>5, <2>1 DEF TableGood
  <2>2. CASE u = t /\ w # {} /\ x.cp[u] = Max(w)
    BY <1>5, <1>8, <1>9, <2>2
  <2>3. QED
    BY <1>7, <2>1, <2>2
<1>11. ASSUME NEW u \in Tables, NEW n \in RowsIn(L, u), n <= x.cp[u]
       PROVE  n \in OnDisk(x)
  <2>1. CASE x.cp[u] = s.cp[u]
    BY <1>1, <1>2, <1>11, <2>1 DEF TableGood
  <2>2. CASE u = t /\ w # {} /\ x.cp[u] = Max(w)
    <3>1. Max(w) \in OnDisk(x) /\ Max(w) \in RowsIn(L, u)
      BY <1>2, <1>3, <1>8, <2>2
    <3>2. n \in Nat /\ Max(w) \in Nat
      BY <1>6, <3>1
    <3>3. n < Max(w) \/ n = Max(w)
      BY <1>11, <2>2, <3>2
    <3>4. QED
      BY <1>3, <3>1, <3>3
  <2>3. QED
    BY <1>7, <2>1, <2>2
<1>12. ASSUME NEW u \in Tables
       PROVE  TableGood(x, L, u)
  <2>1. ASSUME NEW n \in Rows
        PROVE  x.buf[u][n] = s.buf[u][n] \/ (u = t /\ x.buf[u][n] = 0)
    BY DEF Flushed
  <2>2. ASSUME NEW n \in Rows, x.buf[u][n] > 0
        PROVE  n \in RowsIn(L, u) /\ n <= x.bufMax[u]
    BY <1>1, <1>2, <2>1, <2>2 DEF TableGood
  <2>3. ASSUME NEW n \in RowsIn(L, u), n <= x.bufMax[u]
        PROVE  n \in OnDisk(x) \/ x.buf[u][n] > 0
    <3>1. n \in Rows /\ n \in Nat
      BY <1>6
    <3>2. n \in OnDisk(s) \/ s.buf[u][n] > 0
      BY <1>1, <1>2, <2>3 DEF TableGood
    <3>3. CASE n \in OnDisk(s)
      BY <1>2, <3>3
    <3>4. CASE s.buf[u][n] > 0 /\ u # t
      <4>1. x.buf[u][n] = s.buf[u][n]
        BY <2>1, <3>1, <3>4
      <4>2. QED
        BY <3>4, <4>1
    <3>5. CASE s.buf[u][n] > 0 /\ u = t /\ n <= s.cp[t]
      <4>1. n \in OnDisk(s)
        BY <1>1, <3>5 DEF TableGood
      <4>2. QED
        BY <1>2, <4>1
    <3>6. CASE s.buf[u][n] > 0 /\ u = t /\ n > s.cp[t]
      <4>1. n \in ToFlush(s, t)
        BY <3>1, <3>6, ToFlushIs
      <4>2. CASE n \in w
        BY <1>2, <4>2
      <4>3. CASE n \notin w
        <5>1. x.buf[t][n] = s.buf[t][n]
          BY <3>1, <4>1, <4>3 DEF Flushed
        <5>2. QED
          BY <3>6, <5>1
      <4>4. QED
        BY <4>2, <4>3
    <3>7. QED
      BY <1>5, <3>1, <3>2, <3>3, <3>4, <3>5, <3>6
  <2>4. x.cpFile[u] > 0 /\ x.cpFile[u] <= Len(L)
    BY <1>1, <1>7, <1>10 DEF TableGood
  <2>5. ASSUME NEW n \in RowsIn(L, u), n <= x.cpFile[u]
        PROVE  n \in OnDisk(x)
    <3>1. CASE x.cpFile = s.cpFile
      BY <1>1, <1>2, <2>5, <3>1 DEF TableGood
    <3>2. CASE x.cpFile = x.cp
      BY <1>11, <2>5, <3>2
    <3>3. QED
      BY <1>7, <3>1, <3>2
  <2>6. x.bufMax[u] <= Len(L)
    BY <1>1, <1>2 DEF TableGood
  <2>7. QED
    BY <1>3, <1>10, <1>11, <2>2, <2>3, <2>4, <2>5, <2>6 DEF TableGood
<1>13. Higher(x, s)
  BY <1>2, <1>5, <1>10 DEF Higher
<1>14. ASSUME SavesWork
       PROVE  DiskOnce(x, L) /\ \A u \in Tables : Checkpointed(x, L, u)
  <2>1. DiskOnce(s, L) /\ \A u \in Tables : Checkpointed(s, L, u)
    BY <1>14 DEF DbUp, DbGood
  <2>2. ASSUME NEW n \in w
        PROVE  n \in Rows /\ s.copies[n] = 0 /\ s.buf[t][n] = 1
    <3>1. n \in Rows /\ s.buf[t][n] > 0 /\ n > s.cp[t]
      BY ToFlushIs DEF LowRows
    <3>2. n \notin OnDisk(s)
      BY <1>3, <1>5, <1>9, <2>1, <3>1 DEF Checkpointed
    <3>3. s.buf[t][n] <= 1 /\ s.buf[t][n] \in Nat
      BY <1>5, <2>1, <3>1 DEF DiskOnce
    <3>4. QED
      BY <2>1, <3>1, <3>2, <3>3 DEF DiskOnce
  <2>3. ASSUME NEW n \in Rows
        PROVE  x.copies[n] = IF n \in OnDisk(x) THEN 1 ELSE 0
    <3>1. CASE n \in w
      BY <1>2, <2>2, <3>1 DEF Flushed
    <3>2. CASE n \notin w
      BY <1>2, <2>1, <3>2 DEF Flushed, DiskOnce
    <3>3. QED
      BY <3>1, <3>2
  <2>4. ASSUME NEW u \in Tables, NEW n \in Rows
        PROVE  x.buf[u][n] <= 1
    <3>1. x.buf[u][n] = s.buf[u][n] \/ x.buf[u][n] = 0
      BY DEF Flushed
    <3>2. QED
      BY <2>1, <3>1 DEF DiskOnce
  <2>5. ASSUME NEW u \in Tables
        PROVE  Checkpointed(x, L, u)
    <3>1. x.cpFile[u] = x.cp[u]
      <4>1. \/ x.cp = s.cp /\ x.cpFile = s.cpFile
            \/ x.cpFile = x.cp
        BY <1>14 DEF Flushed
      <4>2. QED
        BY <2>1, <4>1 DEF Checkpointed
    <3>2. ASSUME NEW n \in RowsIn(L, u), n \in OnDisk(x)
          PROVE  n <= x.cp[u]
      <4>1. n \in Nat
        BY <1>6
      <4>2. CASE n \in OnDisk(s)
        <5>1. n <= s.cp[u]
          BY <2>1, <4>2 DEF Checkpointed
        <5>2. QED
          BY <1>5, <1>10, <4>1, <5>1
      <4>3. CASE n \in w
        <5>1. u = t
          BY <1>3, <4>3 DEF RowsIn
        <5>2. x.cp[t] = Max(w)
          BY <1>4, <4>3 DEF Flushed
        <5>3. w \subseteq Rows
          BY <2>2
        <5>4. QED
          BY <4>3, <5>1, <5>2, <5>3, MaxOfRows
      <4>4. QED
        BY <1>2, <3>2, <4>2, <4>3
    <3>3. QED
      BY <3>1, <3>2 DEF Checkpointed
  <2>6. ASSUME NEW n \in x.hdb
        PROVE  n <= x.cpFile[L[n].tbl]
    <3>1. n \in OnDisk(x) /\ n \in DOMAIN L
      BY <1>3 DEF OnDisk
    <3>2. L[n].tbl \in Tables /\ n \in RowsIn(L, L[n].tbl)
      BY <3>1, LogGoodFacts DEF RowsIn
    <3>3. QED
      BY <2>5, <3>1, <3>2 DEF Checkpointed
  <2>7. QED
    BY <2>3, <2>4, <2>5, <2>6 DEF DiskOnce
<1>15. QED
  BY <1>2, <1>3, <1>10, <1>12, <1>13, <1>14 DEF DbUp, DbGood

\* Row n of table t is at or below the floor.
Refuses(s, t, n) == n <= s.cp[t] \/ n <= s.bufMax[t]

\* A row at or below the floor is one that WDB refuses.
LEMMA FloorRefuses ==
    ASSUME NEW s \in DbType, NEW t \in Tables, NEW n \in Nat
    PROVE  n <= Floor(s, t) <=> Refuses(s, t, n)
BY FloorIs, WdbConstants DEF Refuses

\* What is refused stays refused when the floor rises.
LEMMA HigherRefuses ==
    ASSUME NEW x \in DbType, NEW s \in DbType, Higher(x, s),
           NEW t \in Tables, NEW n \in Nat, Refuses(s, t, n)
    PROVE  Refuses(x, t, n)
<1>1. /\ x.cp[t] \in Nat /\ x.bufMax[t] \in Nat /\ s.cp[t] \in Nat /\ s.bufMax[t] \in Nat
      /\ s.cp[t] <= x.cp[t] /\ s.bufMax[t] <= x.bufMax[t]
  BY FloorIs, WdbConstants DEF Higher
<1>2. QED
  BY <1>1 DEF Refuses

\* A floor that rises twice has risen.
LEMMA HigherTransitive ==
    ASSUME NEW x \in DbType, NEW y \in DbType, NEW z \in DbType, Higher(x, y), Higher(y, z)
    PROVE  Higher(x, z)
<1>1. ASSUME NEW t \in Tables
      PROVE  z.cp[t] <= x.cp[t] /\ z.bufMax[t] <= x.bufMax[t]
  <2>1. /\ x.cp[t] \in Nat /\ x.bufMax[t] \in Nat /\ y.cp[t] \in Nat /\ y.bufMax[t] \in Nat
        /\ z.cp[t] \in Nat /\ z.bufMax[t] \in Nat
    BY FloorIs, WdbConstants
  <2>2. QED
    BY <2>1 DEF Higher
<1>2. QED
  BY <1>1 DEF Higher

\* A floor that is unchanged is not lower.
LEMMA HigherReflexive ==
    ASSUME NEW x \in DbType
    PROVE  Higher(x, x)
<1>1. ASSUME NEW t \in Tables
      PROVE  x.cp[t] \in Nat /\ x.bufMax[t] \in Nat
  BY FloorIs, WdbConstants
<1>2. QED
  BY <1>1 DEF Higher

\* Every row of table t before row n is refused: n is the next one.
NoneBefore(s, L, t, n) == \A m \in RowsIn(L, t) : m < n => Refuses(s, t, m)

\* A row whose predecessors are all refused can be accepted.
LEMMA GoodAccepted ==
    ASSUME NEW L, LogGood(L), NEW s, DbUp(s, L), NEW t \in Tables, NEW n \in RowsIn(L, t),
           NoneBefore(s, L, t, n), ~Refuses(s, t, n), NEW x, Accepted(x, s, n, t)
    PROVE  DbUp(x, L) /\ Higher(x, s) /\ Refuses(x, t, n)
<1>1. s \in DbType /\ \A u \in Tables : TableGood(s, L, u) /\ s.cp[u] > 0
  BY DEF DbUp, DbGood
<1>2. x \in DbType /\ OnDisk(x) = OnDisk(s) /\ x.cp = s.cp /\ x.cpFile = s.cpFile
  BY DEF Accepted, OnDisk
<1>3. \A u \in Tables : /\ s.cp[u] \in Nat /\ s.bufMax[u] \in Nat
                        /\ \A m \in Rows : s.buf[u][m] \in Nat
  BY <1>1, WdbConstants DEF DbType
<1>4. n \in Rows /\ n \in Nat /\ n <= Len(L) /\ Len(L) \in Nat
  BY LogGoodFacts, WdbConstants DEF RowsIn
<1>5. x.bufMax[t] = n /\ s.bufMax[t] < n
  BY <1>3, <1>4 DEF Accepted, Refuses
<1>6. \A u \in Tables : u # t => x.buf[u] = s.buf[u] /\ x.bufMax[u] = s.bufMax[u]
  BY DEF Accepted
<1>7. x.buf[t][n] = s.buf[t][n] + 1 /\ \A m \in Rows : m # n => x.buf[t][m] = s.buf[t][m]
  BY DEF Accepted
<1>8. ASSUME NEW u \in Tables, u # t
      PROVE  TableGood(x, L, u)
  BY <1>1, <1>2, <1>6, <1>8 DEF TableGood
<1>9. TableGood(x, L, t)
  <2>1. ASSUME NEW m \in Rows, x.buf[t][m] > 0
        PROVE  m \in RowsIn(L, t) /\ m <= x.bufMax[t]
    <3>1. CASE m = n
      BY <1>4, <1>5, <3>1
    <3>2. CASE m # n
      <4>1. s.buf[t][m] > 0
        BY <1>7, <2>1, <3>2
      <4>2. m \in RowsIn(L, t) /\ m <= s.bufMax[t]
        BY <1>1, <4>1 DEF TableGood
      <4>3. m \in Nat
        BY WdbConstants DEF Rows
      <4>4. QED
        BY <1>3, <1>4, <1>5, <4>2, <4>3
    <3>3. QED
      BY <3>1, <3>2
  <2>2. ASSUME NEW m \in RowsIn(L, t), m <= x.bufMax[t]
        PROVE  m \in OnDisk(x) \/ x.buf[t][m] > 0
    <3>1. m \in Rows /\ m \in Nat
      BY LogGoodFacts, WdbConstants DEF Rows
    <3>2. CASE m = n
      BY <1>3, <1>4, <1>7, <3>2
    <3>3. CASE m # n
      <4>1. Refuses(s, t, m)
        BY <1>4, <1>5, <2>2, <3>1, <3>3 DEF NoneBefore
      <4>2. m \in OnDisk(s) \/ s.buf[t][m] > 0
        BY <1>1, <4>1 DEF Refuses, TableGood
      <4>3. QED
        BY <1>2, <1>7, <3>1, <3>3, <4>2
    <3>4. QED
      BY <3>2, <3>3
  <2>3. TableGood(s, L, t)
    BY <1>1
  <2>4. x.bufMax[t] <= Len(L)
    BY <1>4, <1>5
  <2>5. QED
    BY <1>2, <2>1, <2>2, <2>3, <2>4 DEF TableGood
<1>10. \A u \in Tables : TableGood(x, L, u) /\ x.cp[u] > 0
  BY <1>1, <1>2, <1>8, <1>9
<1>11. OnDisk(x) \subseteq DOMAIN L
  BY <1>2 DEF DbUp, DbGood
<1>12. Higher(x, s)
  BY <1>2, <1>3, <1>4, <1>5, <1>6 DEF Higher
<1>13. Refuses(x, t, n)
  BY <1>4, <1>5 DEF Refuses
<1>14. ASSUME SavesWork
       PROVE  DiskOnce(x, L) /\ \A u \in Tables : Checkpointed(x, L, u)
  <2>1. DiskOnce(s, L) /\ \A u \in Tables : Checkpointed(s, L, u)
    BY <1>14 DEF DbUp, DbGood
  <2>2. s.buf[t][n] = 0
    <3>1. ~(s.buf[t][n] > 0)
      BY <1>1, <1>3, <1>4, <1>5 DEF TableGood
    <3>2. QED
      BY <1>3, <1>4, <3>1
  <2>3. ASSUME NEW u \in Tables, NEW m \in Rows
        PROVE  x.buf[u][m] <= 1
    <3>1. s.buf[u][m] <= 1
      BY <2>1 DEF DiskOnce
    <3>2. QED
      BY <1>6, <1>7, <2>2, <3>1
  <2>4. x.copies = s.copies /\ x.hdb = s.hdb
    BY DEF Accepted
  <2>5. DiskOnce(x, L)
    BY <1>2, <2>1, <2>3, <2>4 DEF DiskOnce
  <2>6. QED
    BY <1>2, <2>1, <2>5 DEF Checkpointed
<1>15. QED
  BY <1>2, <1>10, <1>11, <1>12, <1>13, <1>14 DEF DbUp, DbGood

\* Possible outcomes are outcomes, and save unless a save may fail.
LEMMA PossibleOutcome ==
    ASSUME NEW oc \in Possible
    PROVE  /\ oc \in Outcomes
           /\ \A t \in Tables : oc[t] \in OutcomeType /\ (SavesWork => oc[t].save = TRUE)
<1>1. oc \in Outcomes /\ (SavesWork => \A t \in Tables : oc[t].save = TRUE)
  BY DEF Possible
<1>2. oc \in [Tables -> OutcomeType]
  BY <1>1, OutcomeTyped
<1>3. QED
  BY <1>1, <1>2

\* flushTable loses nothing and repeats nothing.
LEMMA GoodFlushTable ==
    ASSUME LogGood(tpLog), NEW s, DbUp(s, tpLog), NEW t \in Tables, NEW oc \in OutcomeType,
           SavesWork => oc.save = TRUE
    PROVE  DbUp(FlushTable(s, t, oc), tpLog) /\ Higher(FlushTable(s, t, oc), s)
<1>1. s \in DbType /\ TableGood(s, tpLog, t)
  BY DEF DbUp, DbGood
<1>2. LowRows(s, t, OfFirstDates(s, t, oc.dates))
  <2>1. oc.dates \in Nat
    BY DEF OutcomeType
  <2>2. \A n \in Rows : s.buf[t][n] > 0 => n \in RowsIn(tpLog, t)
    BY <1>1 DEF TableGood
  <2>3. QED
    BY <2>1, <2>2, FirstDatesLow
<1>3. QED
  BY <1>1, <1>2, FlushTableDoes, GoodFlushed

\* Ingesting the next row of a table loses nothing, and the row is refused
\* from then on.
LEMMA GoodIngest ==
    ASSUME LogGood(tpLog), NEW s, DbUp(s, tpLog), NEW t \in Tables, NEW n \in RowsIn(tpLog, t),
           NoneBefore(s, tpLog, t, n), NEW oc \in Possible
    PROVE  /\ DbUp(Ingest(s, n, oc), tpLog)
           /\ Higher(Ingest(s, n, oc), s)
           /\ Refuses(Ingest(s, n, oc), t, n)
<1>1. /\ s \in DbType /\ n \in Rows /\ n \in Nat /\ tpLog[n].tbl = t
      /\ oc \in Outcomes /\ oc[t] \in OutcomeType /\ (SavesWork => oc[t].save = TRUE)
  <2>1. oc \in Outcomes /\ oc[t] \in OutcomeType /\ (SavesWork => oc[t].save = TRUE)
    BY PossibleOutcome
  <2>2. s \in DbType
    BY DEF DbUp, DbGood
  <2>3. n \in DOMAIN tpLog /\ tpLog[n].tbl = t
    BY DEF RowsIn
  <2>4. n \in Rows /\ n \in Nat
    BY <2>3, LogGoodFacts, WdbConstants DEF Rows
  <2>5. QED
    BY <2>1, <2>2, <2>3, <2>4
<1>2. Floor(s, t) \in Nat
  BY <1>1, FloorIs, WdbConstants
<1> DEFINE x == Ingest(s, n, oc)
           y == IF n <= Floor(s, t) THEN s ELSE Accept(s, n)
<1>3. /\ y \in DbType
      /\ n > Floor(s, t) => Accepted(y, s, n, t)
      /\ \/ x = y
         \/ Flushed(x, y, t, OfFirstDates(y, t, oc[t].dates), oc[t].save)
  BY <1>1, IngestDoes DEF Ingested
<1>4. n <= Floor(s, t) => y = s
  OBVIOUS
<1> HIDE DEF x, y
<1>5. DbUp(y, tpLog) /\ Higher(y, s) /\ Refuses(y, t, n)
  <2>1. CASE n <= Floor(s, t)
    BY <1>1, <1>4, <2>1, FloorRefuses, HigherReflexive
  <2>2. CASE ~(n <= Floor(s, t))
    <3>1. n > Floor(s, t) /\ ~Refuses(s, t, n)
      BY <1>1, <1>2, <2>2, FloorRefuses
    <3>2. QED
      BY <1>3, <3>1, GoodAccepted
  <2>3. QED
    BY <2>1, <2>2
<1>6. CASE x = y
  BY <1>5, <1>6 DEF x
<1>7. CASE Flushed(x, y, t, OfFirstDates(y, t, oc[t].dates), oc[t].save)
  <2> DEFINE w == OfFirstDates(y, t, oc[t].dates)
             save == oc[t].save
  <2>1. LowRows(y, t, w)
    <3>1. oc[t].dates \in Nat
      BY <1>1 DEF OutcomeType
    <3>2. \A m \in Rows : y.buf[t][m] > 0 => m \in RowsIn(tpLog, t)
      BY <1>5 DEF DbUp, DbGood, TableGood
    <3>3. QED
      BY <3>1, <3>2, FirstDatesLow
  <2>2. Flushed(x, y, t, w, save) /\ (SavesWork => save = TRUE)
    BY <1>1, <1>7
  <2> HIDE DEF w, save
  <2>3. DbUp(x, tpLog) /\ Higher(x, y)
    BY <1>5, <2>1, <2>2, GoodFlushed
  <2>4. x \in DbType
    BY <2>3 DEF DbUp, DbGood
  <2>5. QED
    BY <1>1, <1>3, <1>5, <2>3, <2>4, HigherTransitive, HigherRefuses DEF x
<1>8. QED
  BY <1>3, <1>6, <1>7

\* Flushing every table loses nothing.
LEMMA GoodFlushTables ==
    ASSUME LogGood(tpLog), NEW s, DbUp(s, tpLog), NEW q \in Seq(Tables), NEW oc \in Possible
    PROVE  DbUp(FlushTables(s, oc, q), tpLog) /\ Higher(FlushTables(s, oc, q), s)
<1> DEFINE S == {x \in DbType : DbUp(x, tpLog) /\ Higher(x, s)}
           n == Len(q)
           P == [k \in 0 .. n |-> S]
<1>1. s \in DbType
  BY DEF DbUp, DbGood
<1>2. PICK r : FlushRun(r, s, q, oc)
  BY <1>1, FlushTablesRun, PossibleOutcome
<1>3. n \in Nat /\ \A k \in 1 .. n : q[k] \in Tables
  OBVIOUS
<1>4. /\ r[0] = s /\ FlushTables(s, oc, q) = r[n]
      /\ \A k \in 1 .. n : r[k] = FlushTable(r[k - 1], q[k], oc[q[k]])
  BY <1>2 DEF FlushRun
<1> HIDE DEF n
<1>5. \A k \in 0 .. n : P[k] = S
  OBVIOUS
<1>6. r[0] \in P[0]
  <2>1. 0 \in 0 .. n
    BY <1>3
  <2>2. QED
    BY <1>1, <1>4, <1>5, <2>1, HigherReflexive
<1>7. ASSUME NEW k \in 1 .. n, r[k - 1] \in P[k - 1]
      PROVE  r[k] \in P[k]
  <2>1. k - 1 \in 0 .. n /\ k \in 0 .. n
    BY <1>3
  <2> DEFINE y == r[k - 1]
             x == r[k]
  <2>2. y \in DbType /\ DbUp(y, tpLog) /\ Higher(y, s)
    BY <1>5, <1>7, <2>1
  <2>3. /\ q[k] \in Tables /\ oc[q[k]] \in OutcomeType /\ (SavesWork => oc[q[k]].save = TRUE)
        /\ x = FlushTable(y, q[k], oc[q[k]])
    BY <1>3, <1>4, PossibleOutcome
  <2> HIDE DEF x, y
  <2>4. DbUp(x, tpLog) /\ Higher(x, y)
    BY <2>2, <2>3, GoodFlushTable
  <2>5. x \in DbType
    BY <2>4 DEF DbUp, DbGood
  <2>6. Higher(x, s)
    BY <1>1, <2>2, <2>4, <2>5, HigherTransitive
  <2>7. x \in S
    BY <2>4, <2>5, <2>6
  <2>8. QED
    BY <1>5, <2>1, <2>7 DEF x
<1> HIDE DEF P, S
<1>8. r[n] \in P[n]
  BY <1>3, <1>6, <1>7, RunInvariant
<1>9. n \in 0 .. n
  BY <1>3
<1>10. QED
  BY <1>4, <1>5, <1>8, <1>9 DEF S

\* A row among q that table t takes from R comes after every earlier row of
\* the table that is not refused already.
Feeds(s, L, t, q, R) ==
    \A i \in DOMAIN q : q[i] \in R =>
        \A m \in RowsIn(L, t) : m < q[i] =>
            Refuses(s, t, m) \/ (m \in R /\ \E j \in DOMAIN q : j < i /\ q[j] = m)

\* Ingesting a table's rows in order loses nothing.
LEMMA GoodIngestSeq ==
    ASSUME LogGood(tpLog), NEW s, DbUp(s, tpLog), NEW t \in Tables,
           NEW q \in Seq(Rows \cup {Eod}), NEW oc \in Possible,
           NEW R, R \subseteq RowsIn(tpLog, t), Feeds(s, tpLog, t, q, R)
    PROVE  LET x == IngestSeq(s, q, R, oc) IN
           /\ DbUp(x, tpLog) /\ Higher(x, s)
           /\ \A i \in DOMAIN q : q[i] \in R => Refuses(x, t, q[i])
<1> DEFINE n == Len(q)
           Done(x, k) == \A j \in 1 .. k : q[j] \in R => Refuses(x, t, q[j])
           P == [k \in 0 .. n |-> {x \in DbType : DbUp(x, tpLog) /\ Higher(x, s) /\ Done(x, k)}]
<1>1. s \in DbType
  BY DEF DbUp, DbGood
<1>2. R \in SUBSET Rows /\ \A m \in R : tpLog[m].tbl \in Tables
  BY LogGoodFacts DEF RowsIn
<1>3. PICK r : IngestRun(r, s, q, R, oc)
  BY <1>1, <1>2, IngestSeqRun, PossibleOutcome
<1>4. n \in Nat /\ DOMAIN q = 1 .. n
  OBVIOUS
<1>5. /\ r[0] = s /\ IngestSeq(s, q, R, oc) = r[n]
      /\ \A k \in 1 .. n : r[k] = IF q[k] \in R THEN Ingest(r[k - 1], q[k], oc) ELSE r[k - 1]
  BY <1>3 DEF IngestRun
<1> HIDE DEF n
<1>6. \A k \in 0 .. n : P[k] = {x \in DbType : DbUp(x, tpLog) /\ Higher(x, s) /\ Done(x, k)}
  OBVIOUS
<1>7. r[0] \in P[0]
  <2>1. 0 \in 0 .. n
    BY <1>4
  <2>2. Done(s, 0)
    OBVIOUS
  <2> HIDE DEF Done
  <2>3. QED
    BY <1>1, <1>5, <1>6, <2>1, <2>2, HigherReflexive
<1>8. ASSUME NEW k \in 1 .. n, r[k - 1] \in P[k - 1]
      PROVE  r[k] \in P[k]
  <2>1. k - 1 \in 0 .. n /\ k \in 0 .. n
    BY <1>4
  <2> DEFINE y == r[k - 1]
             x == r[k]
             m == q[k]
  <2>2. y \in DbType /\ DbUp(y, tpLog) /\ Higher(y, s) /\ Done(y, k - 1)
    <3> HIDE DEF Done
    <3>1. QED
      BY <1>6, <1>8, <2>1
  <2>3. x = IF m \in R THEN Ingest(y, m, oc) ELSE y
    BY <1>5
  <2>4. \A j \in 1 .. k : j \in 1 .. k - 1 \/ j = k
    OBVIOUS
  <2>5. \A j \in 1 .. k : q[j] \in R => q[j] \in Nat
    <3>1. Rows \subseteq Nat
      BY WdbConstants DEF Rows
    <3>2. QED
      BY <1>2, <3>1
  <2>6. CASE m \notin R
    <3>1. x = y
      BY <2>3, <2>6
    <3>2. Done(y, k)
      BY <2>2, <2>4, <2>6
    <3> HIDE DEF Done
    <3>3. QED
      BY <1>6, <2>1, <2>2, <3>1, <3>2
  <2>7. CASE m \in R
    <3>1. m \in RowsIn(tpLog, t) /\ k \in DOMAIN q
      BY <1>4, <2>7
    <3>2. ASSUME NEW l \in RowsIn(tpLog, t), l < m
          PROVE  Refuses(y, t, l)
      <4>1. l \in Nat
        BY LogGoodFacts, WdbConstants DEF Rows
      <4>2. Refuses(s, t, l) \/ (l \in R /\ \E j \in DOMAIN q : j < k /\ q[j] = l)
        BY <2>7, <3>1, <3>2 DEF Feeds
      <4>3. CASE Refuses(s, t, l)
        BY <1>1, <2>2, <4>1, <4>3, HigherRefuses
      <4>4. CASE l \in R /\ \E j \in DOMAIN q : j < k /\ q[j] = l
        <5>1. PICK j \in DOMAIN q : j < k /\ q[j] = l
          BY <4>4
        <5>2. j \in 1 .. k - 1
          BY <1>4, <5>1
        <5>3. QED
          BY <2>2, <4>4, <5>1, <5>2
      <4>5. QED
        BY <4>2, <4>3, <4>4
    <3>3. NoneBefore(y, tpLog, t, m)
      BY <3>2 DEF NoneBefore
    <3>4. x = Ingest(y, m, oc)
      BY <2>3, <2>7
    <3> HIDE DEF x, y, Done, m
    <3>5. DbUp(x, tpLog) /\ Higher(x, y) /\ Refuses(x, t, m)
      BY <2>2, <3>1, <3>3, <3>4, GoodIngest
    <3>6. x \in DbType
      BY <3>5 DEF DbUp, DbGood
    <3>7. Higher(x, s)
      BY <1>1, <2>2, <3>5, <3>6, HigherTransitive
    <3>8. ASSUME NEW j \in 1 .. k, q[j] \in R
          PROVE  Refuses(x, t, q[j])
      <4>1. CASE j = k
        BY <3>5, <4>1 DEF m
      <4>2. CASE j \in 1 .. k - 1
        <5>1. Refuses(y, t, q[j])
          BY <2>2, <3>8, <4>2 DEF Done
        <5>2. q[j] \in Nat
          BY <2>5, <3>8
        <5>3. QED
          BY <2>2, <3>5, <3>6, <5>1, <5>2, HigherRefuses
      <4>3. QED
        BY <2>4, <4>1, <4>2
    <3>9. Done(x, k)
      BY <3>8 DEF Done
    <3>10. r[k] = x
      BY DEF x
    <3>11. QED
      BY <1>6, <2>1, <3>5, <3>6, <3>7, <3>9, <3>10
  <2>8. QED
    BY <2>6, <2>7
<1> HIDE DEF P, Done
<1>9. r[n] \in P[n]
  BY <1>4, <1>7, <1>8, RunInvariant
<1>10. n \in 0 .. n
  BY <1>4
<1>11. DbUp(r[n], tpLog) /\ Higher(r[n], s) /\ Done(r[n], n)
  BY <1>6, <1>9, <1>10
<1>12. QED
  BY <1>4, <1>5, <1>11 DEF Done

\* The same for one table after the other.
LEMMA GoodIngestTables ==
    ASSUME LogGood(tpLog), NEW s, DbUp(s, tpLog),
           NEW ns \in Seq(Rows \cup {Eod}), NEW oc \in Possible,
           NEW R, R = [t \in Tables |-> R[t]],
           \A t \in Tables : R[t] \subseteq RowsIn(tpLog, t) /\ Feeds(s, tpLog, t, ns, R[t])
    PROVE  LET x == IngestTables(s, ns, R, oc) IN
           /\ DbUp(x, tpLog) /\ Higher(x, s)
           /\ \A t \in Tables : \A i \in DOMAIN ns : ns[i] \in R[t] => Refuses(x, t, ns[i])
<1> DEFINE q == TableSeq
           n == Len(q)
           Has(x, t) == \A i \in DOMAIN ns : ns[i] \in R[t] => Refuses(x, t, ns[i])
           Done(x, k) == \A j \in 1 .. k : Has(x, q[j])
           P == [k \in 0 .. n |-> {x \in DbType : DbUp(x, tpLog) /\ Higher(x, s) /\ Done(x, k)}]
<1>1. s \in DbType
  BY DEF DbUp, DbGood
<1>2. \A t \in Tables : R[t] \subseteq Rows /\ \A m \in R[t] : tpLog[m].tbl \in Tables /\ m \in Nat
  BY LogGoodFacts, WdbConstants DEF RowsIn, Rows
<1>3. R \in [Tables -> SUBSET Rows]
  BY <1>2
<1>4. PICK r : TablesRun(r, s, q, ns, R, oc)
  BY <1>1, <1>2, <1>3, IngestTablesRun, PossibleOutcome
<1>5. n \in Nat /\ \A k \in 1 .. n : q[k] \in Tables
  BY WdbConstants
<1>6. /\ r[0] = s /\ IngestTables(s, ns, R, oc) = r[n]
      /\ \A k \in 1 .. n : r[k] = IngestSeq(r[k - 1], ns, R[q[k]], oc)
  BY <1>4 DEF TablesRun
<1>7. \A t \in Tables : \E k \in 1 .. n : q[k] = t
  BY TablesInSeq
<1> HIDE DEF n, q
<1>8. \A k \in 0 .. n : P[k] = {x \in DbType : DbUp(x, tpLog) /\ Higher(x, s) /\ Done(x, k)}
  OBVIOUS
<1>9. r[0] \in P[0]
  <2>1. 0 \in 0 .. n
    BY <1>5
  <2>2. Done(s, 0)
    OBVIOUS
  <2> HIDE DEF Done
  <2>3. QED
    BY <1>1, <1>6, <1>8, <2>1, <2>2, HigherReflexive
<1>10. ASSUME NEW k \in 1 .. n, r[k - 1] \in P[k - 1]
       PROVE  r[k] \in P[k]
  <2>1. k - 1 \in 0 .. n /\ k \in 0 .. n
    BY <1>5
  <2> DEFINE y == r[k - 1]
             x == r[k]
             t == q[k]
  <2>2. y \in DbType /\ DbUp(y, tpLog) /\ Higher(y, s) /\ Done(y, k - 1)
    <3> HIDE DEF Done
    <3>1. QED
      BY <1>8, <1>10, <2>1
  <2>3. x = IngestSeq(y, ns, R[t], oc) /\ t \in Tables
    BY <1>5, <1>6
  <2> HIDE DEF x, y, t
  <2>4. Feeds(y, tpLog, t, ns, R[t])
    <3>1. Feeds(s, tpLog, t, ns, R[t])
      BY <2>3
    <3>2. RowsIn(tpLog, t) \subseteq Nat
      BY LogGoodFacts, WdbConstants DEF Rows
    <3>3. \A m \in RowsIn(tpLog, t) : Refuses(s, t, m) => Refuses(y, t, m)
      BY <1>1, <2>2, <2>3, <3>2, HigherRefuses
    <3>4. QED
      BY <3>1, <3>3 DEF Feeds
  <2>5. DbUp(x, tpLog) /\ Higher(x, y) /\ Has(x, t)
    <3>1. R[t] \subseteq RowsIn(tpLog, t)
      BY <2>3
    <3> DEFINE Rt == R[t]
    <3> HIDE DEF Rt
    <3>2. Rt \subseteq RowsIn(tpLog, t) /\ Feeds(y, tpLog, t, ns, Rt) /\ x = IngestSeq(y, ns, Rt, oc)
      BY <2>3, <2>4, <3>1 DEF Rt
    <3>3. DbUp(x, tpLog) /\ Higher(x, y) /\ \A i \in DOMAIN ns : ns[i] \in Rt => Refuses(x, t, ns[i])
      BY <2>2, <2>3, <3>2, GoodIngestSeq
    <3>4. QED
      BY <3>3 DEF Rt
  <2>6. x \in DbType
    BY <2>5 DEF DbUp, DbGood
  <2>7. Higher(x, s)
    BY <1>1, <2>2, <2>5, <2>6, HigherTransitive
  <2>8. ASSUME NEW j \in 1 .. k
        PROVE  Has(x, q[j])
    <3>1. j \in 1 .. k - 1 \/ j = k
      OBVIOUS
    <3>2. CASE j = k
      BY <2>5, <3>2 DEF t
    <3>3. CASE j \in 1 .. k - 1
      <4>1. Has(y, q[j])
        BY <2>2, <3>3
      <4>2. q[j] \in Tables
        BY <1>5
      <4>3. \A i \in DOMAIN ns : ns[i] \in R[q[j]] => ns[i] \in Nat
        BY <1>2, <4>2
      <4>4. QED
        BY <2>2, <2>5, <2>6, <4>1, <4>2, <4>3, HigherRefuses
    <3>4. QED
      BY <3>1, <3>2, <3>3
  <2>9. Done(x, k)
    BY <2>8
  <2>10. r[k] = x
    BY DEF x
  <2> HIDE DEF Done
  <2>11. QED
    BY <1>8, <2>1, <2>5, <2>6, <2>7, <2>9, <2>10
<1> HIDE DEF P, Done
<1>11. r[n] \in P[n]
  BY <1>5, <1>9, <1>10, RunInvariant
<1>12. n \in 0 .. n
  BY <1>5
<1>13. DbUp(r[n], tpLog) /\ Higher(r[n], s) /\ Done(r[n], n)
  BY <1>8, <1>11, <1>12
<1>14. \A t \in Tables : Has(r[n], t)
  BY <1>7, <1>13 DEF Done
<1>15. QED
  BY <1>6, <1>13, <1>14

\* Flushing and moving loses nothing.
LEMMA GoodRollDb ==
    ASSUME LogGood(tpLog), NEW s, DbUp(s, tpLog), NEW oc \in Possible, NEW failed
    PROVE  /\ DbUp(FlushAll(s, oc), tpLog) /\ Higher(FlushAll(s, oc), s)
           /\ DbUp(RollDb(s, oc, failed), tpLog) /\ Higher(RollDb(s, oc, failed), s)
<1> DEFINE y == FlushAll(s, oc)
           x == MoveDates(y, failed)
<1>1. DbUp(y, tpLog) /\ Higher(y, s)
  BY GoodFlushTables, WdbConstants DEF FlushAll
<1> HIDE DEF y, x
<1>2. y \in DbType
  BY <1>1 DEF DbUp, DbGood
<1>3. /\ x \in DbType /\ OnDisk(x) = OnDisk(y) /\ x.copies = y.copies
      /\ x.buf = y.buf /\ x.bufMax = y.bufMax /\ x.cp = y.cp /\ x.cpFile = y.cpFile
  BY <1>2, MoveDatesTyped DEF OnDisk, x
<1>4. \A t \in Tables : TableGood(y, tpLog, t) => TableGood(x, tpLog, t)
  BY <1>3 DEF TableGood
<1>5. DbUp(x, tpLog)
  <2>1. ASSUME SavesWork
        PROVE  DiskOnce(x, tpLog) /\ \A t \in Tables : Checkpointed(x, tpLog, t)
    <3>1. DiskOnce(y, tpLog) /\ \A t \in Tables : Checkpointed(y, tpLog, t)
      BY <1>1, <2>1 DEF DbUp, DbGood
    <3>2. \A t \in Tables : Checkpointed(x, tpLog, t)
      BY <1>3, <3>1 DEF Checkpointed
    <3>3. ASSUME NEW n \in x.hdb
          PROVE  n <= x.cpFile[tpLog[n].tbl]
      <4>1. n \in OnDisk(x) /\ n \in DOMAIN tpLog
        BY <1>1, <1>3 DEF OnDisk, DbUp, DbGood
      <4>2. tpLog[n].tbl \in Tables /\ n \in RowsIn(tpLog, tpLog[n].tbl)
        BY <4>1, LogGoodFacts DEF RowsIn
      <4>3. QED
        BY <3>2, <4>1, <4>2 DEF Checkpointed
    <3>4. QED
      BY <1>3, <3>1, <3>2, <3>3 DEF DiskOnce
  <2>2. QED
    BY <1>1, <1>3, <1>4, <2>1 DEF DbUp, DbGood
<1>6. Higher(x, s)
  BY <1>1, <1>3 DEF Higher
<1>7. RollDb(s, oc, failed) = y \/ RollDb(s, oc, failed) = x
  BY DEF RollDb, x, y
<1>8. QED
  BY <1>1, <1>5, <1>6, <1>7 DEF y

\* The memory of a process may be lost.
LEMMA GoodNoMemory ==
    ASSUME NEW L, LogGood(L), NEW s, DbGood(s, L)
    PROVE  DbGood(NoMemory(s), L)
<1> DEFINE x == NoMemory(s)
<1>1. s \in DbType
  BY DEF DbGood
<1>2. /\ x \in DbType /\ OnDisk(x) = OnDisk(s) /\ x.cpFile = s.cpFile
      /\ x.hdb = s.hdb /\ x.copies = s.copies
      /\ \A t \in Tables : /\ x.cp[t] = 0 /\ x.bufMax[t] = 0
                           /\ \A n \in Rows : x.buf[t][n] = 0
  BY <1>1, NoMemoryTyped DEF OnDisk
<1> HIDE DEF x
<1>3. Len(L) \in Nat /\ \A t \in Tables : RowsIn(L, t) \subseteq 1 .. Len(L)
  BY LogGoodFacts, WdbConstants DEF RowsIn
<1>4. ASSUME NEW t \in Tables
      PROVE  TableGood(x, L, t)
  <2>1. TableGood(s, L, t)
    BY DEF DbGood
  <2>2. \A n \in RowsIn(L, t) : n > 0 /\ n \in Nat
    BY <1>3
  <2>3. QED
    BY <1>2, <1>3, <2>1, <2>2 DEF TableGood
<1>5. SavesWork => DiskOnce(x, L)
  BY <1>2 DEF DbGood, DiskOnce
<1>6. QED
  BY <1>2, <1>4, <1>5 DEF DbGood, x

\* A kill between the write and the checkpoint.
LEMMA GoodWritten ==
    ASSUME LogGood(tpLog), NEW s, DbUp(s, tpLog), NEW t \in Tables, NEW k \in Nat
    PROVE  DbGood(WriteRows(s, t, OfFirstDates(s, t, k)), tpLog)
<1> DEFINE w == OfFirstDates(s, t, k)
           x == WriteRows(s, t, w)
<1>1. s \in DbType /\ DbGood(s, tpLog) /\ \A u \in Tables : TableGood(s, tpLog, u)
  BY DEF DbUp, DbGood
<1>2. LowRows(s, t, w)
  <2>1. \A n \in Rows : s.buf[t][n] > 0 => n \in RowsIn(tpLog, t)
    BY <1>1 DEF TableGood
  <2>2. QED
    BY <2>1, FirstDatesLow
<1>3. w \in SUBSET Rows
  BY FlushSets
<1> HIDE DEF w
<1>4. /\ x \in DbType /\ OnDisk(x) = OnDisk(s) \cup w /\ x.buf = s.buf
      /\ x.bufMax = s.bufMax /\ x.cp = s.cp /\ x.cpFile = s.cpFile /\ x.hdb = s.hdb
      /\ \A n \in Rows : x.copies[n] = IF n \in w THEN s.copies[n] + s.buf[t][n] ELSE s.copies[n]
  BY <1>1, <1>3, WriteRowsTyped DEF OnDisk
<1> HIDE DEF x
<1>5. /\ w \subseteq RowsIn(tpLog, t) /\ OnDisk(x) \subseteq DOMAIN tpLog
      /\ \A u \in Tables : \A m, n \in RowsIn(tpLog, u) : m < n /\ n \in OnDisk(x) => m \in OnDisk(x)
  BY <1>1, <1>2, <1>4, DiskGrows
<1>6. ASSUME NEW u \in Tables
      PROVE  TableGood(x, tpLog, u)
  <2>1. TableGood(s, tpLog, u)
    BY <1>1
  <2>2. QED
    BY <1>4, <1>5, <2>1 DEF TableGood
<1>7. ASSUME SavesWork
      PROVE  DiskOnce(x, tpLog)
  <2>1. DiskOnce(s, tpLog) /\ Checkpointed(s, tpLog, t)
    BY <1>7 DEF DbUp, DbGood
  <2>2. ASSUME NEW n \in w
        PROVE  n \in Rows /\ s.copies[n] = 0 /\ s.buf[t][n] = 1
    <3>1. n \in Rows /\ s.buf[t][n] > 0 /\ n > s.cp[t]
      BY <1>2, ToFlushIs DEF LowRows
    <3>2. s.buf[t][n] \in Nat /\ s.cp[t] \in Nat /\ n \in Nat
      BY <1>1, <3>1, WdbConstants DEF DbType, Rows
    <3>3. n \notin OnDisk(s)
      BY <1>5, <2>1, <3>1, <3>2 DEF Checkpointed
    <3>4. QED
      BY <2>1, <3>1, <3>2, <3>3 DEF DiskOnce
  <2>3. ASSUME NEW n \in Rows
        PROVE  x.copies[n] = IF n \in OnDisk(x) THEN 1 ELSE 0
    <3>1. CASE n \in w
      BY <1>4, <2>2, <3>1
    <3>2. CASE n \notin w
      BY <1>4, <2>1, <3>2 DEF DiskOnce
    <3>3. QED
      BY <3>1, <3>2
  <2>4. QED
    BY <1>4, <2>1, <2>3 DEF DiskOnce
<1>8. QED
  BY <1>4, <1>5, <1>6, <1>7 DEF DbGood, x, w

-----------------------------------------------------------------------------
(* Replay *)

\* Rows come in the order in which TP has logged them.
ChanOrder(q) == \A i, j \in DOMAIN q : i < j /\ q[i] # Eod /\ q[j] # Eod => q[i] < q[j]

\* The logs are read from where every table needs them, or no table needs them.
LEMMA ReadFromLow ==
    ASSUME TypeInv, DbUp(db, tpLog), NEW from \in ReadFrom, NEW t \in Tables
    PROVE  /\ from \in Nat
           /\ from <= Floor(db, t) + 1 \/ info.cutoff <= Floor(db, t)
<1>1. db \in DbType /\ info.cutoff \in Nat /\ MaxLog \in Nat
  BY TypeFacts, WdbConstants
<1>2. ASSUME NEW u \in Tables
      PROVE  Floor(db, u) \in Nat /\ Floor(db, u) > 0 /\ StartOf(u) = Floor(db, u) + 1
  <2>1. Floor(db, u) \in Nat /\ Floor(db, u) > 0
    BY <1>1, FloorIs DEF DbUp
  <2>2. QED
    BY <2>1 DEF StartOf
<1>3. Starts = {StartOf(u) : u \in Tables}
  BY <1>2 DEF Starts, NoSeq
<1>4. Starts \subseteq Nat /\ Starts # {} /\ StartOf(t) \in Starts
  BY <1>2, <1>3
<1>5. Min(Starts) \in Nat /\ Min(Starts) <= Floor(db, t) + 1
  <2>1. Min(Starts) \in Starts /\ \A n \in Starts : Min(Starts) <= n
    BY <1>4, MinOfSet
  <2>2. QED
    BY <1>2, <1>4, <2>1
<1>6. CASE Min(Starts) > info.cutoff
  <2>1. from = MaxLog + 1
    BY <1>6 DEF ReadFrom
  <2>2. QED
    BY <1>1, <1>2, <1>5, <1>6, <2>1
<1>7. CASE ~(Min(Starts) > info.cutoff)
  <2>1. from \in 1 .. Min(Starts)
    BY <1>4, <1>7 DEF ReadFrom
  <2>2. QED
    BY <1>2, <1>5, <2>1
<1>8. QED
  BY <1>6, <1>7

\* After the replay, every row up to the cutoff is refused because it is held.
LEMMA GoodMerge ==
    ASSUME TypeInv, LogGood(tpLog), DbUp(db, tpLog), NEW from \in ReadFrom,
           NEW upto \in [Tables -> 0 .. info.cutoff], NEW oc \in Possible
    PROVE  LET x == Merge(from, upto, oc) IN
           /\ DbUp(x, tpLog)
           /\ \A t \in Tables : \A n \in RowsIn(tpLog, t) : n <= upto[t] => Refuses(x, t, n)
<1> DEFINE ns == [n \in DOMAIN tpLog |-> n]
           R == [t \in Tables |-> Staged(t, from, upto[t])]
           x == IngestTables(db, ns, R, oc)
           l == Len(tpLog)
           T == Rows \cup {Eod}
<1>1. /\ db \in DbType /\ info.cutoff \in Nat
      /\ \A t \in Tables : upto[t] \in Nat /\ upto[t] <= info.cutoff
  BY TypeFacts
<1>2. l \in Nat /\ DOMAIN tpLog = 1 .. l /\ DOMAIN tpLog \subseteq Rows /\ Rows \subseteq Nat
  BY LogGoodFacts, WdbConstants DEF Rows
<1>3. ns \in Seq(T) /\ DOMAIN ns = DOMAIN tpLog /\ \A n \in DOMAIN tpLog : ns[n] = n
  <2>1. ns \in [1 .. l -> T]
    BY <1>2
  <2>2. DOMAIN ns = DOMAIN tpLog /\ \A n \in DOMAIN tpLog : ns[n] = n
    OBVIOUS
  <2> HIDE DEF l, T, ns
  <2>3. ns \in Seq(T)
    BY <1>2, <2>1, SeqOfFunction
  <2>4. QED
    BY <2>2, <2>3
<1>4. R = [t \in Tables |-> R[t]] /\ \A t \in Tables : R[t] = Staged(t, from, upto[t])
  OBVIOUS
<1>5. ASSUME NEW t \in Tables
      PROVE  /\ Floor(db, t) \in Nat
             /\ from \in Nat
             /\ from <= Floor(db, t) + 1 \/ info.cutoff <= Floor(db, t)
  BY <1>1, ReadFromLow, FloorIs, WdbConstants
<1>6. ASSUME NEW t \in Tables, NEW n \in RowsIn(tpLog, t), n <= upto[t]
      PROVE  Refuses(db, t, n) \/ n \in Staged(t, from, upto[t])
  <2>1. n \in Nat /\ n \in RowsOf(t)
    BY <1>2 DEF RowsIn, RowsOf
  <2>2. CASE n <= Floor(db, t)
    BY <1>1, <2>1, <2>2, FloorRefuses
  <2>3. CASE ~(n <= Floor(db, t))
    <3>1. Floor(db, t) < n /\ from <= n
      BY <1>1, <1>5, <1>6, <2>1, <2>3
    <3>2. QED
      BY <1>6, <2>1, <3>1 DEF Staged
  <2>4. QED
    BY <2>2, <2>3
<1>7. \A t \in Tables : /\ Staged(t, from, upto[t]) \subseteq RowsIn(tpLog, t)
                        /\ \A n \in Staged(t, from, upto[t]) : n <= upto[t]
  BY DEF Staged, RowsIn, RowsOf
<1>8. ASSUME NEW t \in Tables
      PROVE  Feeds(db, tpLog, t, ns, Staged(t, from, upto[t]))
  <2>1. ASSUME NEW i \in DOMAIN ns, ns[i] \in Staged(t, from, upto[t]),
               NEW m \in RowsIn(tpLog, t), m < ns[i]
        PROVE  \/ Refuses(db, t, m)
               \/ m \in Staged(t, from, upto[t]) /\ \E j \in DOMAIN ns : j < i /\ ns[j] = m
    <3>1. i \in DOMAIN tpLog /\ ns[i] = i /\ i <= upto[t] /\ i \in Nat
      BY <1>2, <1>3, <1>7, <2>1
    <3>2. m \in DOMAIN tpLog /\ m \in Nat
      BY <1>2 DEF RowsIn
    <3>3. m <= upto[t] /\ m < i
      BY <1>1, <2>1, <3>1, <3>2
    <3>4. m \in DOMAIN ns /\ ns[m] = m
      BY <1>3, <3>2
    <3> HIDE DEF ns
    <3>5. QED
      BY <1>6, <3>3, <3>4
  <2> HIDE DEF ns
  <2>2. QED
    BY <2>1 DEF Feeds
<1>9. Merge(from, upto, oc) = x
  BY DEF Merge
<1> HIDE DEF ns, R
<1>10. /\ DbUp(x, tpLog) /\ Higher(x, db)
       /\ \A t \in Tables : \A i \in DOMAIN ns : ns[i] \in R[t] => Refuses(x, t, ns[i])
  <2>1. \A t \in Tables : R[t] \subseteq RowsIn(tpLog, t) /\ Feeds(db, tpLog, t, ns, R[t])
    BY <1>4, <1>7, <1>8
  <2>2. ns \in Seq(Rows \cup {Eod})
    BY <1>3
  <2>3. QED
    BY <1>4, <2>1, <2>2, GoodIngestTables
<1> HIDE DEF x
<1>11. x \in DbType
  BY <1>10 DEF DbUp, DbGood
<1>12. ASSUME NEW t \in Tables, NEW n \in RowsIn(tpLog, t), n <= upto[t]
       PROVE  Refuses(x, t, n)
  <2>1. n \in DOMAIN tpLog /\ n \in Nat
    BY <1>2 DEF RowsIn
  <2>2. CASE Refuses(db, t, n)
    BY <1>1, <1>10, <1>11, <2>1, <2>2, HigherRefuses
  <2>3. CASE n \in Staged(t, from, upto[t])
    BY <1>3, <1>4, <1>10, <2>1, <2>3
  <2>4. QED
    BY <1>6, <1>12, <2>2, <2>3
<1>13. QED
  BY <1>9, <1>10, <1>12

\* Draining the live buffer takes the rows above the cutoff.
LEMMA GoodDrain ==
    ASSUME TypeInv, LogGood(tpLog), ChanOrder(chan), NEW s, DbUp(s, tpLog),
           \A t \in Tables : \A n \in RowsIn(tpLog, t) : n <= info.cutoff => Refuses(s, t, n),
           \A n \in DOMAIN tpLog : n > info.cutoff => \E i \in DOMAIN chan : chan[i] = n,
           NEW k \in 0 .. Len(chan), NEW oc \in Possible
    PROVE  LET x == Drain(s, k, oc) IN
           /\ DbUp(x, tpLog)
           /\ \A t \in Tables : \A n \in RowsIn(tpLog, t) :
                  Refuses(x, t, n) \/ \E i \in DOMAIN chan : i > k /\ chan[i] = n
<1> DEFINE ns == SubSeq(chan, 1, k)
           R == [t \in Tables |-> {n \in RowsOf(t) : n > info.cutoff}]
           x == IngestTables(s, ns, R, oc)
           T == Rows \cup {Eod}
           c == Len(chan)
<1>1. s \in DbType /\ info.cutoff \in Nat /\ chan \in Seq(T) /\ c \in Nat /\ DOMAIN chan = 1 .. c
  BY TypeFacts DEF DbUp, DbGood
<1>2. DOMAIN tpLog \subseteq Nat /\ 0 \notin DOMAIN tpLog
  BY LogGoodFacts, WdbConstants DEF Rows
<1>3. /\ ns \in Seq(T) /\ Len(ns) = k /\ \A i \in 1 .. k : ns[i] = chan[i]
  <2> HIDE DEF T
  <2>1. QED
    BY <1>1, PrefixSeq
<1>4. DOMAIN ns = 1 .. k /\ k \in Nat /\ k <= c
  BY <1>1, <1>3
<1>5. R = [t \in Tables |-> R[t]] /\ \A t \in Tables : R[t] = {n \in RowsIn(tpLog, t) : n > info.cutoff}
  BY DEF RowsOf, RowsIn
<1>6. Drain(s, k, oc) = x
  BY DEF Drain
<1> HIDE DEF ns, R, c
<1>7. ASSUME NEW t \in Tables
      PROVE  Feeds(s, tpLog, t, ns, R[t])
  <2>1. ASSUME NEW i \in DOMAIN ns, ns[i] \in R[t], NEW m \in RowsIn(tpLog, t), m < ns[i]
        PROVE  Refuses(s, t, m) \/ (m \in R[t] /\ \E j \in DOMAIN ns : j < i /\ ns[j] = m)
    <3>1. m \in DOMAIN tpLog /\ m \in Nat /\ m # Eod
      BY <1>2 DEF RowsIn, Eod
    <3>2. ns[i] = chan[i] /\ i \in DOMAIN chan /\ i \in 1 .. k
      BY <1>1, <1>3, <1>4
    <3>3. ns[i] \in DOMAIN tpLog /\ ns[i] \in Nat /\ ns[i] # Eod
      BY <1>2, <1>5, <2>1 DEF RowsIn, Eod
    <3>4. CASE m <= info.cutoff
      BY <3>4
    <3>5. CASE m > info.cutoff
      <4>1. PICK j \in DOMAIN chan : chan[j] = m
        BY <3>1, <3>5
      <4>2. j < i
        <5>1. j # i
          BY <2>1, <3>1, <3>2, <3>3, <4>1
        <5>2. ~(i < j)
          <6>1. SUFFICES ASSUME i < j PROVE FALSE
            OBVIOUS
          <6>2. chan[i] < chan[j]
            BY <3>1, <3>2, <3>3, <4>1, <6>1 DEF ChanOrder
          <6>3. QED
            BY <2>1, <3>1, <3>2, <3>3, <4>1, <6>2
        <5>3. QED
          BY <1>1, <3>2, <5>1, <5>2
      <4>3. j \in DOMAIN ns /\ ns[j] = m
        BY <1>1, <1>3, <1>4, <3>2, <4>1, <4>2
      <4>4. QED
        BY <1>5, <3>5, <4>2, <4>3
    <3>6. QED
      BY <1>1, <3>1, <3>4, <3>5
  <2>2. QED
    BY <2>1 DEF Feeds
<1>8. /\ DbUp(x, tpLog) /\ Higher(x, s)
      /\ \A t \in Tables : \A i \in DOMAIN ns : ns[i] \in R[t] => Refuses(x, t, ns[i])
  <2>1. \A t \in Tables : R[t] \subseteq RowsIn(tpLog, t) /\ Feeds(s, tpLog, t, ns, R[t])
    BY <1>5, <1>7
  <2>2. ns \in Seq(Rows \cup {Eod})
    BY <1>3
  <2>3. QED
    BY <1>5, <2>1, <2>2, GoodIngestTables
<1> HIDE DEF x
<1>9. x \in DbType
  BY <1>8 DEF DbUp, DbGood
<1>10. ASSUME NEW t \in Tables, NEW n \in RowsIn(tpLog, t)
       PROVE  Refuses(x, t, n) \/ \E i \in DOMAIN chan : i > k /\ chan[i] = n
  <2>1. n \in DOMAIN tpLog /\ n \in Nat
    BY <1>2 DEF RowsIn
  <2>2. CASE n <= info.cutoff
    BY <1>1, <1>8, <1>9, <2>1, <2>2, HigherRefuses
  <2>3. CASE n > info.cutoff
    <3>1. PICK i \in DOMAIN chan : chan[i] = n
      BY <2>1, <2>3
    <3>2. CASE i > k
      BY <3>1, <3>2
    <3>3. CASE ~(i > k)
      <4>1. i \in DOMAIN ns /\ ns[i] = n
        BY <1>1, <1>3, <1>4, <3>1, <3>3
      <4>2. n \in R[t]
        BY <1>5, <2>3
      <4>3. QED
        BY <1>8, <4>1, <4>2
    <3>4. QED
      BY <3>2, <3>3
  <2>4. QED
    BY <1>1, <2>1, <2>2, <2>3
<1>11. QED
  BY <1>6, <1>8, <1>10

-----------------------------------------------------------------------------
(* The invariant: every row is on disk, in memory or on its way            *)

\* What TP has logged is refused by WDB, because it has it, or is on its way.
OnItsWay == \A t \in Tables : \A n \in RowsIn(tpLog, t) :
                Refuses(db, t, n) \/ \E i \in DOMAIN chan : chan[i] = n

FloorInv ==
    /\ LogGood(tpLog)
    /\ DbGood(db, tpLog)
    /\ up => DbUp(db, tpLog)
    /\ conn # "down" => up
    /\ ChanOrder(chan)
    /\ conn = "replaying" => \A n \in DOMAIN tpLog : n > info.cutoff => \E i \in DOMAIN chan : chan[i] = n
    /\ conn = "live" => OnItsWay

\* The initial states satisfy the invariant.
LEMMA FloorInit ==
    ASSUME Seeded = TRUE, Init
    PROVE  FloorInv
<1>1. tpLog \in Seq(LogType) /\ DOMAIN tpLog = SeedRows /\ Len(tpLog) <= MaxLog
  BY InitLog
<1>2. LogGood(tpLog)
  <2>1. \A m, n \in DOMAIN tpLog : tpLog[m].date <= tpLog[n].date
    BY <1>1, InitLog
  <2>2. QED
    BY <1>1, <2>1 DEF LogGood
<1>3. Len(tpLog) \in Nat /\ DOMAIN tpLog = 1 .. Len(tpLog)
  BY <1>2, LogGoodFacts, WdbConstants
<1>4. db \in DbType /\ OnDisk(db) = SeedRows
  BY InitDb DEF OnDisk
<1>5. ASSUME NEW t \in Tables
      PROVE  TableGood(db, tpLog, t)
  <2>1. /\ db.cp[t] = 0 /\ db.bufMax[t] = 0 /\ \A n \in Rows : db.buf[t][n] = 0
        /\ db.cpFile[t] \in SeedRows
    BY InitDb
  <2>2. db.cpFile[t] > 0 /\ db.cpFile[t] <= Len(tpLog)
    BY <1>1, <1>3, <2>1
  <2>3. RowsIn(tpLog, t) \subseteq OnDisk(db)
    BY <1>1, <1>4 DEF RowsIn
  <2>4. QED
    BY <1>3, <2>1, <2>2, <2>3 DEF TableGood
<1>6. DbGood(db, tpLog)
  <2>1. DiskOnce(db, tpLog)
    BY <1>4, InitDb DEF DiskOnce
  <2>2. QED
    BY <1>1, <1>4, <1>5, <2>1 DEF DbGood
<1>7. ~up /\ conn = "down" /\ chan = <<>>
  BY DEF Init
<1>8. ChanOrder(chan)
  BY <1>7, EmptyChan DEF ChanOrder
<1>9. "down" # "replaying" /\ "down" # "live"
  OBVIOUS
<1>10. QED
  BY <1>2, <1>6, <1>7, <1>8, <1>9 DEF FloorInv

\* M is the log L with one more row.
OneMore(M, L) ==
    /\ Len(M) = Len(L) + 1
    /\ \A i \in DOMAIN L : M[i] = L[i]

\* A row more in the log takes nothing from what WDB has.
LEMMA GoodOneMore ==
    ASSUME NEW L, LogGood(L), NEW M, LogGood(M), OneMore(M, L), NEW s, DbGood(s, L)
    PROVE  /\ DbGood(s, M)
           /\ DbUp(s, L) => DbUp(s, M)
           /\ \A t \in Tables : \A n \in RowsIn(M, t) : n \in RowsIn(L, t) \/ n = Len(L) + 1
<1>1. /\ Len(L) \in Nat /\ DOMAIN L = 1 .. Len(L) /\ DOMAIN M = 1 .. Len(L) + 1
      /\ Len(M) = Len(L) + 1
  BY LogGoodFacts, WdbConstants DEF OneMore
<1>2. s \in DbType /\ OnDisk(s) \subseteq DOMAIN L
  BY DEF DbGood
<1>3. ASSUME NEW t \in Tables
      PROVE  /\ RowsIn(L, t) \subseteq RowsIn(M, t)
             /\ \A n \in RowsIn(M, t) : n \in RowsIn(L, t) \/ n = Len(L) + 1
  <2>1. \A n \in DOMAIN L : n \in DOMAIN M /\ M[n] = L[n]
    BY <1>1 DEF OneMore
  <2>2. \A n \in DOMAIN M : n \in DOMAIN L \/ n = Len(L) + 1
    BY <1>1
  <2>3. QED
    BY <2>1, <2>2 DEF RowsIn
<1>4. Len(L) + 1 \notin OnDisk(s)
  BY <1>1, <1>2
<1>5. ASSUME NEW t \in Tables
      PROVE  TableGood(s, M, t)
  <2>1. TableGood(s, L, t)
    BY DEF DbGood
  <2>2. s.cp[t] \in Nat /\ s.bufMax[t] \in Nat /\ s.cpFile[t] \in Nat
    BY <1>2, WdbConstants DEF DbType
  <2>3. s.cp[t] <= Len(L) /\ s.bufMax[t] <= Len(L) /\ s.cpFile[t] <= Len(L) /\ s.cpFile[t] > 0
    BY <2>1 DEF TableGood
  <2>4. ASSUME NEW n \in RowsIn(M, t), n \notin RowsIn(L, t)
        PROVE  /\ ~(n <= s.cp[t]) /\ ~(n <= s.cpFile[t]) /\ ~(n <= s.bufMax[t])
               /\ n \notin OnDisk(s)
    BY <1>1, <1>3, <1>4, <2>2, <2>3, <2>4
  <2>5. \A n \in Rows : s.buf[t][n] > 0 => n \in RowsIn(M, t) /\ n <= s.bufMax[t]
    BY <1>3, <2>1 DEF TableGood
  <2>6. \A n \in RowsIn(M, t) :
           /\ n <= s.cp[t] \/ n <= s.cpFile[t] => n \in OnDisk(s)
           /\ n <= s.bufMax[t] => n \in OnDisk(s) \/ s.buf[t][n] > 0
    BY <2>1, <2>4 DEF TableGood
  <2>7. ASSUME NEW m \in RowsIn(M, t), NEW n \in RowsIn(M, t), m < n, n \in OnDisk(s)
        PROVE  m \in OnDisk(s)
    <3>1. n \in RowsIn(L, t) /\ n \in DOMAIN L
      BY <2>4, <2>7 DEF RowsIn
    <3>2. m # Len(L) + 1
      BY <1>1, <2>7, <3>1
    <3>3. m \in RowsIn(L, t)
      BY <1>3, <3>2
    <3>4. QED
      BY <2>1, <2>7, <3>1, <3>3 DEF TableGood
  <2>8. s.cp[t] <= Len(M) /\ s.bufMax[t] <= Len(M) /\ s.cpFile[t] <= Len(M)
    BY <1>1, <2>2, <2>3
  <2>9. QED
    BY <2>3, <2>5, <2>6, <2>7, <2>8 DEF TableGood
<1>6. OnDisk(s) \subseteq DOMAIN M
  BY <1>1, <1>2
<1>7. SavesWork => DiskOnce(s, M)
  <2>1. \A n \in s.hdb : n \in DOMAIN L /\ M[n] = L[n]
    BY <1>2 DEF OnDisk, OneMore
  <2>2. QED
    BY <2>1 DEF DbGood, DiskOnce
<1>8. \A t \in Tables : Checkpointed(s, L, t) => Checkpointed(s, M, t)
  BY <1>3, <1>4 DEF Checkpointed
<1>9. DbGood(s, M)
  BY <1>2, <1>5, <1>6, <1>7 DEF DbGood
<1>10. QED
  BY <1>3, <1>8, <1>9 DEF DbUp

\* A message is published behind the others.
LEMMA OrderKept ==
    ASSUME NEW q \in Seq(Rows \cup {Eod}), ChanOrder(q), NEW m \in Rows \cup {Eod}, NEW k \in Nat,
           \A i \in DOMAIN q : q[i] <= k, m = Eod \/ m = k + 1
    PROVE  /\ ChanOrder(Append(q, m))
           /\ \A n : (\E i \in DOMAIN q : q[i] = n) => \E i \in DOMAIN Append(q, m) : Append(q, m)[i] = n
           /\ \E i \in DOMAIN Append(q, m) : Append(q, m)[i] = m
<1> DEFINE T == Rows \cup {Eod}
           n == Len(q)
           a == Append(q, m)
<1>1. n \in Nat /\ DOMAIN q = 1 .. n /\ \A i \in DOMAIN q : q[i] \in Nat
  BY WdbConstants DEF Rows, Eod
<1>2. m \in T /\ q \in Seq(T)
  OBVIOUS
<1> HIDE DEF T
<1>3. /\ a \in Seq(T) /\ Len(a) = n + 1
      /\ \A i \in 1 .. n : a[i] = q[i]
      /\ a[n + 1] = m
  BY <1>2, AppendSeq
<1>4. DOMAIN a = 1 .. n + 1
  BY <1>1, <1>3
<1> HIDE DEF n, a
<1>5. ASSUME NEW i \in 1 .. n + 1, NEW j \in 1 .. n + 1, i < j, a[i] # Eod, a[j] # Eod
      PROVE  a[i] < a[j]
  <2>1. i \in 1 .. n /\ a[i] = q[i] /\ i \in DOMAIN q
    BY <1>1, <1>3, <1>5
  <2>2. CASE j \in 1 .. n
    BY <1>1, <1>3, <1>5, <2>1, <2>2 DEF ChanOrder
  <2>3. CASE j = n + 1
    <3>1. a[j] = k + 1
      BY <1>3, <1>5, <2>3
    <3>2. QED
      BY <1>1, <2>1, <3>1
  <2>4. QED
    BY <1>1, <2>2, <2>3
<1>6. ChanOrder(a)
  BY <1>4, <1>5 DEF ChanOrder
<1>7. \A i \in 1 .. n : i \in 1 .. n + 1 /\ a[i] = q[i]
  BY <1>1, <1>3
<1>8. n + 1 \in 1 .. n + 1
  BY <1>1
<1>9. QED
  BY <1>1, <1>3, <1>4, <1>6, <1>7, <1>8 DEF a

\* Logging a row keeps the invariant: the row goes on its way.
LEMMA TpLogFloor ==
    ASSUME DatesInOrder = TRUE, TypeInv, FloorInv, NEW t \in Tables, NEW d \in Days, TpLog(t, d)
    PROVE  FloorInv'
<1> DEFINE row == [tbl |-> t, date |-> d, day |-> tpDay]
           n == Len(tpLog)
           M == tpLog'
<1>1. row \in LogType /\ row.tbl = t /\ row.date = d
  BY TypeFacts DEF LogType
<1>2. /\ tpLog \in Seq(LogType) /\ M = Append(tpLog, row) /\ n \in Nat /\ n < MaxLog
      /\ DOMAIN tpLog = 1 .. n
  BY TypeFacts DEF TpLog
<1>3. chan' = IF conn = "down" THEN chan ELSE Append(chan, n + 1)
  BY DEF TpLog
<1>4. UNCHANGED <<conn, info, up, db>>
  BY DEF TpLog
<1>5. \A m \in RowsIn(tpLog, t) : tpLog[m].date <= d
  BY DEF TpLog, RowsOf, RowsIn
<1> HIDE DEF row
<1>6. /\ M \in Seq(LogType) /\ Len(M) = n + 1
      /\ \A i \in 1 .. n : M[i] = tpLog[i]
      /\ M[n + 1] = row
  BY <1>1, <1>2, AppendSeq
<1>7. DOMAIN M = 1 .. n + 1
  BY <1>2, <1>6
<1> HIDE DEF n, M
<1>8. n = Len(tpLog) /\ M = tpLog'
  BY DEF n, M
<1>9. ASSUME NEW i \in DOMAIN M, NEW j \in DOMAIN M, M[i].tbl = M[j].tbl, i < j
      PROVE  M[i].date <= M[j].date
  <2>1. i \in 1 .. n /\ M[i] = tpLog[i] /\ i \in DOMAIN tpLog
    BY <1>2, <1>6, <1>7, <1>9
  <2>2. CASE j \in 1 .. n
    <3>1. M[j] = tpLog[j] /\ j \in DOMAIN tpLog
      BY <1>2, <1>6, <2>2
    <3>2. QED
      BY <1>9, <2>1, <3>1 DEF FloorInv, LogGood
  <2>3. CASE j = n + 1
    <3>1. M[j].tbl = t /\ M[j].date = d
      BY <1>1, <1>6, <2>3
    <3>2. i \in RowsIn(tpLog, t)
      BY <1>9, <2>1, <3>1 DEF RowsIn
    <3>3. QED
      BY <1>5, <2>1, <3>1, <3>2
  <2>4. QED
    BY <1>2, <1>7, <2>2, <2>3
<1>10. LogGood(M) /\ OneMore(M, tpLog)
  <2>1. Len(M) <= MaxLog
    BY <1>2, <1>6, WdbConstants
  <2>2. LogGood(M)
    BY <1>6, <1>9, <2>1 DEF LogGood
  <2>3. QED
    BY <1>2, <1>6, <1>8, <2>2 DEF OneMore
<1>11. /\ DbGood(db, M) /\ (DbUp(db, tpLog) => DbUp(db, M))
       /\ \A u \in Tables : \A m \in RowsIn(M, u) : m \in RowsIn(tpLog, u) \/ m = n + 1
  BY <1>8, <1>10, GoodOneMore DEF FloorInv
<1>12. DbGood(db', tpLog') /\ (up' => DbUp(db', tpLog')) /\ LogGood(tpLog')
  BY <1>4, <1>8, <1>10, <1>11 DEF FloorInv
<1>13. conn' # "down" => up'
  BY <1>4 DEF FloorInv
<1>14. ChanOrder(chan) /\ chan \in Seq(Rows \cup {Eod}) /\ \A i \in DOMAIN chan : chan[i] <= n
  BY <1>8, TypeFacts DEF FloorInv
<1>15. n + 1 \in Rows \cup {Eod}
  BY <1>2, WdbConstants DEF Rows
<1>16. CASE conn = "down"
  <2>1. chan' = chan /\ conn' # "replaying" /\ conn' # "live"
    BY <1>3, <1>4, <1>16
  <2>2. QED
    BY <1>12, <1>13, <1>14, <2>1 DEF FloorInv
<1>17. CASE conn # "down"
  <2> DEFINE a == Append(chan, n + 1)
  <2>1. /\ ChanOrder(a)
        /\ \A m : (\E i \in DOMAIN chan : chan[i] = m) => \E i \in DOMAIN a : a[i] = m
        /\ \E i \in DOMAIN a : a[i] = n + 1
    BY <1>2, <1>14, <1>15, OrderKept
  <2>2. chan' = a
    BY <1>3, <1>17
  <2> HIDE DEF a
  <2>3. ASSUME conn' = "replaying", NEW m \in DOMAIN tpLog', m > info'.cutoff
        PROVE  \E i \in DOMAIN chan' : chan'[i] = m
    <3>1. CASE m = n + 1
      BY <2>1, <2>2, <3>1
    <3>2. CASE m # n + 1
      <4>1. m \in DOMAIN tpLog
        BY <1>2, <1>7, <1>8, <2>3, <3>2
      <4>2. \E i \in DOMAIN chan : chan[i] = m
        BY <1>4, <2>3, <4>1 DEF FloorInv
      <4>3. QED
        BY <2>1, <2>2, <4>2
    <3>3. QED
      BY <3>1, <3>2
  <2>4. ASSUME conn' = "live", NEW u \in Tables, NEW m \in RowsIn(tpLog', u)
        PROVE  Refuses(db', u, m) \/ \E i \in DOMAIN chan' : chan'[i] = m
    <3>1. CASE m = n + 1
      BY <2>1, <2>2, <3>1
    <3>2. CASE m \in RowsIn(tpLog, u)
      <4>1. Refuses(db, u, m) \/ \E i \in DOMAIN chan : chan[i] = m
        BY <1>4, <2>4, <3>2 DEF FloorInv, OnItsWay
      <4>2. QED
        BY <1>4, <2>1, <2>2, <4>1
    <3>3. QED
      BY <1>8, <1>11, <2>4, <3>1, <3>2
  <2>5. conn' = "live" => OnItsWay'
    BY <2>4 DEF OnItsWay
  <2>6. ChanOrder(chan')
    BY <2>1, <2>2
  <2>7. QED
    BY <1>12, <1>13, <2>3, <2>5, <2>6 DEF FloorInv
<1>18. QED
  BY <1>16, <1>17

\* WDB at work between two messages.
LEMMA QuietFloor ==
    ASSUME TypeInv, FloorInv, up, DbUp(db', tpLog), Higher(db', db),
           UNCHANGED <<tpLog, conn, chan, info, up>>
    PROVE  FloorInv'
<1>1. db \in DbType /\ db' \in DbType /\ DbGood(db', tpLog)
  BY TypeFacts DEF DbUp, DbGood
<1>2. ASSUME conn' = "live", NEW t \in Tables, NEW n \in RowsIn(tpLog', t)
      PROVE  Refuses(db', t, n) \/ \E i \in DOMAIN chan' : chan'[i] = n
  <2>1. n \in RowsIn(tpLog, t)
    OBVIOUS
  <2>2. n \in Nat
    BY <2>1, LogGoodFacts, WdbConstants DEF FloorInv, Rows
  <2>3. Refuses(db, t, n) \/ \E i \in DOMAIN chan : chan[i] = n
    BY <1>2, <2>1 DEF FloorInv, OnItsWay
  <2>4. QED
    BY <1>1, <2>2, <2>3, HigherRefuses
<1>3. conn' = "live" => OnItsWay'
  BY <1>2 DEF OnItsWay
<1>4. QED
  BY <1>1, <1>3 DEF FloorInv

\* A process that ends leaves its disk good.
LEMMA GoneFloor ==
    ASSUME FloorInv, Gone, DbGood(db', tpLog)
    PROVE  FloorInv'
<1>1. up' = FALSE /\ conn' = "down" /\ chan' = <<>> /\ tpLog' = tpLog
  BY DEF Gone, tpVars
<1>2. ChanOrder(chan')
  BY <1>1, EmptyChan DEF ChanOrder
<1>3. conn' # "replaying" /\ conn' # "live"
  BY <1>1
<1>4. QED
  BY <1>1, <1>2, <1>3 DEF FloorInv

\* The checkpoint after a start: not below any row of the temporary partitions,
\* and no row at or below it is missing on disk.
LEMMA ReconciledIs ==
    ASSUME TypeInv, DbGood(db, tpLog), LogGood(tpLog), NEW t \in Tables
    PROVE  /\ Reconciled(t) <= Len(tpLog) /\ Reconciled(t) >= db.cpFile[t] /\ Reconciled(t) > 0
           /\ \A n \in RowsIn(tpLog, t) : n \in db.tmp => n <= Reconciled(t)
           /\ \A n \in RowsIn(tpLog, t) : n <= Reconciled(t) => n \in OnDisk(db)
<1>1. db.cpFile[t] \in Nat /\ DiskMax(db, t) \in Nat /\ db.tmp \subseteq Rows /\ MaxLog \in Nat
  BY StartTyped, TypeFacts, WdbConstants DEF DbType
<1>2. Reconciled(t) = IF db.cpFile[t] >= DiskMax(db, t) THEN db.cpFile[t] ELSE DiskMax(db, t)
  BY <1>1, MaxOfTwo DEF Reconciled, LoadedCheckpoint
<1> DEFINE S == {n \in db.tmp : tpLog[n].tbl = t} \cup {0}
<1>3. DiskMax(db, t) \in S /\ \A n \in S : n <= DiskMax(db, t)
  <2>1. S \subseteq Nat /\ S # {} /\ \A n \in S : n <= MaxLog
    BY <1>1 DEF Rows
  <2>2. DiskMax(db, t) = Max(S)
    BY DEF DiskMax
  <2> HIDE DEF S
  <2>3. QED
    BY <1>1, <2>1, <2>2, MaxOfSet
<1>4. TableGood(db, tpLog, t) /\ OnDisk(db) \subseteq DOMAIN tpLog
  BY DEF DbGood
<1>5. Len(tpLog) \in Nat /\ DOMAIN tpLog = 1 .. Len(tpLog)
  BY LogGoodFacts, WdbConstants
<1>6. DiskMax(db, t) = 0 \/ (DiskMax(db, t) \in RowsIn(tpLog, t) /\ DiskMax(db, t) \in OnDisk(db))
  BY <1>3, <1>4 DEF RowsIn, OnDisk
<1>7. db.cpFile[t] > 0 /\ db.cpFile[t] <= Len(tpLog)
  BY <1>4 DEF TableGood
<1>8. DiskMax(db, t) <= Len(tpLog)
  BY <1>5, <1>6 DEF RowsIn
<1>9. ASSUME NEW n \in RowsIn(tpLog, t), n <= Reconciled(t)
      PROVE  n \in OnDisk(db)
  <2>1. n \in Nat /\ n > 0
    BY <1>5 DEF RowsIn
  <2>2. CASE n <= db.cpFile[t]
    BY <1>4, <2>2 DEF TableGood
  <2>3. CASE n <= DiskMax(db, t)
    <3>1. DiskMax(db, t) \in RowsIn(tpLog, t) /\ DiskMax(db, t) \in OnDisk(db)
      BY <1>6, <2>1, <2>3
    <3>2. n < DiskMax(db, t) \/ n = DiskMax(db, t)
      BY <1>1, <2>1, <2>3
    <3>3. QED
      BY <1>4, <3>1, <3>2 DEF TableGood
  <2>4. QED
    BY <1>2, <1>9, <2>2, <2>3
<1>10. ASSUME NEW n \in RowsIn(tpLog, t), n \in db.tmp
       PROVE  n <= Reconciled(t)
  <2>1. n \in S /\ n \in Nat
    BY <1>5, <1>10 DEF RowsIn
  <2>2. n <= DiskMax(db, t)
    BY <1>3, <2>1
  <2>3. QED
    BY <1>1, <1>2, <2>1, <2>2
<1>11. QED
  BY <1>1, <1>2, <1>7, <1>8, <1>9, <1>10

\* No step makes a save fail when none may.
LEMMA NoSaveFault ==
    ASSUME TypeInv, SavesWork, NEW fs, Faults(fs)
    PROVE  "save" \notin fs
<1>1. "save" \in FaultKinds
  BY DEF FaultKinds
<1>2. faults["save"] \in 0 .. MaxFaults["save"] /\ MaxFaults["save"] = 0
  BY <1>1, TypeFacts DEF FaultsTyped, SavesWork
<1>3. "save" \in fs => faults["save"] < MaxFaults["save"]
  BY DEF Faults
<1>4. QED
  BY <1>2, <1>3

\* What a step makes go wrong is possible.
LEMMA ChargePossible ==
    ASSUME TypeInv, NEW oc \in Outcomes, NEW fs, Faults(fs), Cost(oc) \subseteq fs
    PROVE  oc \in Possible
<1>1. ASSUME SavesWork, NEW t \in Tables, oc[t].save # TRUE
      PROVE  FALSE
  <2>1. oc[t] \in OutcomeType
    BY OutcomeTyped
  <2>2. ~oc[t].save
    BY <1>1, <2>1 DEF OutcomeType
  <2>3. AllWell[t].save = TRUE
    BY DEF AllWell
  <2>4. oc # AllWell
    BY <1>1, <2>3
  <2>5. Cost(oc) = {"save"}
    BY <2>2, <2>4 DEF Cost
  <2>6. QED
    BY <1>1, <2>5, NoSaveFault
<1>2. QED
  BY <1>1 DEF Possible

\* Nothing going wrong is possible.
LEMMA AllWellPossible ==
    AllWell \in Possible
BY AllWellOutcome DEF Possible, AllWell

\* Starting WDB keeps the invariant.
LEMMA StartFloor ==
    ASSUME TypeInv, FloorInv, Start
    PROVE  FloorInv'
<1>1. ~up /\ up' /\ UNCHANGED <<tpLog, conn, chan, info>>
  BY DEF Start, tpVars, connVars
<1>2. conn = "down" /\ conn' # "replaying" /\ conn' # "live"
  BY <1>1 DEF FloorInv
<1>3. /\ db' \in DbType /\ OnDisk(db') = OnDisk(db)
      /\ db'.buf = db.buf /\ db'.bufMax = db.bufMax
      /\ db'.hdb = db.hdb /\ db'.copies = db.copies
      /\ \A t \in Tables : db'.cp[t] = Reconciled(t)
      /\ db'.cpFile = db'.cp \/ (db'.cpFile = db.cpFile /\ Fault("save"))
  BY StartDoes DEF OnDisk
<1>4. DbGood(db, tpLog) /\ LogGood(tpLog)
  BY DEF FloorInv
<1>5. ASSUME NEW t \in Tables
      PROVE  TableGood(db', tpLog, t) /\ db'.cp[t] > 0
  <2>1. TableGood(db, tpLog, t)
    BY <1>4 DEF DbGood
  <2>2. /\ db'.cp[t] <= Len(tpLog) /\ db'.cp[t] > 0
        /\ \A n \in RowsIn(tpLog, t) : n <= db'.cp[t] => n \in OnDisk(db)
    BY <1>3, <1>4, ReconciledIs
  <2>3. db'.cpFile[t] = db'.cp[t] \/ db'.cpFile[t] = db.cpFile[t]
    BY <1>3
  <2>4. QED
    BY <1>3, <2>1, <2>2, <2>3 DEF TableGood
<1>6. ASSUME SavesWork
      PROVE  DiskOnce(db', tpLog) /\ \A t \in Tables : Checkpointed(db', tpLog, t)
  <2>1. db'.cpFile = db'.cp
    BY <1>3, <1>6, NoSaveFault DEF Fault
  <2>2. DiskOnce(db, tpLog)
    BY <1>4, <1>6 DEF DbGood
  <2>3. ASSUME NEW t \in Tables, NEW n \in RowsIn(tpLog, t), n \in OnDisk(db)
        PROVE  n <= db'.cp[t]
    <3>1. /\ db'.cp[t] >= db.cpFile[t] /\ (n \in db.tmp => n <= db'.cp[t])
      BY <1>3, <1>4, ReconciledIs
    <3>2. CASE n \in db.tmp
      BY <3>1, <3>2
    <3>3. CASE n \in db.hdb
      <4>1. n <= db.cpFile[t]
        BY <2>2, <3>3 DEF DiskOnce, RowsIn
      <4>2. n \in Nat /\ db.cpFile[t] \in Nat /\ db'.cp[t] \in Nat
        BY <1>3, <1>4, LogGoodFacts, TypeFacts, WdbConstants DEF DbType, Rows
      <4>3. QED
        BY <3>1, <4>1, <4>2
    <3>4. QED
      BY <2>3, <3>2, <3>3 DEF OnDisk
  <2>4. \A t \in Tables : Checkpointed(db', tpLog, t)
    BY <1>3, <2>1, <2>3 DEF Checkpointed
  <2>5. ASSUME NEW n \in db'.hdb
        PROVE  n <= db'.cpFile[tpLog[n].tbl]
    <3>1. n \in OnDisk(db) /\ n \in DOMAIN tpLog
      BY <1>3, <1>4 DEF OnDisk, DbGood
    <3>2. tpLog[n].tbl \in Tables /\ n \in RowsIn(tpLog, tpLog[n].tbl)
      BY <1>4, <3>1, LogGoodFacts DEF RowsIn
    <3>3. QED
      BY <2>1, <2>3, <3>1, <3>2
  <2>6. QED
    BY <1>3, <2>2, <2>4, <2>5 DEF DiskOnce
<1>7. DbUp(db', tpLog)
  BY <1>3, <1>4, <1>5, <1>6 DEF DbUp, DbGood
<1>8. QED
  BY <1>1, <1>2, <1>7 DEF FloorInv, DbUp

\* Finishing the replay keeps the invariant.
LEMMA ReplayFloor ==
    ASSUME TypeInv, FloorInv, Replay
    PROVE  FloorInv'
<1>1. conn = "replaying" /\ conn' = "live" /\ UNCHANGED <<tpLog, info, up>>
  BY DEF Replay, tpVars
<1>2. PICK from \in ReadFrom : \E k \in 0 .. Len(chan), oc \in Outcomes :
        /\ Charge(oc)
        /\ LET replayed == Drain(Merge(from, ToCutoff, oc), k, oc) IN
           db' = IF startupRollDone THEN replayed ELSE RollDb(replayed, oc, {})
        /\ chan' = SubSeq(chan, k + 1, Len(chan))
  BY DEF Replay
<1>3. PICK k \in 0 .. Len(chan), oc \in Outcomes :
        /\ Charge(oc)
        /\ LET replayed == Drain(Merge(from, ToCutoff, oc), k, oc) IN
           db' = IF startupRollDone THEN replayed ELSE RollDb(replayed, oc, {})
        /\ chan' = SubSeq(chan, k + 1, Len(chan))
  BY <1>2
<1> DEFINE y == Merge(from, ToCutoff, oc)
           x == Drain(y, k, oc)
<1>4. db' = IF startupRollDone THEN x ELSE RollDb(x, oc, {})
  BY <1>3
<1>5. up /\ LogGood(tpLog) /\ DbUp(db, tpLog) /\ ChanOrder(chan) /\ oc \in Possible
  BY <1>1, <1>3, ChargePossible DEF FloorInv, Charge
<1>6. /\ DbUp(y, tpLog)
      /\ \A t \in Tables : \A n \in RowsIn(tpLog, t) : n <= info.cutoff => Refuses(y, t, n)
  <2>1. ToCutoff \in [Tables -> 0 .. info.cutoff] /\ \A t \in Tables : ToCutoff[t] = info.cutoff
    BY TypeFacts DEF ToCutoff
  <2>2. QED
    BY <1>5, <2>1, GoodMerge
<1>7. \A n \in DOMAIN tpLog : n > info.cutoff => \E i \in DOMAIN chan : chan[i] = n
  BY <1>1 DEF FloorInv
<1> HIDE DEF y
<1>8. /\ DbUp(x, tpLog)
      /\ \A t \in Tables : \A n \in RowsIn(tpLog, t) :
             Refuses(x, t, n) \/ \E i \in DOMAIN chan : i > k /\ chan[i] = n
  BY <1>5, <1>6, <1>7, GoodDrain
<1> HIDE DEF x
<1>9. x \in DbType
  BY <1>8 DEF DbUp, DbGood
<1>10. DbUp(db', tpLog) /\ Higher(db', x)
  <2>1. CASE startupRollDone
    BY <1>4, <1>8, <1>9, <2>1, HigherReflexive
  <2>2. CASE ~startupRollDone
    BY <1>4, <1>5, <1>8, <2>2, GoodRollDb
  <2>3. QED
    BY <2>1, <2>2
<1>11. db' \in DbType
  BY <1>10 DEF DbUp, DbGood
<1> DEFINE T == Rows \cup {Eod}
           c == Len(chan)
<1>12. chan \in Seq(T) /\ c \in Nat /\ DOMAIN chan = 1 .. c
  BY TypeFacts
<1>13. /\ chan' \in Seq(T) /\ Len(chan') = c - k
       /\ \A i \in 1 .. c - k : chan'[i] = chan[k + i]
  <2> HIDE DEF T
  <2>1. QED
    BY <1>3, <1>12, SuffixSeq
<1>14. DOMAIN chan' = 1 .. c - k /\ k \in Nat /\ k <= c
  BY <1>12, <1>13
<1> HIDE DEF c
<1>15. ChanOrder(chan')
  <2>1. ASSUME NEW i \in DOMAIN chan', NEW j \in DOMAIN chan', i < j, chan'[i] # Eod, chan'[j] # Eod
        PROVE  chan'[i] < chan'[j]
    <3>1. k + i \in DOMAIN chan /\ k + j \in DOMAIN chan /\ k + i < k + j
      BY <1>12, <1>14, <2>1
    <3>2. chan'[i] = chan[k + i] /\ chan'[j] = chan[k + j]
      BY <1>13, <1>14
    <3>3. QED
      BY <1>5, <2>1, <3>1, <3>2 DEF ChanOrder
  <2>2. QED
    BY <2>1 DEF ChanOrder
<1>16. ASSUME NEW t \in Tables, NEW n \in RowsIn(tpLog, t)
       PROVE  Refuses(db', t, n) \/ \E i \in DOMAIN chan' : chan'[i] = n
  <2>1. n \in Nat
    BY <1>5, LogGoodFacts, WdbConstants DEF Rows
  <2>2. CASE Refuses(x, t, n)
    BY <1>9, <1>10, <1>11, <2>1, <2>2, HigherRefuses
  <2>3. CASE \E i \in DOMAIN chan : i > k /\ chan[i] = n
    <3>1. PICK i \in DOMAIN chan : i > k /\ chan[i] = n
      BY <2>3
    <3>2. i - k \in 1 .. c - k /\ k + (i - k) = i
      BY <1>12, <1>14, <3>1
    <3>3. chan'[i - k] = n
      BY <1>13, <3>1, <3>2
    <3>4. QED
      BY <1>14, <3>2, <3>3
  <2>4. QED
    BY <1>8, <2>2, <2>3
<1>17. OnItsWay'
  BY <1>1, <1>16 DEF OnItsWay
<1>18. QED
  BY <1>1, <1>5, <1>10, <1>15, <1>17 DEF FloorInv, DbUp

\* The first row that has come is the next one for its table.
LEMMA HeadIsNext ==
    ASSUME TypeInv, FloorInv, conn = "live", chan # <<>>, Head(chan) # Eod
    PROVE  LET h == Head(chan)
               t == tpLog[h].tbl
           IN  t \in Tables /\ h \in RowsIn(tpLog, t) /\ NoneBefore(db, tpLog, t, h)
<1> DEFINE h == Head(chan)
           t == tpLog[h].tbl
<1>1. LogGood(tpLog) /\ ChanOrder(chan) /\ OnItsWay
  BY DEF FloorInv
<1>2. h = chan[1] /\ 1 \in DOMAIN chan /\ DOMAIN chan \subseteq Nat /\ \A i \in DOMAIN chan : i >= 1
  BY TypeFacts
<1> HIDE DEF h
<1>3. h \in DOMAIN tpLog /\ h # Eod
  BY <1>2, ChanRows DEF h
<1>4. t \in Tables /\ h \in RowsIn(tpLog, t) /\ h \in Nat
  BY <1>1, <1>3, LogGoodFacts, WdbConstants DEF RowsIn, Rows
<1> HIDE DEF t
<1>5. ASSUME NEW m \in RowsIn(tpLog, t), m < h
      PROVE  Refuses(db, t, m)
  <2>1. m \in Nat /\ m # Eod
    BY <1>1, LogGoodFacts, WdbConstants DEF RowsIn, Rows, Eod
  <2>2. ASSUME NEW i \in DOMAIN chan, chan[i] = m
        PROVE  FALSE
    <3>1. CASE i = 1
      BY <1>2, <1>4, <1>5, <2>1, <2>2, <3>1
    <3>2. CASE i # 1
      <4>1. 1 < i
        BY <1>2, <3>2
      <4>2. chan[1] < chan[i]
        BY <1>1, <1>2, <1>3, <2>1, <2>2, <4>1 DEF ChanOrder
      <4>3. QED
        BY <1>2, <1>4, <1>5, <2>1, <2>2, <4>2
    <3>3. QED
      BY <3>1, <3>2
  <2>3. QED
    BY <1>1, <1>4, <2>2 DEF OnItsWay
<1>6. QED
  BY <1>4, <1>5 DEF NoneBefore, h, t

\* Delivering a message keeps the invariant.
LEMMA DeliverFloor ==
    ASSUME TypeInv, FloorInv, Deliver
    PROVE  FloorInv'
<1>1. conn = "live" /\ chan # <<>> /\ chan' = Tail(chan) /\ UNCHANGED <<tpLog, conn, info, up>>
  BY DEF Deliver, tpVars
<1>2. up /\ LogGood(tpLog) /\ DbUp(db, tpLog) /\ ChanOrder(chan) /\ OnItsWay
  BY <1>1 DEF FloorInv
<1> DEFINE T == Rows \cup {Eod}
           c == Len(chan)
           h == Head(chan)
<1>3. chan \in Seq(T) /\ c \in Nat /\ DOMAIN chan = 1 .. c /\ db \in DbType
  BY TypeFacts
<1>4. /\ h = chan[1] /\ c >= 1 /\ Len(chan') = c - 1 /\ chan' \in Seq(T)
      /\ \A i \in 1 .. c - 1 : chan'[i] = chan[i + 1]
  <2> HIDE DEF T
  <2>1. QED
    BY <1>1, <1>3, TailSeq
<1>5. DOMAIN chan' = 1 .. c - 1 /\ 1 \in DOMAIN chan
  BY <1>3, <1>4
<1> HIDE DEF c, h
<1>6. ChanOrder(chan')
  <2>1. ASSUME NEW i \in DOMAIN chan', NEW j \in DOMAIN chan', i < j, chan'[i] # Eod, chan'[j] # Eod
        PROVE  chan'[i] < chan'[j]
    <3>1. i + 1 \in DOMAIN chan /\ j + 1 \in DOMAIN chan /\ i + 1 < j + 1
      BY <1>3, <1>5, <2>1
    <3>2. chan'[i] = chan[i + 1] /\ chan'[j] = chan[j + 1]
      BY <1>4, <1>5
    <3>3. QED
      BY <1>2, <2>1, <3>1, <3>2 DEF ChanOrder
  <2>2. QED
    BY <2>1 DEF ChanOrder
<1>7. ASSUME NEW i \in DOMAIN chan
      PROVE  chan[i] = h \/ \E j \in DOMAIN chan' : chan'[j] = chan[i]
  <2>1. CASE i = 1
    BY <1>4, <2>1
  <2>2. CASE i # 1
    <3>1. i - 1 \in 1 .. c - 1 /\ (i - 1) + 1 = i
      BY <1>3, <2>2
    <3>2. chan'[i - 1] = chan[i]
      BY <1>4, <3>1
    <3>3. QED
      BY <1>5, <3>1, <3>2
  <2>3. QED
    BY <2>1, <2>2
<1>8. DbUp(db', tpLog) /\ Higher(db', db) /\ (h # Eod => Refuses(db', tpLog[h].tbl, h))
  <2>1. CASE h = Eod
    <3>1. db' = db
      BY <2>1 DEF Deliver, h
    <3>2. QED
      BY <1>2, <1>3, <2>1, <3>1, HigherReflexive
  <2>2. CASE h # Eod
    <3>1. PICK oc \in Possible : db' = Ingest(db, h, oc)
      BY <2>2, ChargePossible DEF Deliver, Charge, h
    <3> DEFINE t == tpLog[h].tbl
    <3>2. t \in Tables /\ h \in RowsIn(tpLog, t) /\ NoneBefore(db, tpLog, t, h)
      BY <1>1, <2>2, HeadIsNext DEF h
    <3> HIDE DEF t
    <3>3. DbUp(db', tpLog) /\ Higher(db', db) /\ Refuses(db', t, h)
      BY <1>2, <3>1, <3>2, GoodIngest
    <3>4. QED
      BY <3>3 DEF t
  <2>3. QED
    BY <2>1, <2>2
<1>9. db' \in DbType
  BY <1>8 DEF DbUp, DbGood
<1>10. ASSUME NEW t \in Tables, NEW n \in RowsIn(tpLog, t)
       PROVE  Refuses(db', t, n) \/ \E i \in DOMAIN chan' : chan'[i] = n
  <2>1. n \in Nat /\ n # Eod /\ tpLog[n].tbl = t
    BY <1>2, LogGoodFacts, WdbConstants DEF RowsIn, Rows, Eod
  <2>2. CASE Refuses(db, t, n)
    BY <1>3, <1>8, <1>9, <2>1, <2>2, HigherRefuses
  <2>3. CASE \E i \in DOMAIN chan : chan[i] = n
    BY <1>7, <1>8, <2>1, <2>3
  <2>4. QED
    BY <1>2, <2>2, <2>3 DEF OnItsWay
<1>11. OnItsWay'
  BY <1>1, <1>10 DEF OnItsWay
<1>12. QED
  BY <1>1, <1>2, <1>6, <1>8, <1>11 DEF FloorInv, DbUp

\* The database in a flush that a kill ends.
LEMMA FlushingGood ==
    ASSUME TypeInv, FloorInv, Idle, NEW i \in DOMAIN TableSeq, NEW s \in Flushing(i)
    PROVE  DbUp(s, tpLog)
<1>1. up /\ LogGood(tpLog) /\ DbUp(db, tpLog) /\ db \in DbType
  BY TypeFacts DEF Idle, FloorInv
<1>2. TableSeq \in Seq(Tables) /\ i - 1 \in 0 .. Len(TableSeq)
  BY WdbConstants
<1>3. SubSeq(TableSeq, 1, i - 1) \in Seq(Tables)
  BY <1>2, PrefixSeq
<1>4. DbUp(FlushTables(db, AllWell, SubSeq(TableSeq, 1, i - 1)), tpLog)
  BY <1>1, <1>3, AllWellPossible, GoodFlushTables
<1>5. ASSUME conn = "live", chan # <<>>, Head(chan) # Eod
      PROVE  DbUp(Accept(db, Head(chan)), tpLog)
  <2> DEFINE h == Head(chan)
             t == tpLog[h].tbl
             x == Accept(db, h)
  <2>1. t \in Tables /\ h \in RowsIn(tpLog, t) /\ NoneBefore(db, tpLog, t, h)
    BY <1>5, HeadIsNext
  <2> HIDE DEF h
  <2>2. h \in Rows /\ h \in Nat /\ tpLog[h].tbl = t
    BY <1>1, <2>1, LogGoodFacts, WdbConstants DEF Rows
  <2> HIDE DEF t, x
  <2>3. IF h <= Floor(db, t) THEN x = db ELSE Accepted(x, db, h, t)
    BY <1>1, <2>1, <2>2, AcceptDoes DEF x
  <2>4. CASE h <= Floor(db, t)
    BY <1>1, <2>3, <2>4 DEF x, h
  <2>5. CASE ~(h <= Floor(db, t))
    <3>1. ~Refuses(db, t, h) /\ Accepted(x, db, h, t)
      BY <1>1, <2>1, <2>2, <2>3, <2>5, FloorRefuses
    <3>2. DbUp(x, tpLog)
      BY <1>1, <2>1, <3>1, GoodAccepted
    <3>3. QED
      BY <3>2 DEF x, h
  <2>6. QED
    BY <2>4, <2>5
<1>6. QED
  BY <1>4, <1>5 DEF Flushing

\* Every step keeps the invariant.
LEMMA FloorNext ==
    ASSUME DatesInOrder = TRUE, TypeInv, FloorInv, [Next]_vars
    PROVE  FloorInv'
<1>1. LogGood(tpLog) /\ DbGood(db, tpLog) /\ (up => DbUp(db, tpLog)) /\ db \in DbType
  BY TypeFacts DEF FloorInv
<1>2. chan \in Seq(Rows \cup {Eod}) /\ Len(tpLog) \in Nat /\ \A i \in DOMAIN chan : chan[i] <= Len(tpLog)
  BY TypeFacts
<1>3. ASSUME NEW t \in Tables, NEW d \in Days, TpLog(t, d)
      PROVE  FloorInv'
  BY <1>3, TpLogFloor
<1>4. ASSUME UNCHANGED <<tpLog, conn, chan, info, up, db>>
      PROVE  FloorInv'
  BY <1>4 DEF FloorInv, OnItsWay
<1>5. CASE Midnight
  BY <1>4, <1>5 DEF Midnight, connVars
<1>6. CASE TpEndOfDay
  <2>1. UNCHANGED <<tpLog, conn, info, up, db>>
    BY <1>6 DEF TpEndOfDay
  <2>2. CASE conn = "down"
    <3>1. chan' = chan
      BY <1>6, <2>2 DEF TpEndOfDay
    <3>2. QED
      BY <1>4, <2>1, <3>1
  <2>3. CASE conn # "down"
    <3>1. chan' = Append(chan, Eod)
      BY <1>6, <2>3 DEF TpEndOfDay
    <3>2. /\ ChanOrder(chan')
          /\ \A n : (\E i \in DOMAIN chan : chan[i] = n) => \E i \in DOMAIN chan' : chan'[i] = n
      BY <1>2, <3>1, OrderKept DEF FloorInv
    <3>3. conn' = "live" => OnItsWay'
      BY <2>1, <3>2 DEF FloorInv, OnItsWay
    <3>4. QED
      BY <2>1, <3>2, <3>3 DEF FloorInv
  <2>4. QED
    BY <2>2, <2>3
<1>7. CASE Subscribe
  <2>1. up /\ conn' = "subscribed" /\ chan' = <<>> /\ UNCHANGED <<tpLog, up, db>>
    BY <1>7 DEF Subscribe, tpVars
  <2>2. ChanOrder(chan')
    BY <2>1, EmptyChan DEF ChanOrder
  <2>3. conn' # "replaying" /\ conn' # "live"
    BY <2>1
  <2>4. QED
    BY <2>1, <2>2, <2>3 DEF FloorInv
<1>8. CASE AskReplay
  <2>1. /\ conn = "subscribed" /\ conn' = "replaying" /\ info'.cutoff = Len(tpLog)
        /\ UNCHANGED <<tpLog, chan, up, db>>
    BY <1>8 DEF AskReplay, ReplayInfo, tpVars
  <2>2. up /\ conn' # "live"
    BY <2>1 DEF FloorInv
  <2>3. \A n \in DOMAIN tpLog' : ~(n > info'.cutoff)
    BY <1>1, <2>1, LogGoodFacts, WdbConstants
  <2>4. QED
    BY <2>1, <2>2, <2>3 DEF FloorInv
<1>9. CASE Replay
  BY <1>9, ReplayFloor
<1>10. CASE ReplayFails \/ Disconnect
  <2>1. conn' = "down" /\ chan' = <<>> /\ UNCHANGED <<tpLog, up, db>>
    BY <1>10 DEF ReplayFails, Disconnect, tpVars
  <2>2. ChanOrder(chan')
    BY <2>1, EmptyChan DEF ChanOrder
  <2>3. conn' # "replaying" /\ conn' # "live"
    BY <2>1
  <2>4. QED
    BY <2>1, <2>2, <2>3 DEF FloorInv
<1>11. CASE Deliver
  BY <1>11, DeliverFloor
<1>12. CASE DateAdvanced
  BY <1>4, <1>12 DEF DateAdvanced, tpVars, connVars
<1>13. ASSUME up, Roll
       PROVE  DbUp(db', tpLog) /\ Higher(db', db)
  <2>1. CASE \E oc \in Outcomes : Charge(oc) /\ db' = RollDb(db, oc, {})
    BY <1>1, <1>13, <2>1, GoodRollDb, ChargePossible DEF Charge
  <2>2. CASE \E failed \in SUBSET Days : db' = RollDb(db, AllWell, failed)
    BY <1>1, <1>13, <2>2, GoodRollDb, AllWellPossible
  <2>3. QED
    BY <1>13, <2>1, <2>2 DEF Roll
<1>14. CASE ClockRoll \/ FallbackRoll
  <2>1. up /\ Roll /\ UNCHANGED <<tpLog, conn, chan, info, up>>
    BY <1>14 DEF ClockRoll, FallbackRoll, Idle, tpVars, connVars
  <2>2. QED
    BY <1>13, <2>1, QuietFloor
<1>15. CASE ManualFlush
  <2>1. up /\ (\E oc \in Possible : db' = FlushAll(db, oc)) /\ UNCHANGED <<tpLog, conn, chan, info, up>>
    BY <1>15, ChargePossible DEF ManualFlush, Charge, Idle, tpVars, connVars
  <2>2. DbUp(db', tpLog) /\ Higher(db', db)
    BY <1>1, <2>1, GoodRollDb
  <2>3. QED
    BY <2>1, <2>2, QuietFloor
<1>16. CASE Shutdown
  <2>1. up /\ Gone
    BY <1>16 DEF Shutdown, Idle
  <2>2. PICK oc \in Possible : db' = NoMemory(FlushAll(db, oc))
    BY <1>16, ChargePossible DEF Shutdown
  <2>3. DbGood(FlushAll(db, oc), tpLog)
    BY <1>1, <2>1, GoodRollDb DEF DbUp
  <2>4. QED
    BY <1>1, <2>1, <2>2, <2>3, GoodNoMemory, GoneFloor
<1>17. CASE Killed
  <2>1. Gone /\ db' = NoMemory(db)
    BY <1>17 DEF Killed
  <2>2. QED
    BY <1>1, <2>1, GoodNoMemory, GoneFloor
<1>18. CASE FlushKilled
  <2>1. Idle /\ Gone
    BY <1>18 DEF FlushKilled
  <2>2. PICK i \in DOMAIN TableSeq, k \in 1 .. MaxDay + 1 : \E s \in Flushing(i) :
           db' = NoMemory(WriteRows(s, TableSeq[i], OfFirstDates(s, TableSeq[i], k)))
    BY <1>18 DEF FlushKilled
  <2>3. PICK s \in Flushing(i) :
           db' = NoMemory(WriteRows(s, TableSeq[i], OfFirstDates(s, TableSeq[i], k)))
    BY <2>2
  <2>4. DbUp(s, tpLog) /\ TableSeq[i] \in Tables /\ k \in Nat
    BY <2>1, FlushingGood, WdbConstants
  <2>5. DbGood(WriteRows(s, TableSeq[i], OfFirstDates(s, TableSeq[i], k)), tpLog)
    BY <1>1, <2>4, GoodWritten
  <2>6. QED
    BY <1>1, <2>1, <2>3, <2>5, GoodNoMemory, GoneFloor
<1>19. CASE RollKilled
  <2>1. up /\ Gone /\ \E failed \in SUBSET Days : db' = NoMemory(RollDb(db, AllWell, failed))
    BY <1>19 DEF RollKilled, Idle
  <2>2. PICK failed \in SUBSET Days : db' = NoMemory(RollDb(db, AllWell, failed))
    BY <2>1
  <2>3. DbGood(RollDb(db, AllWell, failed), tpLog)
    BY <1>1, <2>1, GoodRollDb, AllWellPossible DEF DbUp
  <2>4. QED
    BY <1>1, <2>1, <2>2, <2>3, GoodNoMemory, GoneFloor
<1>20. CASE ReplayKilled
  <2>1. up /\ Gone
    BY <1>20 DEF ReplayKilled, FloorInv
  <2>2. PICK from \in ReadFrom, i \in DOMAIN TableSeq, n \in 0 .. info.cutoff :
           db' = NoMemory(Merge(from, PartWay(i, n), AllWell))
    BY <1>20 DEF ReplayKilled
  <2>3. PartWay(i, n) \in [Tables -> 0 .. info.cutoff]
    BY TypeFacts DEF PartWay
  <2>4. DbGood(Merge(from, PartWay(i, n), AllWell), tpLog)
    BY <1>1, <2>1, <2>3, GoodMerge, AllWellPossible DEF DbUp
  <2>5. QED
    BY <1>1, <2>1, <2>2, <2>4, GoodNoMemory, GoneFloor
<1>21. CASE Start
  BY <1>21, StartFloor
<1>22. CASE UNCHANGED vars
  BY <1>4, <1>22 DEF vars, tpVars, connVars
<1>23. QED
  BY <1>3, <1>5, <1>6, <1>7, <1>8, <1>9, <1>10, <1>11, <1>12, <1>14, <1>15, <1>16, <1>17,
     <1>18, <1>19, <1>20, <1>21, <1>22 DEF Next

\* What is refused is held.
LEMMA RefusedIsHeld ==
    ASSUME TypeInv, FloorInv, up, NEW t \in Tables, NEW n \in RowsIn(tpLog, t), Refuses(db, t, n)
    PROVE  Held(n)
<1>1. TableGood(db, tpLog, t) /\ n \in Rows /\ tpLog[n].tbl = t
  BY LogGoodFacts DEF FloorInv, DbGood, RowsIn
<1>2. n \in OnDisk(db) \/ db.buf[t][n] > 0
  BY <1>1 DEF TableGood, Refuses
<1>3. QED
  BY <1>1, <1>2 DEF Held, Stored, OnDisk, Buffered

\* What WDB will refuse as already taken, it has: on disk or in a buffer; and
\* what the next start will refuse is on disk.  Whatever fails, a write, a
\* save of the checkpoint, a move, the connection or the process, as long as
\* the dates of a table's rows never step back and no table starts empty.
THEOREM FloorSafe ==
    ASSUME DatesInOrder = TRUE, Seeded = TRUE
    PROVE  Spec => []FloorIsTruth
<1>1. Init => TypeInv /\ FloorInv
  BY InitTyped, FloorInit
<1>2. TypeInv /\ FloorInv /\ [Next]_vars => TypeInv' /\ FloorInv'
  BY NextTyped, FloorNext
<1>3. ASSUME TypeInv, FloorInv
      PROVE  FloorIsTruth
  <2>1. ASSUME NEW t \in Tables, NEW n \in RowsOf(t)
        PROVE  /\ up /\ n <= Floor(db, t) => Held(n)
               /\ ~up /\ n <= Reconciled(t) => Stored(n)
    <3>1. n \in RowsIn(tpLog, t)
      BY DEF RowsOf, RowsIn
    <3>2. n \in Nat /\ db \in DbType
      BY <1>3, <3>1, LogGoodFacts, TypeFacts, WdbConstants DEF FloorInv, Rows
    <3>3. ASSUME up, n <= Floor(db, t)
          PROVE  Held(n)
      BY <1>3, <3>1, <3>2, <3>3, FloorRefuses, RefusedIsHeld
    <3>4. ASSUME n <= Reconciled(t)
          PROVE  Stored(n)
      <4>1. n \in OnDisk(db)
        BY <1>3, <3>1, <3>4, ReconciledIs DEF FloorInv
      <4>2. QED
        BY <4>1 DEF OnDisk, Stored
    <3>5. QED
      BY <3>3, <3>4
  <2>2. QED
    BY <2>1 DEF FloorIsTruth
<1>4. QED
  BY <1>1, <1>2, <1>3, PTL DEF Spec

\* No row is lost between TP's log and disk: while WDB is connected every
\* logged row is on disk, in a buffer or on its way, through replays, lost
\* connections, failing writes, saves and moves, and kills at any point.
THEOREM NoRowMissing ==
    ASSUME DatesInOrder = TRUE, Seeded = TRUE
    PROVE  Spec => []NothingMissing
<1>1. Init => TypeInv /\ FloorInv
  BY InitTyped, FloorInit
<1>2. TypeInv /\ FloorInv /\ [Next]_vars => TypeInv' /\ FloorInv'
  BY NextTyped, FloorNext
<1>3. ASSUME TypeInv, FloorInv
      PROVE  NothingMissing
  <2>1. ASSUME conn = "live", NEW n \in DOMAIN tpLog
        PROVE  Held(n) \/ n \in Range(chan)
    <3>1. up /\ OnItsWay /\ LogGood(tpLog)
      BY <1>3, <2>1 DEF FloorInv
    <3> DEFINE t == tpLog[n].tbl
    <3>2. t \in Tables /\ n \in RowsIn(tpLog, t)
      BY <3>1, LogGoodFacts DEF RowsIn
    <3> HIDE DEF t
    <3>3. CASE Refuses(db, t, n)
      BY <1>3, <3>1, <3>2, <3>3, RefusedIsHeld
    <3>4. CASE \E i \in DOMAIN chan : chan[i] = n
      BY <3>4 DEF Range
    <3>5. QED
      BY <3>1, <3>2, <3>3, <3>4 DEF OnItsWay
  <2>2. QED
    BY <2>1 DEF NothingMissing
<1>4. QED
  BY <1>1, <1>2, <1>3, PTL DEF Spec

\* As long as saves work, the invariant says that rows are written once.
LEMMA OnceInvariant ==
    ASSUME SavesWork, FloorInv
    PROVE  WrittenOnce /\ RolledIsCheckpointed
<1>1. DiskOnce(db, tpLog)
  BY DEF FloorInv, DbGood
<1>2. QED
  BY <1>1 DEF DiskOnce, WrittenOnce, RolledIsCheckpointed

\* No row is written to disk twice, through replays, reconnects, failing
\* writes and moves, and kills between a write and its checkpoint, as long as
\* no save of the checkpoint fails.
THEOREM NoRowTwice ==
    ASSUME DatesInOrder = TRUE, Seeded = TRUE, MaxFaults["save"] = 0
    PROVE  Spec => []WrittenOnce
<1>1. Init => TypeInv /\ FloorInv
  BY InitTyped, FloorInit
<1>2. TypeInv /\ FloorInv /\ [Next]_vars => TypeInv' /\ FloorInv'
  BY NextTyped, FloorNext
<1>3. FloorInv => WrittenOnce
  BY OnceInvariant DEF SavesWork
<1>4. QED
  BY <1>1, <1>2, <1>3, PTL DEF Spec

\* Rows reach the HDB only below the saved checkpoint, so that a start need
\* not look at the HDB, as long as no save of the checkpoint fails.
THEOREM RolledSafe ==
    ASSUME DatesInOrder = TRUE, Seeded = TRUE, MaxFaults["save"] = 0
    PROVE  Spec => []RolledIsCheckpointed
<1>1. Init => TypeInv /\ FloorInv
  BY InitTyped, FloorInit
<1>2. TypeInv /\ FloorInv /\ [Next]_vars => TypeInv' /\ FloorInv'
  BY NextTyped, FloorNext
<1>3. FloorInv => RolledIsCheckpointed
  BY OnceInvariant DEF SavesWork
<1>4. QED
  BY <1>1, <1>2, <1>3, PTL DEF Spec

-----------------------------------------------------------------------------
(* What only rises: the floor, the saved checkpoint and the rows on disk   *)

\* The saved checkpoint is not ahead of the one in memory.
FileBehind(s) == \A t \in Tables : s.cpFile[t] <= s.cp[t]

\* x has what s has, and its checkpoint in the file has not gone back.
Later(x, s) ==
    /\ x \in DbType
    /\ Higher(x, s)
    /\ OnDisk(s) \subseteq OnDisk(x)
    /\ FileBehind(s) => FileBehind(x) /\ \A t \in Tables : s.cpFile[t] <= x.cpFile[t]

\* The checkpoints and the last buffered row are numbers.
LEMMA CursorsAreNat ==
    ASSUME NEW s \in DbType, NEW t \in Tables
    PROVE  s.cp[t] \in Nat /\ s.cpFile[t] \in Nat /\ s.bufMax[t] \in Nat
<1>1. s.cp[t] \in 0 .. MaxLog /\ s.cpFile[t] \in 0 .. MaxLog /\ s.bufMax[t] \in 0 .. MaxLog
  BY DEF DbType
<1>2. QED
  BY <1>1, WdbConstants

\* What has not changed has not gone back.
LEMMA LaterReflexive ==
    ASSUME NEW s \in DbType
    PROVE  Later(s, s)
BY HigherReflexive, CursorsAreNat DEF Later

\* What rises twice has risen.
LEMMA LaterTransitive ==
    ASSUME NEW s \in DbType, NEW y, NEW x, Later(y, s), Later(x, y)
    PROVE  Later(x, s)
<1>1. y \in DbType /\ x \in DbType /\ Higher(x, y) /\ Higher(y, s)
  BY DEF Later
<1>2. Higher(x, s)
  BY <1>1, HigherTransitive
<1>3. OnDisk(s) \subseteq OnDisk(x)
  BY DEF Later
<1>4. ASSUME FileBehind(s)
      PROVE  FileBehind(x) /\ \A t \in Tables : s.cpFile[t] <= x.cpFile[t]
  <2>1. FileBehind(y) /\ \A t \in Tables : s.cpFile[t] <= y.cpFile[t]
    BY <1>4 DEF Later
  <2>2. FileBehind(x) /\ \A t \in Tables : y.cpFile[t] <= x.cpFile[t]
    BY <2>1 DEF Later
  <2>3. ASSUME NEW t \in Tables
        PROVE  s.cpFile[t] <= x.cpFile[t]
    <3>1. s.cpFile[t] <= y.cpFile[t] /\ y.cpFile[t] <= x.cpFile[t]
      BY <2>1, <2>2
    <3>2. s.cpFile[t] \in Nat /\ y.cpFile[t] \in Nat /\ x.cpFile[t] \in Nat
      BY <1>1, CursorsAreNat
    <3>3. QED
      BY <3>1, <3>2
  <2>4. QED
    BY <2>2, <2>3
<1>5. QED
  BY <1>1, <1>2, <1>3, <1>4 DEF Later

\* A flush writes rows above the checkpoint, and saves what it has advanced to.
LEMMA LaterFlushed ==
    ASSUME NEW s \in DbType, NEW t \in Tables, NEW w, w \subseteq ToFlush(s, t),
           NEW save, NEW x, Flushed(x, s, t, w, save)
    PROVE  Later(x, s)
<1>1. /\ x \in DbType /\ x.bufMax = s.bufMax /\ OnDisk(s) \subseteq OnDisk(x)
      /\ \A u \in Tables : u # t => x.cp[u] = s.cp[u]
  BY DEF Flushed, OnDisk
<1>2. \A u \in Tables : /\ x.cp[u] \in Nat /\ x.cpFile[u] \in Nat /\ x.bufMax[u] \in Nat
                        /\ s.cp[u] \in Nat /\ s.cpFile[u] \in Nat /\ s.bufMax[u] \in Nat
  BY <1>1, CursorsAreNat
<1>3. CASE x.cp = s.cp /\ x.cpFile = s.cpFile
  BY <1>1, <1>2, <1>3 DEF Later, Higher, FileBehind
<1>4. CASE w # {} /\ x.cp[t] = Max(w) /\ x.cpFile = IF save THEN x.cp ELSE s.cpFile
  <2>1. w \subseteq Rows /\ \A n \in w : n > s.cp[t]
    BY ToFlushIs
  <2>2. x.cp[t] \in w
    BY <1>4, <2>1, MaxOfRows
  <2>3. s.cp[t] < x.cp[t]
    BY <1>2, <2>1, <2>2
  <2>4. \A u \in Tables : s.cp[u] <= x.cp[u]
    BY <1>1, <1>2, <2>3
  <2>5. Higher(x, s)
    BY <1>1, <1>2, <2>4 DEF Higher
  <2>6. ASSUME FileBehind(s), NEW u \in Tables
        PROVE  x.cpFile[u] <= x.cp[u] /\ s.cpFile[u] <= x.cpFile[u]
    <3>1. s.cpFile[u] <= s.cp[u] /\ s.cp[u] <= x.cp[u]
      BY <2>4, <2>6 DEF FileBehind
    <3>2. CASE save
      BY <1>2, <1>4, <3>1, <3>2
    <3>3. CASE ~save
      BY <1>2, <1>4, <3>1, <3>3
    <3>4. QED
      BY <3>2, <3>3
  <2>7. QED
    BY <1>1, <2>5, <2>6 DEF Later, FileBehind
<1>5. QED
  BY <1>3, <1>4 DEF Flushed

\* flushTable takes nothing back.
LEMMA LaterFlushTable ==
    ASSUME NEW s \in DbType, NEW t \in Tables, NEW oc \in OutcomeType
    PROVE  Later(FlushTable(s, t, oc), s)
BY FlushTableDoes, FlushSets, LaterFlushed

\* An accepted row is above the last buffered one.
LEMMA LaterAccept ==
    ASSUME NEW s \in DbType, NEW n \in Rows, tpLog[n].tbl \in Tables
    PROVE  Later(Accept(s, n), s)
<1> DEFINE t == tpLog[n].tbl
           x == Accept(s, n)
<1>1. CASE n <= Floor(s, t)
  BY <1>1, AcceptDoes, LaterReflexive
<1>2. CASE ~(n <= Floor(s, t))
  <2>1. Accepted(x, s, n, t)
    BY <1>2, AcceptDoes
  <2>2. n \in Nat
    BY WdbConstants DEF Rows
  <2>3. s.bufMax[t] < n
    BY <1>2, <2>2, FloorIs, CursorsAreNat
  <2> HIDE DEF t, x
  <2>4. t \in Tables
    BY DEF t
  <2>5. /\ x \in DbType /\ x.cp = s.cp /\ x.cpFile = s.cpFile /\ OnDisk(x) = OnDisk(s)
        /\ x.bufMax[t] = n
        /\ \A u \in Tables : u # t => x.bufMax[u] = s.bufMax[u]
    BY <2>1 DEF Accepted, OnDisk
  <2>6. \A u \in Tables : s.cp[u] \in Nat /\ s.cpFile[u] \in Nat /\ s.bufMax[u] \in Nat
    BY CursorsAreNat
  <2>7. Higher(x, s)
    BY <2>2, <2>3, <2>4, <2>5, <2>6 DEF Higher
  <2>8. Later(x, s)
    BY <2>5, <2>6, <2>7 DEF Later, FileBehind
  <2>9. QED
    BY <2>8 DEF x
<1>3. QED
  BY <1>1, <1>2

\* Ingesting a row takes nothing back.
LEMMA LaterIngest ==
    ASSUME NEW s \in DbType, NEW n \in Rows, tpLog[n].tbl \in Tables, NEW oc \in Outcomes
    PROVE  Later(Ingest(s, n, oc), s)
<1> DEFINE t == tpLog[n].tbl
           y == IF n <= Floor(s, t) THEN s ELSE Accept(s, n)
           x == Ingest(s, n, oc)
<1>1. Ingested(x, s, n, t, oc)
  BY IngestDoes
<1>2. Later(y, s)
  BY LaterAccept, LaterReflexive
<1>3. \/ x = y
      \/ Flushed(x, y, t, OfFirstDates(y, t, oc[t].dates), oc[t].save)
  BY <1>1 DEF Ingested
<1> HIDE DEF x, y
<1>4. CASE x = y
  BY <1>2, <1>4 DEF x
<1>5. CASE Flushed(x, y, t, OfFirstDates(y, t, oc[t].dates), oc[t].save)
  <2>1. y \in DbType
    BY <1>2 DEF Later
  <2>2. OfFirstDates(y, t, oc[t].dates) \subseteq ToFlush(y, t)
    BY FlushSets
  <2>3. Later(x, y)
    BY <1>5, <2>1, <2>2, LaterFlushed
  <2>4. Later(x, s)
    BY <1>2, <2>3, LaterTransitive
  <2>5. QED
    BY <2>4 DEF x
<1>6. QED
  BY <1>3, <1>4, <1>5

\* Every step of the run r takes nothing back.
LaterSteps(r, n) == \A k \in 1 .. n : Later(r[k], r[k - 1])

\* A run whose steps take nothing back takes nothing back.
LEMMA LaterRun ==
    ASSUME NEW n \in Nat, NEW r \in [0 .. n -> DbType], LaterSteps(r, n)
    PROVE  Later(r[n], r[0])
<1> DEFINE S == {x \in DbType : Later(x, r[0])}
           P == [k \in 0 .. n |-> S]
<1>1. 0 \in 0 .. n /\ n \in 0 .. n
  OBVIOUS
<1>2. r[0] \in DbType
  BY <1>1
<1>3. \A k \in 0 .. n : P[k] = S
  OBVIOUS
<1>4. r[0] \in P[0]
  BY <1>1, <1>2, <1>3, LaterReflexive
<1>5. ASSUME NEW k \in 1 .. n, r[k - 1] \in P[k - 1]
      PROVE  r[k] \in P[k]
  <2>1. k - 1 \in 0 .. n /\ k \in 0 .. n
    OBVIOUS
  <2>2. Later(r[k - 1], r[0])
    BY <1>3, <1>5, <2>1
  <2>3. Later(r[k], r[k - 1])
    BY DEF LaterSteps
  <2>4. Later(r[k], r[0]) /\ r[k] \in DbType
    BY <1>2, <2>1, <2>2, <2>3, LaterTransitive
  <2>5. QED
    BY <1>3, <2>1, <2>4
<1> HIDE DEF P, S
<1>6. r[n] \in P[n]
  BY <1>4, <1>5, RunInvariant
<1>7. QED
  BY <1>1, <1>3, <1>6 DEF S

\* Flushing several tables takes nothing back.
LEMMA LaterFlushTables ==
    ASSUME NEW s \in DbType, NEW q \in Seq(Tables), NEW oc \in Outcomes
    PROVE  Later(FlushTables(s, oc, q), s)
<1> DEFINE n == Len(q)
<1>1. PICK r : FlushRun(r, s, q, oc)
  BY FlushTablesRun
<1>2. n \in Nat /\ \A k \in 1 .. n : q[k] \in Tables
  OBVIOUS
<1>3. /\ r \in [0 .. n -> DbType] /\ r[0] = s /\ FlushTables(s, oc, q) = r[n]
      /\ \A k \in 1 .. n : r[k] = FlushTable(r[k - 1], q[k], oc[q[k]])
  BY <1>1 DEF FlushRun
<1> HIDE DEF n
<1>4. ASSUME NEW k \in 1 .. n
      PROVE  Later(r[k], r[k - 1])
  <2>1. k - 1 \in 0 .. n
    BY <1>2
  <2>2. r[k - 1] \in DbType /\ q[k] \in Tables /\ oc[q[k]] \in OutcomeType
    BY <1>2, <1>3, <2>1, OutcomeTyped
  <2>3. QED
    BY <1>3, <2>2, LaterFlushTable
<1>5. QED
  BY <1>2, <1>3, <1>4, LaterRun DEF LaterSteps

\* Ingesting rows takes nothing back.
LEMMA LaterIngestSeq ==
    ASSUME NEW s \in DbType, NEW q \in Seq(Rows \cup {Eod}), NEW oc \in Outcomes,
           NEW R \in SUBSET Rows, \A m \in R : tpLog[m].tbl \in Tables
    PROVE  Later(IngestSeq(s, q, R, oc), s)
<1> DEFINE n == Len(q)
<1>1. PICK r : IngestRun(r, s, q, R, oc)
  BY IngestSeqRun
<1>2. n \in Nat
  OBVIOUS
<1>3. /\ r \in [0 .. n -> DbType] /\ r[0] = s /\ IngestSeq(s, q, R, oc) = r[n]
      /\ \A k \in 1 .. n : r[k] = IF q[k] \in R THEN Ingest(r[k - 1], q[k], oc) ELSE r[k - 1]
  BY <1>1 DEF IngestRun
<1> HIDE DEF n
<1>4. ASSUME NEW k \in 1 .. n
      PROVE  Later(r[k], r[k - 1])
  <2>1. k - 1 \in 0 .. n
    BY <1>2
  <2>2. r[k - 1] \in DbType
    BY <1>3, <2>1
  <2>3. CASE q[k] \in R
    BY <1>3, <2>2, <2>3, LaterIngest
  <2>4. CASE q[k] \notin R
    BY <1>3, <2>2, <2>4, LaterReflexive
  <2>5. QED
    BY <2>3, <2>4
<1>5. QED
  BY <1>2, <1>3, <1>4, LaterRun DEF LaterSteps

\* Ingesting the rows of every table takes nothing back.
LEMMA LaterIngestTables ==
    ASSUME NEW s \in DbType, NEW ns \in Seq(Rows \cup {Eod}),
           NEW oc \in Outcomes, NEW R \in [Tables -> SUBSET Rows],
           \A t \in Tables : \A m \in R[t] : tpLog[m].tbl \in Tables
    PROVE  Later(IngestTables(s, ns, R, oc), s)
<1> DEFINE q == TableSeq
           n == Len(q)
<1>1. PICK r : TablesRun(r, s, q, ns, R, oc)
  BY IngestTablesRun
<1>2. n \in Nat /\ \A k \in 1 .. n : q[k] \in Tables
  BY WdbConstants
<1>3. /\ r \in [0 .. n -> DbType] /\ r[0] = s /\ IngestTables(s, ns, R, oc) = r[n]
      /\ \A k \in 1 .. n : r[k] = IngestSeq(r[k - 1], ns, R[q[k]], oc)
  BY <1>1 DEF TablesRun
<1> HIDE DEF n, q
<1>4. ASSUME NEW k \in 1 .. n
      PROVE  Later(r[k], r[k - 1])
  <2>1. k - 1 \in 0 .. n
    BY <1>2
  <2>2. r[k - 1] \in DbType /\ q[k] \in Tables
    BY <1>2, <1>3, <2>1
  <2>3. R[q[k]] \in SUBSET Rows /\ \A m \in R[q[k]] : tpLog[m].tbl \in Tables
    BY <2>2
  <2> DEFINE M == R[q[k]]
             y == r[k - 1]
  <2>4. r[k] = IngestSeq(y, ns, M, oc) /\ y \in DbType
    BY <1>3, <2>2
  <2> HIDE DEF M
  <2>5. M \in SUBSET Rows /\ \A m \in M : tpLog[m].tbl \in Tables
    BY <2>3 DEF M
  <2> HIDE DEF y
  <2>6. Later(IngestSeq(y, ns, M, oc), y)
    BY <2>4, <2>5, LaterIngestSeq
  <2>7. QED
    BY <2>4, <2>6 DEF y
<1>5. QED
  BY <1>2, <1>3, <1>4, LaterRun DEF LaterSteps

\* Flushing and moving, as a roll does, takes nothing back.
LEMMA LaterRollDb ==
    ASSUME NEW s \in DbType, NEW oc \in Outcomes, NEW failed
    PROVE  Later(FlushAll(s, oc), s) /\ Later(RollDb(s, oc, failed), s)
<1> DEFINE y == FlushAll(s, oc)
           x == MoveDates(y, failed)
<1>1. Later(y, s)
  BY LaterFlushTables, WdbConstants DEF FlushAll
<1>2. y \in DbType
  BY <1>1 DEF Later
<1>3. RollDb(s, oc, failed) \in {x, y}
  BY DEF RollDb
<1>4. /\ x \in DbType /\ OnDisk(x) = OnDisk(y)
      /\ x.bufMax = y.bufMax /\ x.cp = y.cp /\ x.cpFile = y.cpFile
  <2> HIDE DEF y
  <2>1. /\ x \in DbType
        /\ x.tmp \cup x.hdb = y.tmp \cup y.hdb
        /\ x.buf = y.buf /\ x.bufMax = y.bufMax /\ x.cp = y.cp
        /\ x.cpFile = y.cpFile /\ x.copies = y.copies
    BY <1>2, MoveDatesTyped
  <2> HIDE DEF x
  <2>2. QED
    BY <2>1 DEF OnDisk
<1> HIDE DEF x, y
<1>5. Later(x, y)
  BY <1>2, <1>4, CursorsAreNat DEF Later, Higher, FileBehind
<1>6. Later(x, s)
  BY <1>1, <1>5, LaterTransitive
<1>7. QED
  BY <1>1, <1>3, <1>6 DEF y

\* Merging the rows of the log takes nothing back.
LEMMA LaterMerge ==
    ASSUME TypeInv, NEW from, NEW upto, NEW oc \in Outcomes
    PROVE  Later(Merge(from, upto, oc), db)
<1>1. DOMAIN tpLog \subseteq Rows /\ DOMAIN tpLog = 1 .. Len(tpLog) /\ Len(tpLog) \in Nat
  BY LoggedRows, WdbConstants DEF TypeInv, ChanLogged
<1> DEFINE ns == [n \in DOMAIN tpLog |-> n]
           R == [t \in Tables |-> Staged(t, from, upto[t])]
<1>2. ns \in [1 .. Len(tpLog) -> Rows \cup {Eod}]
  BY <1>1
<1>3. ns \in Seq(Rows \cup {Eod})
  <2> DEFINE l == Len(tpLog)
             T == Rows \cup {Eod}
  <2> HIDE DEF l, T, ns
  <2>1. QED
    BY <1>1, <1>2, SeqOfFunction DEF l, T
<1>4. \A t \in Tables : Staged(t, from, upto[t]) \subseteq DOMAIN tpLog
  BY DEF Staged, RowsOf
<1>5. R \in [Tables -> SUBSET Rows]
  BY <1>1, <1>4
<1>6. \A t \in Tables : \A m \in R[t] : tpLog[m].tbl \in Tables
  BY <1>4, LoggedRows DEF TypeInv, ChanLogged
<1>7. db \in DbType
  BY DEF TypeInv, TypeOK
<1>8. Merge(from, upto, oc) = IngestTables(db, ns, R, oc)
  BY DEF Merge
<1> HIDE DEF ns, R
<1>9. Later(IngestTables(db, ns, R, oc), db)
  BY <1>3, <1>5, <1>6, <1>7, LaterIngestTables
<1>10. QED
  BY <1>8, <1>9

\* Draining the live buffer takes nothing back.
LEMMA LaterDrain ==
    ASSUME TypeInv, NEW s \in DbType, NEW k \in 0 .. Len(chan), NEW oc \in Outcomes
    PROVE  Later(Drain(s, k, oc), s)
<1>1. DOMAIN tpLog \subseteq Rows
  BY LoggedRows DEF TypeInv, ChanLogged
<1> DEFINE ns == SubSeq(chan, 1, k)
           R == [t \in Tables |-> {n \in RowsOf(t) : n > info.cutoff}]
           T == Rows \cup {Eod}
<1>2. chan \in Seq(T)
  BY DEF TypeInv, TypeOK
<1>3. ns \in Seq(T)
  <2> HIDE DEF T
  <2>1. QED
    BY <1>2, PrefixSeq
<1>4. R \in [Tables -> SUBSET Rows]
  BY <1>1 DEF RowsOf
<1>5. \A t \in Tables : \A m \in R[t] : tpLog[m].tbl \in Tables
  BY LoggedRows DEF TypeInv, ChanLogged, RowsOf
<1>6. Drain(s, k, oc) = IngestTables(s, ns, R, oc)
  BY DEF Drain
<1> HIDE DEF ns, R
<1>7. QED
  BY <1>3, <1>4, <1>5, <1>6, LaterIngestTables

\* A running WDB has saved no checkpoint that it does not have, and only a
\* running WDB is connected.
FileInv ==
    /\ up => FileBehind(db)
    /\ conn # "down" => up

\* The steps that leave a running WDB with what it had.
LEMMA LaterStep ==
    ASSUME TypeInv, FileInv, up, up', Later(db', db)
    PROVE  FileInv' /\ OnDisk(db) \subseteq OnDisk(db') /\ CheckpointStep
<1>1. db \in DbType /\ db' \in DbType /\ Higher(db', db)
  BY TypeFacts DEF Later
<1>2. FileBehind(db') /\ \A t \in Tables : db.cpFile[t] <= db'.cpFile[t]
  BY DEF FileInv, Later
<1>3. ASSUME NEW t \in Tables
      PROVE  Floor(db, t) <= Floor(db', t)
  <2>1. /\ db.cp[t] \in Nat /\ db.bufMax[t] \in Nat /\ db'.cp[t] \in Nat /\ db'.bufMax[t] \in Nat
        /\ db.cp[t] <= db'.cp[t] /\ db.bufMax[t] <= db'.bufMax[t]
    BY <1>1, CursorsAreNat DEF Higher
  <2>2. /\ Floor(db, t) = IF db.cp[t] >= db.bufMax[t] THEN db.cp[t] ELSE db.bufMax[t]
        /\ Floor(db', t) = IF db'.cp[t] >= db'.bufMax[t] THEN db'.cp[t] ELSE db'.bufMax[t]
    BY <2>1, MaxOfTwo DEF Floor
  <2>3. QED
    BY <2>1, <2>2
<1>4. QED
  BY <1>2, <1>3 DEF FileInv, Later, CheckpointStep

\* The steps that end WDB, from what it had just done.
LEMMA EndStep ==
    ASSUME FileInv, up, Gone, NEW s, Later(s, db), db' = NoMemory(s)
    PROVE  FileInv' /\ OnDisk(db) \subseteq OnDisk(db') /\ CheckpointStep
<1>1. s \in DbType /\ FileBehind(db)
  BY DEF FileInv, Later
<1>2. db'.tmp = s.tmp /\ db'.hdb = s.hdb /\ db'.cpFile = s.cpFile
  BY <1>1, NoMemoryTyped
<1>3. up' = FALSE /\ conn' = "down"
  BY DEF Gone
<1>4. OnDisk(db) \subseteq OnDisk(db') /\ \A t \in Tables : db.cpFile[t] <= db'.cpFile[t]
  BY <1>1, <1>2 DEF Later, OnDisk
<1>5. QED
  BY <1>3, <1>4 DEF FileInv, CheckpointStep

\* The steps that leave the database alone.
LEMMA IdleStep ==
    ASSUME TypeInv, FileInv, UNCHANGED <<up, db>>, conn' # "down" => up
    PROVE  FileInv' /\ OnDisk(db) \subseteq OnDisk(db') /\ CheckpointStep
<1>1. db \in DbType
  BY TypeFacts
<1>2. \A t \in Tables : db.cpFile[t] \in Nat /\ Floor(db, t) \in Nat
  BY <1>1, CursorsAreNat, FloorIs
<1>3. QED
  BY <1>2 DEF FileInv, CheckpointStep

\* What a kill in a flush finds takes nothing back.
LEMMA FlushingLater ==
    ASSUME TypeInv, NEW i \in DOMAIN TableSeq, NEW s \in Flushing(i)
    PROVE  Later(s, db)
<1>1. TableSeq \in Seq(Tables) /\ i \in 1 .. Len(TableSeq) /\ db \in DbType
  BY WdbConstants, TypeFacts
<1>2. SubSeq(TableSeq, 1, i - 1) \in Seq(Tables)
  <2>1. i - 1 \in 0 .. Len(TableSeq)
    BY <1>1
  <2>2. QED
    BY <1>1, <2>1, PrefixSeq
<1>3. Later(FlushTables(db, AllWell, SubSeq(TableSeq, 1, i - 1)), db)
  BY <1>1, <1>2, AllWellOutcome, LaterFlushTables
<1>4. ASSUME chan # <<>>, Head(chan) # Eod
      PROVE  Later(Accept(db, Head(chan)), db)
  <2>1. Head(chan) = chan[1] /\ 1 \in DOMAIN chan
    BY <1>4, TypeFacts
  <2>2. Head(chan) \in DOMAIN tpLog
    BY <1>4, <2>1, ChanRows
  <2>3. Head(chan) \in Rows /\ tpLog[Head(chan)].tbl \in Tables
    BY <2>2, LoggedRows DEF TypeInv, ChanLogged
  <2>4. QED
    BY <1>1, <2>3, LaterAccept
<1>5. QED
  BY <1>3, <1>4 DEF Flushing

\* Nothing that rises ever falls.
LEMMA RisesNext ==
    ASSUME TypeInv, FileInv, [Next]_vars
    PROVE  FileInv' /\ OnDisk(db) \subseteq OnDisk(db') /\ CheckpointStep
<1>1. db \in DbType /\ Later(db, db)
  BY TypeFacts, LaterReflexive
<1>2. ASSUME UNCHANGED <<up, db, conn>>
      PROVE  FileInv' /\ OnDisk(db) \subseteq OnDisk(db') /\ CheckpointStep
  BY <1>2, IdleStep DEF FileInv
<1>3. ASSUME NEW t \in Tables, NEW d \in Days, TpLog(t, d)
      PROVE  FileInv' /\ OnDisk(db) \subseteq OnDisk(db') /\ CheckpointStep
  BY <1>2, <1>3 DEF TpLog
<1>4. CASE Midnight
  BY <1>2, <1>4 DEF Midnight, connVars
<1>5. CASE TpEndOfDay
  BY <1>2, <1>5 DEF TpEndOfDay
<1>6. CASE Subscribe
  <2>1. up /\ UNCHANGED <<up, db>>
    BY <1>6 DEF Subscribe
  <2>2. QED
    BY <2>1, IdleStep
<1>7. CASE AskReplay
  <2>1. conn # "down" /\ UNCHANGED <<up, db>>
    BY <1>7 DEF AskReplay
  <2>2. QED
    BY <2>1, IdleStep DEF FileInv
<1>8. CASE Replay
  <2>1. conn = "replaying" /\ up' = up
    BY <1>8 DEF Replay
  <2>2. up /\ up'
    BY <2>1 DEF FileInv
  <2>3. PICK from \in ReadFrom : \E k \in 0 .. Len(chan), oc \in Outcomes :
          LET replayed == Drain(Merge(from, ToCutoff, oc), k, oc) IN
          db' = IF startupRollDone THEN replayed ELSE RollDb(replayed, oc, {})
    BY <1>8 DEF Replay
  <2>4. PICK k \in 0 .. Len(chan), oc \in Outcomes :
          LET replayed == Drain(Merge(from, ToCutoff, oc), k, oc) IN
          db' = IF startupRollDone THEN replayed ELSE RollDb(replayed, oc, {})
    BY <2>3
  <2> DEFINE y == Merge(from, ToCutoff, oc)
             x == Drain(y, k, oc)
  <2>5. Later(y, db) /\ y \in DbType
    BY LaterMerge DEF Later
  <2>6. db' = x \/ db' = RollDb(x, oc, {})
    BY <2>4
  <2>7. Later(x, y)
    <3> HIDE DEF y
    <3>1. QED
      BY <2>5, LaterDrain
  <2> HIDE DEF x, y
  <2>8. Later(x, db) /\ x \in DbType
    BY <1>1, <2>5, <2>7, LaterTransitive DEF Later
  <2>9. Later(RollDb(x, oc, {}), x)
    BY <2>8, LaterRollDb
  <2>10. Later(db', db)
    BY <1>1, <2>6, <2>8, <2>9, LaterTransitive
  <2>11. QED
    BY <2>2, <2>10, LaterStep
<1>9. CASE ReplayFails \/ Disconnect
  <2>1. conn' = "down" /\ UNCHANGED <<up, db>>
    BY <1>9 DEF ReplayFails, Disconnect
  <2>2. QED
    BY <2>1, IdleStep
<1>10. CASE Deliver
  <2>1. conn = "live" /\ chan # <<>> /\ up' = up
    BY <1>10 DEF Deliver
  <2>2. up /\ up'
    BY <2>1 DEF FileInv
  <2>3. CASE Head(chan) = Eod
    <3>1. db' = db
      BY <1>10, <2>3 DEF Deliver
    <3>2. QED
      BY <1>1, <2>2, <3>1, LaterStep
  <2>4. CASE Head(chan) # Eod
    <3>1. PICK oc \in Outcomes : db' = Ingest(db, Head(chan), oc)
      BY <1>10, <2>4 DEF Deliver
    <3>2. Head(chan) = chan[1] /\ 1 \in DOMAIN chan
      BY <2>1, TypeFacts
    <3>3. Head(chan) \in DOMAIN tpLog
      BY <2>4, <3>2, ChanRows
    <3>4. Head(chan) \in Rows /\ tpLog[Head(chan)].tbl \in Tables
      BY <3>3, LoggedRows DEF TypeInv, ChanLogged
    <3>5. Later(db', db)
      BY <1>1, <3>1, <3>4, LaterIngest
    <3>6. QED
      BY <2>2, <3>5, LaterStep
  <2>5. QED
    BY <2>3, <2>4
<1>11. CASE DateAdvanced
  BY <1>2, <1>11 DEF DateAdvanced, connVars
<1>12. CASE ClockRoll \/ FallbackRoll
  <2>1. up /\ up' /\ Roll
    BY <1>12 DEF ClockRoll, FallbackRoll, Idle
  <2>2. Later(db', db)
    BY <1>1, <2>1, LaterRollDb, AllWellOutcome DEF Roll
  <2>3. QED
    BY <2>1, <2>2, LaterStep
<1>13. CASE ManualFlush
  <2>1. up /\ up' /\ \E oc \in Outcomes : db' = FlushAll(db, oc)
    BY <1>13 DEF ManualFlush, Idle
  <2>2. Later(db', db)
    BY <1>1, <2>1, LaterRollDb
  <2>3. QED
    BY <2>1, <2>2, LaterStep
<1>14. CASE Shutdown
  <2>1. PICK oc \in Outcomes : db' = NoMemory(FlushAll(db, oc))
    BY <1>14 DEF Shutdown
  <2>2. up /\ Gone /\ Later(FlushAll(db, oc), db)
    BY <1>1, <1>14, LaterRollDb DEF Shutdown, Idle
  <2>3. QED
    BY <2>1, <2>2, EndStep
<1>15. CASE Killed
  <2>1. up /\ Gone /\ db' = NoMemory(db)
    BY <1>15 DEF Killed
  <2>2. QED
    BY <1>1, <2>1, EndStep
<1>16. CASE FlushKilled
  <2>1. up /\ Gone
    BY <1>16 DEF FlushKilled, Idle
  <2>2. PICK i \in DOMAIN TableSeq, k \in 1 .. MaxDay + 1 : \E s \in Flushing(i) :
           db' = NoMemory(WriteRows(s, TableSeq[i], OfFirstDates(s, TableSeq[i], k)))
    BY <1>16 DEF FlushKilled
  <2>3. PICK s \in Flushing(i) :
           db' = NoMemory(WriteRows(s, TableSeq[i], OfFirstDates(s, TableSeq[i], k)))
    BY <2>2
  <2> DEFINE t == TableSeq[i]
             w == OfFirstDates(s, t, k)
             x == WriteRows(s, t, w)
  <2>4. s \in DbType /\ t \in Tables /\ w \in SUBSET Rows
    BY FlushingTyped, FlushSets, WdbConstants
  <2>5. Later(s, db)
    BY FlushingLater
  <2>6. db' = NoMemory(x)
    BY <2>3
  <2>7. Later(x, s)
    <3> HIDE DEF w, t
    <3>1. /\ x \in DbType /\ OnDisk(s) \subseteq OnDisk(x)
          /\ x.bufMax = s.bufMax /\ x.cp = s.cp /\ x.cpFile = s.cpFile
      BY <2>4, WriteRowsTyped DEF OnDisk
    <3> HIDE DEF x
    <3>2. QED
      BY <2>4, <3>1, CursorsAreNat DEF Later, Higher, FileBehind
  <2> HIDE DEF x
  <2>8. Later(x, db)
    BY <1>1, <2>5, <2>7, LaterTransitive
  <2>9. QED
    BY <2>1, <2>6, <2>8, EndStep
<1>17. CASE RollKilled
  <2>1. PICK failed \in SUBSET Days : db' = NoMemory(RollDb(db, AllWell, failed))
    BY <1>17 DEF RollKilled
  <2>2. up /\ Gone /\ Later(RollDb(db, AllWell, failed), db)
    BY <1>1, <1>17, LaterRollDb, AllWellOutcome DEF RollKilled, Idle
  <2>3. QED
    BY <2>1, <2>2, EndStep
<1>18. CASE ReplayKilled
  <2>1. \E from, upto : db' = NoMemory(Merge(from, upto, AllWell))
    BY <1>18 DEF ReplayKilled
  <2>2. up /\ Gone
    BY <1>18 DEF ReplayKilled, FileInv
  <2>3. \A from, upto : Later(Merge(from, upto, AllWell), db)
    BY <1>1, LaterMerge, AllWellOutcome
  <2>4. QED
    BY <2>1, <2>2, <2>3, EndStep
<1>19. CASE Start
  <2>1. ~up /\ up' = TRUE /\ conn' = conn
    BY <1>19 DEF Start, connVars
  <2>2. /\ db' \in DbType /\ db'.tmp = db.tmp /\ db'.hdb = db.hdb
        /\ \A t \in Tables : db'.cp[t] = Reconciled(t)
        /\ db'.cpFile = db'.cp \/ db'.cpFile = db.cpFile
    BY <1>19, StartDoes
  <2>3. ASSUME NEW t \in Tables
        PROVE  db.cpFile[t] <= db'.cp[t]
    <3>1. db.cpFile[t] \in Nat /\ DiskMax(db, t) \in Nat
      BY <1>1, CursorsAreNat, StartTyped, WdbConstants
    <3>2. Reconciled(t) = IF db.cpFile[t] >= DiskMax(db, t) THEN db.cpFile[t] ELSE DiskMax(db, t)
      BY <3>1, MaxOfTwo DEF Reconciled, LoadedCheckpoint
    <3>3. QED
      BY <2>2, <3>1, <3>2
  <2>4. \A t \in Tables : db'.cp[t] \in Nat /\ db.cpFile[t] \in Nat
    BY <1>1, <2>2, CursorsAreNat
  <2>5. FileBehind(db') /\ \A t \in Tables : db.cpFile[t] <= db'.cpFile[t]
    BY <2>2, <2>3, <2>4 DEF FileBehind
  <2>6. QED
    BY <2>1, <2>2, <2>5 DEF FileInv, CheckpointStep, OnDisk
<1>20. CASE UNCHANGED vars
  BY <1>2, <1>20 DEF vars, connVars
<1>21. QED
  BY <1>3, <1>4, <1>5, <1>6, <1>7, <1>8, <1>9, <1>10, <1>11, <1>12, <1>13, <1>14, <1>15,
     <1>16, <1>17, <1>18, <1>19, <1>20 DEF Next

\* The saved checkpoint never goes back, and the floor does not while WDB
\* runs: through saves of all tables' checkpoints at once, saves that fail,
\* kills anywhere and starts that find rows above the checkpoint or none.
THEOREM CheckpointSafe ==
    Spec => CheckpointRises
<1>1. Init => TypeInv /\ FileInv
  <2>1. Init => FileInv
    BY DEF Init, FileInv
  <2>2. QED
    BY <2>1, InitTyped
<1>2. TypeInv /\ FileInv /\ [Next]_vars => TypeInv' /\ FileInv'
  BY NextTyped, RisesNext
<1>3. TypeInv /\ FileInv /\ [Next]_vars => CheckpointStep
  BY RisesNext
<1>4. TypeInv /\ FileInv /\ [Next]_vars => [CheckpointStep]_vars
  BY <1>3
<1>5. QED
  BY <1>1, <1>2, <1>4, PTL DEF Spec, CheckpointRises

-----------------------------------------------------------------------------
(* WDB implements the abstract store                                       *)

\* What an instance of the log shows of a row is its table.
LEMMA LoggedTables ==
    ASSUME NEW L, LogGood(L)
    PROVE  LET f == [n \in DOMAIN L |-> L[n].tbl] IN
           /\ Len(f) = Len(L) /\ DOMAIN f = DOMAIN L
           /\ \A n \in DOMAIN L : f[n] = L[n].tbl
<1> DEFINE f == [n \in DOMAIN L |-> L[n].tbl]
           l == Len(L)
<1>1. DOMAIN L = 1 .. l /\ l \in Nat /\ \A n \in DOMAIN L : L[n].tbl \in Tables
  BY LogGoodFacts, WdbConstants
<1> HIDE DEF l
<1>2. f \in [1 .. l -> Tables]
  BY <1>1
<1>3. DOMAIN f = DOMAIN L /\ \A n \in DOMAIN L : f[n] = L[n].tbl
  OBVIOUS
<1> HIDE DEF f
<1>4. Len(f) = l
  BY <1>1, <1>2, SeqOfFunction
<1>5. QED
  BY <1>3, <1>4 DEF f, l

\* A database that is good stores logged rows, without a hole.
LEMMA GoodHasNoHole ==
    ASSUME NEW L, LogGood(L), NEW s, DbGood(s, L)
    PROVE  LET f == [n \in DOMAIN L |-> L[n].tbl] IN
           s.tmp \cup s.hdb \subseteq DOMAIN f /\ Store!NoHole(f, s.tmp \cup s.hdb)
<1> DEFINE f == [n \in DOMAIN L |-> L[n].tbl]
           S == s.tmp \cup s.hdb
<1>1. S = OnDisk(s) /\ S \subseteq DOMAIN L
  BY DEF OnDisk, DbGood
<1>2. DOMAIN f = DOMAIN L /\ \A n \in DOMAIN L : f[n] = L[n].tbl
  OBVIOUS
<1> HIDE DEF f, S
<1>3. ASSUME NEW m \in DOMAIN f, NEW n \in DOMAIN f, f[m] = f[n], m < n, n \in S
      PROVE  m \in S
  <2>1. L[n].tbl \in Tables /\ m \in RowsIn(L, L[n].tbl) /\ n \in RowsIn(L, L[n].tbl)
    BY <1>2, <1>3, LogGoodFacts DEF RowsIn
  <2>2. TableGood(s, L, L[n].tbl)
    BY <2>1 DEF DbGood
  <2>3. QED
    BY <1>1, <1>3, <2>1, <2>2 DEF TableGood
<1>4. QED
  BY <1>1, <1>2, <1>3 DEF Store!NoHole, f, S

\* Every step is one of the store's, or none.
LEMMA StoreNext ==
    ASSUME TypeInv, FileInv, FloorInv, FloorInv', [Next]_vars
    PROVE  [Store!Log \/ Store!Store]_<<[n \in DOMAIN tpLog |-> tpLog[n].tbl], db.tmp \cup db.hdb>>
<1> DEFINE f == [n \in DOMAIN tpLog |-> tpLog[n].tbl]
           g == [n \in DOMAIN tpLog' |-> tpLog'[n].tbl]
<1>1. LogGood(tpLog) /\ LogGood(tpLog') /\ DbGood(db', tpLog')
  BY DEF FloorInv
<1>2. /\ Len(f) = Len(tpLog) /\ \A n \in DOMAIN tpLog : f[n] = tpLog[n].tbl
      /\ Len(g) = Len(tpLog') /\ \A n \in DOMAIN tpLog' : g[n] = tpLog'[n].tbl
  BY <1>1, LoggedTables
<1>3. Len(tpLog) \in Nat /\ DOMAIN tpLog = 1 .. Len(tpLog)
  BY <1>1, LogGoodFacts, WdbConstants
<1>4. ASSUME NEW t \in Tables, NEW d \in Days, TpLog(t, d)
      PROVE  Store!Log
  <2> DEFINE row == [tbl |-> t, date |-> d, day |-> tpDay]
  <2>1. tpLog' = Append(tpLog, row) /\ db' = db
    BY <1>4 DEF TpLog
  <2>2. tpLog \in Seq(LogType) /\ row \in LogType
    BY <1>4, TypeFacts DEF LogType
  <2> HIDE DEF row
  <2>3. Len(tpLog') = Len(tpLog) + 1 /\ \A n \in 1 .. Len(tpLog) : tpLog'[n] = tpLog[n]
    <3> DEFINE T == LogType
    <3> HIDE DEF T
    <3>1. tpLog \in Seq(T) /\ row \in T
      BY <2>2 DEF T
    <3>2. QED
      BY <2>1, <3>1, AppendSeq
  <2>4. DOMAIN tpLog' = 1 .. Len(tpLog) + 1
    BY <1>1, <2>3, LogGoodFacts
  <2>5. \A n \in 1 .. Len(tpLog) : n \in DOMAIN tpLog' /\ n \in DOMAIN tpLog
    BY <1>3, <2>4
  <2> HIDE DEF f, g
  <2>6. Len(g) = Len(f) + 1 /\ \A n \in 1 .. Len(f) : g[n] = f[n]
    BY <1>2, <2>3, <2>5
  <2>7. QED
    BY <2>1, <2>6 DEF Store!Log, f, g
<1>5. ASSUME tpLog' = tpLog
      PROVE  Store!Store
  <2>1. db.tmp \cup db.hdb \subseteq db'.tmp \cup db'.hdb
    BY RisesNext DEF OnDisk
  <2>2. db'.tmp \cup db'.hdb \subseteq DOMAIN g /\ Store!NoHole(g, db'.tmp \cup db'.hdb)
    BY <1>1, GoodHasNoHole
  <2>3. g = f
    BY <1>5
  <2> HIDE DEF f, g
  <2>4. db'.tmp \cup db'.hdb \subseteq DOMAIN f /\ Store!NoHole(f, db'.tmp \cup db'.hdb)
    BY <2>2, <2>3
  <2>5. QED
    BY <2>1, <2>3, <2>4 DEF Store!Store, f, g
<1>6. tpLog' = tpLog \/ \E t \in Tables, d \in Days : TpLog(t, d)
  BY DEF Next, vars, tpVars, Midnight, TpEndOfDay, Subscribe, AskReplay, Replay, ReplayFails, Disconnect,
         Deliver, DateAdvanced, ClockRoll, FallbackRoll, ManualFlush, Shutdown, Killed, FlushKilled,
         RollKilled, ReplayKilled, Start, Gone
<1>7. QED
  BY <1>4, <1>5, <1>6

\* WDB implements the store that keeps every row it has and takes each
\* table's rows in the order of TP's log: with any number of tables, rows and
\* days, kills at any point and failing writes, saves and moves, as long as
\* the dates of a table's rows never step back and no table starts empty.
THEOREM StoreRefined ==
    ASSUME DatesInOrder = TRUE, Seeded = TRUE
    PROVE  Spec => ImplementsStore
<1>1. Init => TypeInv /\ FloorInv /\ FileInv
  <2>1. Init => FileInv
    BY DEF Init, FileInv
  <2>2. QED
    BY <2>1, InitTyped, FloorInit
<1>2. TypeInv /\ FloorInv /\ FileInv /\ [Next]_vars => TypeInv' /\ FloorInv' /\ FileInv'
  BY NextTyped, FloorNext, RisesNext
<1>3. Init => Store!Init
  <2>1. SUFFICES ASSUME Init PROVE Store!Init
    OBVIOUS
  <2>2. DOMAIN tpLog = SeedRows /\ db.tmp \cup db.hdb = SeedRows
    BY <2>1, InitLog, InitDb
  <2>3. QED
    BY <2>2 DEF Store!Init
<1>4. TypeInv /\ FloorInv /\ FileInv /\ FloorInv' /\ [Next]_vars
      => [Store!Log \/ Store!Store]_<<[n \in DOMAIN tpLog |-> tpLog[n].tbl], db.tmp \cup db.hdb>>
  BY StoreNext
<1>5. QED
  BY <1>1, <1>2, <1>3, <1>4, PTL DEF Spec, ImplementsStore, Store!Spec

=============================================================================
