-------------------------------- MODULE Wdb ---------------------------------
(***************************************************************************)
(* The hop from the tickerplant to disk: kdb/tick/wdb.q.                   *)
(*                                                                         *)
(* WDB buffers the rows TP publishes, flushes a table's buffer to          *)
(* tmp.<date> directories and then advances and saves that table's         *)
(* checkpoint.  After midnight it moves every past tmp.<date> into the     *)
(* HDB.  On every connect it subscribes, asks TP for the current tpSeqNo   *)
(* (the cutoff) and reads TP's logs itself up to it; rows that arrive live *)
(* meanwhile wait.  A row is never taken twice: one at or below the        *)
(* table's floor, the maximum of checkpoint and buffer, is dropped.  On    *)
(* start a checkpoint that lags behind tmp.* is raised to it.              *)
(*                                                                         *)
(* WDB is one q process, so a handler is one step; TP, midnight and kills  *)
(* run between and inside its handlers.  Inside means between two writes:  *)
(* the append of one date's rows and the sort of a table, which both go    *)
(* column by column, are one write.  Row n is the one with tpSeqNo n.      *)
(* Row contents other than table and date, the seek index and the segments *)
(* of the log reader, the counters, the retry backoff and the halt on a    *)
(* tpSeqNo below the checkpoint (TpSeqNo shows when it cannot happen) are  *)
(* left out.                                                               *)
(***************************************************************************)
EXTENDS Integers, Sequences, FiniteSets, SequencesExt, FiniteSetsExt

CONSTANTS
    TableSeq,       \* .wdb.tables, in the order flushes take them
    EventTables,    \* the ones TP keeps no firstTpSeqNo for (trade_gap)
    MaxBuf,         \* .wdb.cfg.maxRows: a longer buffer is flushed
    Seeded,         \* start with one row of every table on disk
    DatesInOrder,   \* the dates of a table's rows never step back
    MaxLog,         \* bound: rows TP logs
    MaxDay,         \* bound: days 0..MaxDay
    MaxFaults,      \* bound, for each fault of FaultKinds
    MaxOther        \* bound, for all faults but kills together

Tables == Range(TableSeq)

\* crash: WDB is killed; stop: it is shut down in order; disconnect: the TP
\* connection or a replay fails; write, save, roll: a write to tmp.<date>,
\* a save of the checkpoint, a move into the HDB fails.
FaultKinds == {"crash", "stop", "disconnect", "write", "save", "roll"}

ASSUME WdbAssumption ==
    /\ TableSeq \in Seq(Tables) /\ Tables # {}
    /\ \A i, j \in DOMAIN TableSeq : TableSeq[i] = TableSeq[j] => i = j
    /\ EventTables \subseteq Tables
    /\ MaxBuf \in Nat
    /\ Seeded \in BOOLEAN /\ DatesInOrder \in BOOLEAN
    /\ MaxLog \in Nat /\ Len(TableSeq) <= MaxLog
    /\ MaxDay \in Nat
    /\ MaxFaults \in [FaultKinds -> Nat]
    /\ MaxOther \in Nat

VARIABLES
    \* the tickerplant
    tpLog,      \* logged rows: table, date of the row's time, day of the log
    today,      \* the UTC date
    tpDay,      \* the day of the log TP has open
    \* the connection
    conn,       \* see ConnStates
    chan,       \* published and not yet handled: row numbers, Eod for endofday
    info,       \* the reply to .tp.replayInfo[]: cutoff and firstTpSeqNo
    \* WDB
    up,
    db,         \* buffers, checkpoint and disk, see DbType
    currentDate, rollDue, startupRollDone,
    faults      \* how often each fault has happened

tpVars == <<tpLog, today, tpDay>>
connVars == <<conn, chan, info>>
rollVars == <<currentDate, rollDue, startupRollDone>>
vars == <<tpVars, connVars, up, db, rollVars, faults>>

Days == 0 .. MaxDay
Rows == 1 .. MaxLog
Eod == 0
NoSeq == 0

\* "down": no connection; "subscribed", "replaying": inside .wdb.connect,
\* before and after TP has answered with the cutoff; "live": connected.
ConnStates == {"down", "subscribed", "replaying", "live"}

DbType ==
    [buf : [Tables -> [Rows -> Nat]],       \* the in-memory tables: how often they have a row
     bufMax : [Tables -> 0 .. MaxLog],      \* .wdb.bufMaxSeq
     cp : [Tables -> 0 .. MaxLog],          \* .wdb.lastTpSeqNo
     cpFile : [Tables -> 0 .. MaxLog],      \* the checkpoint file
     tmp : SUBSET Rows,                     \* rows in tmp.<date>
     hdb : SUBSET Rows,                     \* rows in HDB partitions
     copies : [Rows -> Nat]]                \* how often a row was written

TypeOK ==
    /\ tpLog \in Seq([tbl : Tables, date : Days, day : Days])
    /\ today \in Days /\ tpDay \in Days
    /\ conn \in ConnStates
    /\ chan \in Seq(Rows \cup {Eod})
    /\ info \in [cutoff : 0 .. MaxLog, firstTp : [Tables -> 0 .. MaxLog]]
    /\ up \in BOOLEAN
    /\ db \in DbType
    /\ currentDate \in Days /\ rollDue \in BOOLEAN /\ startupRollDone \in BOOLEAN
    /\ \A f \in FaultKinds : faults[f] \in 0 .. MaxFaults[f]

NoInfo == [cutoff |-> 0, firstTp |-> [t \in Tables |-> NoSeq]]

NoRows == [n \in Rows |-> 0]

\* Memory of a process that does not run.
NoMemory(s) ==
    [s EXCEPT !.buf = [t \in Tables |-> NoRows],
              !.bufMax = [t \in Tables |-> 0],
              !.cp = [t \in Tables |-> 0]]

SeedRows == IF Seeded THEN DOMAIN TableSeq ELSE {}

Init ==
    /\ tpLog = [n \in SeedRows |-> [tbl |-> TableSeq[n], date |-> 0, day |-> 0]]
    /\ today = 0 /\ tpDay = 0
    /\ conn = "down" /\ chan = <<>> /\ info = NoInfo
    /\ up = FALSE
    /\ db = [buf |-> [t \in Tables |-> NoRows],
             bufMax |-> [t \in Tables |-> 0],
             cp |-> [t \in Tables |-> 0],
             cpFile |-> [t \in Tables |-> IF Seeded THEN CHOOSE n \in SeedRows : TableSeq[n] = t ELSE 0],
             tmp |-> SeedRows,
             hdb |-> {},
             copies |-> [n \in Rows |-> IF n \in SeedRows THEN 1 ELSE 0]]
    /\ currentDate = 0 /\ rollDue = FALSE /\ startupRollDone = FALSE
    /\ faults = [f \in FaultKinds |-> 0]

\* How often WDB has met a fault other than a kill.
Others == MapThenSumSet(LAMBDA f : faults[f], FaultKinds \ {"crash"})

Faults(fs) ==
    /\ \A f \in fs : faults[f] < MaxFaults[f]
    /\ Others + Cardinality(fs \ {"crash"}) <= MaxOther
    /\ faults' = [f \in FaultKinds |-> IF f \in fs THEN faults[f] + 1 ELSE faults[f]]

Fault(f) == Faults({f})

RowsOf(t) == {n \in DOMAIN tpLog : tpLog[n].tbl = t}

-----------------------------------------------------------------------------
(* Flush.  What goes wrong in a handler is its outcome: per table how many  *)
(* dates can be written and whether the checkpoint can be saved.            *)

AllWell == [t \in Tables |-> [dates |-> MaxDay + 1, save |-> TRUE]]

Outcomes ==
    {AllWell}
    \cup {[AllWell EXCEPT ![t].dates = k] : t \in Tables, k \in Days}
    \cup {[AllWell EXCEPT ![t].save = FALSE] : t \in Tables}

\* A handler that does not go well uses up one fault of its kind.
Cost(oc) ==
    CASE oc = AllWell -> {}
      [] \E t \in Tables : ~oc[t].save -> {"save"}
      [] OTHER -> {"write"}

Charge(oc) == Faults(Cost(oc))

\* .wdb.saveCheckpoint: temporary file and rename, all tables at once.
SaveCheckpoint(s, ok) == IF ok THEN [s EXCEPT !.cpFile = s.cp] ELSE s

\* The rows in the buffer of table t, and how many there are.
Buffered(s, t) == {n \in Rows : s.buf[t][n] > 0}

BufLen(s, t) == MapThenSumSet(LAMBDA n : s.buf[t][n], Rows)

\* .wdb.writeRows for the buffered rows ns, whatever their date is classified as.
WriteRows(s, t, ns) ==
    [s EXCEPT !.tmp = @ \cup ns,
              !.copies = [n \in Rows |-> IF n \in ns THEN @[n] + s.buf[t][n] ELSE @[n]]]

\* The buffer of table t with only the rows ns left.
Keep(s, t, ns) == [s EXCEPT !.buf[t] = [n \in Rows |-> IF n \in ns THEN @[n] ELSE 0]]

\* The buffered rows of table t that a flush writes, and the ones among them
\* that belong to its k earliest dates.
ToFlush(s, t) == {n \in Buffered(s, t) : n > s.cp[t]}

\* Mutant of OfFirstDates: the latest dates first.
OfLastDates(s, t, k) ==
    LET dates == {tpLog[n].date : n \in ToFlush(s, t)} IN
    {n \in ToFlush(s, t) : Cardinality({d \in dates : d >= tpLog[n].date}) <= k}

OfFirstDates(s, t, k) ==
    LET dates == {tpLog[n].date : n \in ToFlush(s, t)} IN
    {n \in ToFlush(s, t) : Cardinality({d \in dates : d <= tpLog[n].date}) <= k}

\* Mutants of FlushTable: one cursor for all tables; what could not be written
\* is forgotten.
FlushTableGlobalCursor(s, t, oc) ==
    LET written == ToFlush(s, t)
        cursor == [u \in Tables |-> Max(written)]
    IN  IF written = {} THEN s
        ELSE [Keep(WriteRows(s, t, written), t, {}) EXCEPT !.cp = cursor, !.cpFile = cursor]

FlushTableForgets(s, t, oc) ==
    LET written == OfFirstDates(s, t, oc.dates) IN
    IF written = {} THEN Keep(s, t, {})
    ELSE LET flushed == [Keep(WriteRows(s, t, written), t, {}) EXCEPT !.cp[t] = Max(written)]
         IN  SaveCheckpoint(flushed, oc.save)

\* .wdb.flushTable: dates in ascending order up to the first that fails; the
\* checkpoint advances, and is saved, only when no unwritten row is below a
\* written one.
FlushTable(s, t, oc) ==
    LET written == OfFirstDates(s, t, oc.dates)
        remaining == ToFlush(s, t) \ written
        advance == \A m \in written, n \in remaining : m < n
        flushed == Keep(WriteRows(s, t, written), t, remaining)
        advanced == [flushed EXCEPT !.cp[t] = Max(written)]
    IN  CASE ToFlush(s, t) = {} -> Keep(s, t, {})
          [] written = {} /\ ToFlush(s, t) # {} -> s
          [] written # {} /\ ~advance -> flushed
          [] written # {} /\ advance ->
                SaveCheckpoint(advanced, oc.save)

\* Its result: the whole buffer is written and the checkpoint saved.
FlushOk(s, t, oc) ==
    \/ ToFlush(s, t) = {}
    \/ OfFirstDates(s, t, oc.dates) = ToFlush(s, t) /\ oc.save

FlushTables(s, oc, ts) == FoldLeft(LAMBDA acc, t : FlushTable(acc, t, oc[t]), s, ts)

FlushAll(s, oc) == FlushTables(s, oc, TableSeq)

-----------------------------------------------------------------------------
(* Receipt *)

\* .wdb.floor
Floor(s, t) == Max({s.cp[t], s.bufMax[t]})

\* .wdb.acceptRow and the insert: drop a row at or below the floor, else
\* buffer it.
Accept(s, n) ==
    LET t == tpLog[n].tbl IN
    IF n <= Floor(s, t)
    THEN s
    ELSE [s EXCEPT !.buf[t][n] = @ + 1, !.bufMax[t] = Max({@, n})]

\* .wdb.ingest: a buffer that has grown past maxRows is flushed.
Ingest(s, n, oc) ==
    LET t == tpLog[n].tbl
        accepted == Accept(s, n)
    IN  IF accepted # s /\ BufLen(accepted, t) > MaxBuf
        THEN FlushTable(accepted, t, oc[t])
        ELSE accepted

\* The rows of R among ns, in their order.
IngestSeq(s, ns, R, oc) ==
    FoldLeft(LAMBDA acc, n : IF n \in R THEN Ingest(acc, n, oc) ELSE acc, s, ns)

\* The rows R[t] among ns for one table t after the other.
IngestTables(s, ns, R, oc) ==
    FoldLeft(LAMBDA acc, t : IngestSeq(acc, ns, R[t], oc), s, TableSeq)

-----------------------------------------------------------------------------
(* Roll *)

Partition(s, d) == \E n \in s.hdb : tpLog[n].date = d

\* .wdb.rollDate for every pending date except the failed ones: tmp.<date>
\* moves into the HDB, unless the HDB has that partition already.  The sort
\* before the move rewrites columns in place and keeps the rows; a kill inside
\* it is left out.
MoveDates(s, failed) ==
    LET moved == {n \in s.tmp : /\ tpLog[n].date < today
                                /\ tpLog[n].date \notin failed
                                /\ ~Partition(s, tpLog[n].date)}
    IN  [s EXCEPT !.tmp = @ \ moved, !.hdb = @ \cup moved]

\* .wdb.roll: flush everything; move the past dates only if that went well.
RollDb(s, oc, failed) ==
    IF \A t \in Tables : FlushOk(s, t, oc[t])
    THEN MoveDates(FlushAll(s, oc), failed)
    ELSE FlushAll(s, oc)

-----------------------------------------------------------------------------
(* The tickerplant, as far as WDB sees it *)

\* TP logs a row and publishes it to its subscriber.  The row's time is the
\* handler's receive time: today or, around midnight, the day before.
TpLog(t, d) ==
    /\ Len(tpLog) < MaxLog
    /\ d \in {today - 1, today} \cap Days
    /\ DatesInOrder => \A n \in RowsOf(t) : tpLog[n].date <= d
    /\ tpLog' = Append(tpLog, [tbl |-> t, date |-> d, day |-> tpDay])
    /\ chan' = IF conn = "down" THEN chan ELSE Append(chan, Len(tpLog) + 1)
    /\ UNCHANGED <<today, tpDay, conn, info, up, db, rollVars, faults>>

Midnight ==
    /\ today < MaxDay
    /\ today' = today + 1
    /\ UNCHANGED <<tpLog, tpDay, connVars, up, db, rollVars, faults>>

\* .tp.endOfDay: broadcast, then rotate the log.
TpEndOfDay ==
    /\ tpDay < today
    /\ tpDay' = today
    /\ chan' = IF conn = "down" THEN chan ELSE Append(chan, Eod)
    /\ UNCHANGED <<tpLog, today, conn, info, up, db, rollVars, faults>>

\* .tp.replayInfo[]: the last tpSeqNo and, per table except event tables, the
\* first one logged into the open log.
FirstTp(t) ==
    LET ns == {n \in RowsOf(t) : tpLog[n].day = tpDay} IN
    IF t \in EventTables \/ ns = {} THEN NoSeq ELSE Min(ns)

\* Mutant of ReplayInfo: the next tpSeqNo instead of the last.
ReplayInfoNext ==
    [cutoff |-> Len(tpLog) + 1, firstTp |-> [t \in Tables |-> FirstTp(t)]]

ReplayInfo == [cutoff |-> Len(tpLog), firstTp |-> [t \in Tables |-> FirstTp(t)]]

-----------------------------------------------------------------------------
(* Connect and replay *)

\* The handlers below run when WDB is not inside .wdb.connect.
Idle == up /\ conn \in {"down", "live"}

\* .wdb.connect, first part: from here on published rows reach WDB.
Subscribe ==
    /\ up
    /\ conn = "down"
    /\ conn' = "subscribed"
    /\ chan' = <<>>
    /\ UNCHANGED <<tpVars, info, up, db, rollVars, faults>>

AskReplay ==
    /\ conn = "subscribed"
    /\ conn' = "replaying"
    /\ info' = ReplayInfo
    /\ UNCHANGED <<tpVars, chan, up, db, rollVars, faults>>

\* .wdb.readLogs: where a table needs the logs from, NoSeq to skip it: above
\* its floor; without one at TP's hint.
StartOf(t) == IF Floor(db, t) > 0 THEN Floor(db, t) + 1 ELSE info.firstTp[t]

Starts == {StartOf(t) : t \in Tables} \ {NoSeq}

\* .wdb.stageRow: what is staged for table t when the log is read from row
\* `from' up to row `upto'.  The seek index has not every row, so from may be
\* below the start that is needed.
Staged(t, from, upto) ==
    {n \in RowsOf(t) : from <= n /\ Floor(db, t) < n /\ n <= upto}

\* Mutant of ReadFrom: the start of the table that is furthest ahead.
ReadFromLatest ==
    IF Starts = {} \/ Max(Starts) > info.cutoff THEN {MaxLog + 1} ELSE 1 .. Max(Starts)

ReadFrom ==
    IF Starts = {} \/ Min(Starts) > info.cutoff THEN {MaxLog + 1} ELSE 1 .. Min(Starts)

\* How far each table is merged: to the cutoff; or, in the middle of it, the
\* tables before the i-th to the cutoff and the i-th to row n.
ToCutoff == [t \in Tables |-> info.cutoff]

PartWay(i, n) ==
    [t \in Tables |-> CASE t \in Range(SubSeq(TableSeq, 1, i - 1)) -> info.cutoff
                        [] t = TableSeq[i] -> n
                        [] OTHER -> 0]

\* .wdb.runReplay: merge the staged rows table by table.  Then what has
\* arrived live (any part of chan may have) is drained.
Merge(from, upto, oc) ==
    IngestTables(db, [n \in DOMAIN tpLog |-> n], [t \in Tables |-> Staged(t, from, upto[t])], oc)

\* .wdb.drainLiveBuffer for every table: the rows above the cutoff among the
\* first k of chan.
Drain(s, k, oc) ==
    IngestTables(s, SubSeq(chan, 1, k), [t \in Tables |-> {n \in RowsOf(t) : n > info.cutoff}], oc)

\* The rest of .wdb.connect: the first replay of a process is followed by a
\* roll of the past dates.
Replay ==
    /\ conn = "replaying"
    /\ conn' = "live"
    /\ \E from \in ReadFrom, k \in 0 .. Len(chan), oc \in Outcomes :
        /\ Charge(oc)
        /\ LET replayed == Drain(Merge(from, ToCutoff, oc), k, oc) IN
           db' = IF startupRollDone THEN replayed ELSE RollDb(replayed, oc, {})
        /\ chan' = SubSeq(chan, k + 1, Len(chan))
        /\ rollDue' = (rollDue \/ \E i \in 1 .. k : chan[i] = Eod)
    /\ startupRollDone' = TRUE
    /\ UNCHANGED <<tpVars, info, up, currentDate>>

\* The connection breaks, or a replay fails: staged and waiting rows are
\* thrown away, nothing was merged.
ReplayFails ==
    /\ conn \in {"subscribed", "replaying"}
    /\ Fault("disconnect")
    /\ conn' = "down"
    /\ chan' = <<>>
    /\ UNCHANGED <<tpVars, info, up, db, rollVars>>

\* .z.pc
Disconnect ==
    /\ conn = "live"
    /\ Fault("disconnect")
    /\ conn' = "down"
    /\ chan' = <<>>
    /\ UNCHANGED <<tpVars, info, up, db, rollVars>>

\* upd with a row, or endofday.
Deliver ==
    /\ conn = "live"
    /\ chan # <<>>
    /\ chan' = Tail(chan)
    /\ IF Head(chan) = Eod
       THEN rollDue' = TRUE /\ UNCHANGED <<db, faults>>
       ELSE /\ UNCHANGED rollDue
            /\ \E oc \in Outcomes : Charge(oc) /\ db' = Ingest(db, Head(chan), oc)
    /\ UNCHANGED <<tpVars, conn, info, up, currentDate, startupRollDone>>

-----------------------------------------------------------------------------
(* Timer, operator, start and stop *)

\* .wdb.checkRoll, first half: the date has advanced; roll after the grace
\* period.
DateAdvanced ==
    /\ Idle
    /\ today > currentDate
    /\ currentDate' = today
    /\ rollDue' = TRUE
    /\ UNCHANGED <<tpVars, connVars, up, db, startupRollDone, faults>>

\* A roll, with its outcome: a failing flush, or dates that cannot be moved.
Roll ==
    \/ /\ \E oc \in Outcomes : Charge(oc) /\ db' = RollDb(db, oc, {})
    \/ /\ Fault("roll")
       /\ \E failed \in SUBSET Days : db' = RollDb(db, AllWell, failed)

\* .wdb.checkRoll, second half.  An aborted roll is not scheduled again.
ClockRoll ==
    /\ Idle
    /\ rollDue
    /\ rollDue' = FALSE
    /\ Roll
    /\ UNCHANGED <<tpVars, connVars, up, currentDate, startupRollDone>>

\* .z.ts: no replay within rollFallbackSec of the start.
FallbackRoll ==
    /\ Idle
    /\ conn = "down"
    /\ ~startupRollDone
    /\ startupRollDone' = TRUE
    /\ Roll
    /\ UNCHANGED <<tpVars, connVars, up, currentDate, rollDue>>

\* .wdb.flush
ManualFlush ==
    /\ Idle
    /\ \E oc \in Outcomes : Charge(oc) /\ db' = FlushAll(db, oc)
    /\ UNCHANGED <<tpVars, connVars, up, rollVars>>

Gone ==
    /\ up' = FALSE
    /\ conn' = "down"
    /\ chan' = <<>>
    /\ info' = NoInfo
    /\ UNCHANGED <<tpVars, rollVars>>

\* .wdb.shutdown: flush everything; exit, also when that failed.
Shutdown ==
    /\ Idle
    /\ \E oc \in Outcomes :
        /\ Faults({"stop"} \cup Cost(oc))
        /\ db' = NoMemory(FlushAll(db, oc))
    /\ Gone

Killed ==
    /\ up
    /\ Fault("crash")
    /\ db' = NoMemory(db)
    /\ Gone

\* Killed in a flush: k dates of TableSeq[i] are written and not checkpointed.
\* (A kill inside the append of one date, which writes column by column, is left
\* out.)
\* In a flush of all tables the ones before it are done; the flush of a full
\* buffer includes the row just received.
Flushing(i) ==
    {FlushTables(db, AllWell, SubSeq(TableSeq, 1, i - 1))}
    \cup {Accept(db, n) : n \in IF conn = "live" /\ chan # <<>> THEN {Head(chan)} \ {Eod} ELSE {}}

\* Mutant of FlushKilled: the checkpoint is saved before the rows are written.
FlushKilledSavedFirst ==
    /\ Idle
    /\ Fault("crash")
    /\ \E t \in Tables :
           /\ Buffered(db, t) # {}
           /\ db' = NoMemory([db EXCEPT !.cpFile[t] = Max(Buffered(db, t))])
    /\ Gone

FlushKilled ==
    /\ Idle
    /\ Fault("crash")
    /\ \E i \in DOMAIN TableSeq, k \in 1 .. MaxDay + 1 : \E s \in Flushing(i) :
           db' = NoMemory(WriteRows(s, TableSeq[i], OfFirstDates(s, TableSeq[i], k)))
    /\ Gone

\* Killed in a roll, with some of the dates moved.
RollKilled ==
    /\ Idle
    /\ rollDue
    /\ Fault("crash")
    /\ \E left \in SUBSET Days : db' = NoMemory(RollDb(db, AllWell, left))
    /\ Gone

\* Killed while the staged rows are merged, one table after the other.
ReplayKilled ==
    /\ conn = "replaying"
    /\ Fault("crash")
    /\ \E from \in ReadFrom, i \in DOMAIN TableSeq, n \in 0 .. info.cutoff :
           db' = NoMemory(Merge(from, PartWay(i, n), AllWell))
    /\ Gone

\* .wdb.loadCheckpoint.  Older shapes of the file, and tables it does not
\* know yet, are read as a checkpoint of 0 for the tables they lack.  A file
\* that cannot be read, which gives 0 for all, is left out: it is replaced by
\* a rename and never half written.
LoadedCheckpoint(t) == db.cpFile[t]

\* .wdb.diskMaxSeq
DiskMax(s, t) == Max({n \in s.tmp : tpLog[n].tbl = t} \cup {0})

\* Mutants of Reconciled: tmp.* is not looked at; nothing else is.
ReconciledCheckpoint(t) == LoadedCheckpoint(t)

ReconciledDisk(t) == DiskMax(db, t)

\* .wdb.reconcileCheckpointWithDisk
Reconciled(t) == Max({LoadedCheckpoint(t), DiskMax(db, t)})

\* Load the checkpoint and reconcile it with tmp.*; a raised one is saved.
Start ==
    LET loaded == [db EXCEPT !.cp = [t \in Tables |-> Reconciled(t)]] IN
    /\ ~up
    /\ up' = TRUE
    /\ currentDate' = today
    /\ rollDue' = FALSE
    /\ startupRollDone' = FALSE
    /\ \/ /\ db' = SaveCheckpoint(loaded, TRUE)
          /\ UNCHANGED faults
       \/ /\ loaded.cp # db.cpFile
          /\ Fault("save")
          /\ db' = SaveCheckpoint(loaded, FALSE)
    /\ UNCHANGED <<tpVars, connVars>>

Next ==
    \/ \E t \in Tables, d \in Days : TpLog(t, d)
    \/ Midnight
    \/ TpEndOfDay
    \/ Subscribe
    \/ AskReplay
    \/ Replay
    \/ ReplayFails
    \/ Disconnect
    \/ Deliver
    \/ DateAdvanced
    \/ ClockRoll
    \/ FallbackRoll
    \/ ManualFlush
    \/ Shutdown
    \/ Killed
    \/ FlushKilled
    \/ RollKilled
    \/ ReplayKilled
    \/ Start

Spec == Init /\ [][Next]_vars

-----------------------------------------------------------------------------
(* Properties *)

Stored(n) == n \in db.tmp \cup db.hdb

Held(n) == Stored(n) \/ n \in Buffered(db, tpLog[n].tbl)

\* No row is lost between TP's log and disk: while WDB is connected, every
\* logged row is on disk, in a buffer or on its way (README, "No silent loss").
NothingMissing ==
    conn = "live" => \A n \in DOMAIN tpLog : Held(n) \/ n \in Range(chan)

\* What WDB will refuse as already taken, it has: rows at or below the floor
\* are on disk or buffered; and, while it is down, rows at or below the
\* checkpoint the next start will use are on disk (wdb.q:154-159, 289-298).
FloorIsTruth ==
    \A t \in Tables : \A n \in RowsOf(t) :
        /\ up /\ n <= Floor(db, t) => Held(n)
        /\ ~up /\ n <= Reconciled(t) => Stored(n)

\* No row is written to disk twice, through replays, reconnects, kills
\* between a write and its checkpoint, failing writes and rolls (wdb.q:322-338;
\* tests/test_wdb_durability.sh, "kill -9 mid-run, restart, no loss, no
\* duplicates"), until a save of the checkpoint has failed.
WrittenOnce == faults["save"] = 0 => \A n \in Rows : db.copies[n] <= 1

\* "Rows reach an HDB partition only after a successful checkpoint (the roll
\* aborts otherwise)" (wdb.q:295-296): what would let a start scan tmp.* only.
\* A save that fails refutes it: the buffer is empty by then, so the next
\* roll's flush has nothing to do and does not abort.
RolledIsCheckpointed ==
    \A n \in db.hdb : n <= db.cpFile[tpLog[n].tbl]

\* The disk keeps what it has and takes each table's rows in the order of
\* TP's log, never one before an earlier one, whatever write, save or move
\* fails and wherever WDB is killed.  It is why a start may raise the
\* checkpoint to the highest row it finds (wdb.q:287-298, "the disk is the
\* truth, the checkpoint may lag it").
Store == INSTANCE RowStore WITH logged <- [n \in DOMAIN tpLog |-> tpLog[n].tbl],
                                stored <- db.tmp \cup db.hdb
ImplementsStore == Store!Spec

\* The checkpoint on disk never goes back, also when a flush saves the ones
\* of all tables, after saves that failed and when a start finds the disk
\* behind it; nor does a running WDB's floor: a row it has refused it would
\* refuse again (wdb.q:154-159, 289-298).
CheckpointStep ==
    \A t \in Tables :
        /\ db.cpFile[t] <= db'.cpFile[t]
        /\ up /\ up' => Floor(db, t) <= Floor(db', t)

CheckpointRises == [][CheckpointStep]_vars

=============================================================================
