------------------------------ MODULE TpSeqNo -------------------------------
(***************************************************************************)
(* The durable row counter of the tickerplant (kdb/tick/tp.q, ".tp.seq").  *)
(*                                                                         *)
(* Every row TP logs carries a tpSeqNo.  TP keeps the counter in memory    *)
(* and a reservation in a file: a number is handed out only when a         *)
(* reservation at or above it is on disk, and a start resumes AT the       *)
(* reservation.  Without a readable file the counter is seeded from the    *)
(* newest daily log; a counter found below today's log is raised to it.    *)
(*                                                                         *)
(* The model keeps every write to the file, the daily logs with their      *)
(* rotation, kills between any two writes, and the two ways the file can   *)
(* go wrong (gone or unreadable; an old copy put back).  It leaves out the *)
(* contents of a row: a logged entry is its number, the day of its log and *)
(* whether a log scan counts it (.tp.scanUpd skips trade_gap events and    *)
(* rows of tables it does not know).                                       *)
(***************************************************************************)
EXTENDS Integers, Sequences

CONSTANTS
    SeqReserve,     \* .tp.cfg.seqReserve: how far ahead a reservation reaches
    MaxRows,        \* bound: rows logged in a behaviour
    MaxDay,         \* bound: days 0..MaxDay
    MaxKills,       \* bound: times TP is killed
    MaxLogFails,    \* bound: rows whose write to the log fails
    FileFaults,     \* what can happen to the file: a subset of {"lost", "stale"}
    MaxFileFaults   \* bound: how often

ASSUME SeqNoAssumption ==
    /\ SeqReserve \in Nat
    /\ MaxRows \in Nat
    /\ MaxDay \in Nat
    /\ MaxKills \in Nat
    /\ MaxLogFails \in Nat
    /\ FileFaults \subseteq {"lost", "stale"}
    /\ MaxFileFaults \in Nat

VARIABLES
    up,         \* TP is running
    tpSeqNo,    \* .tp.tpSeqNo: last number handed out
    reserved,   \* .tp.seq.reserved: highest number the file covers
    seqFile,    \* the reservation on disk, or NoFile
    today,      \* the UTC date
    openDay,    \* the date of the log TP has open (.tp.currentDate)
    logFiles,   \* the dates for which a daily log exists
    log,        \* all logged entries, in the order they were written
    kills, logFails, fileFaults

seqVars == <<tpSeqNo, reserved, seqFile>>
logVars == <<openDay, logFiles, log>>
faultVars == <<kills, logFails, fileFaults>>
vars == <<up, seqVars, today, logVars, faultVars>>

NoFile == -1
Days == 0 .. MaxDay
Entry == [seq : Nat, day : Days, scanned : BOOLEAN]

TypeOK ==
    /\ up \in BOOLEAN
    /\ tpSeqNo \in Nat
    /\ reserved \in Nat
    /\ seqFile \in Nat \cup {NoFile}
    /\ today \in Days
    /\ openDay \in Days
    /\ logFiles \in SUBSET Days
    /\ log \in Seq(Entry)
    /\ kills \in 0 .. MaxKills
    /\ logFails \in 0 .. MaxLogFails
    /\ fileFaults \in 0 .. MaxFileFaults

Init ==
    /\ up = FALSE
    /\ tpSeqNo = 0
    /\ reserved = 0
    /\ seqFile = NoFile
    /\ today = 0
    /\ openDay = 0
    /\ logFiles = {}
    /\ log = <<>>
    /\ kills = 0
    /\ logFails = 0
    /\ fileFaults = 0

-----------------------------------------------------------------------------
(* Log scans *)

\* The numbers .tp.scanLog sees in the log of one day.
ScannedSeqs(d) ==
    {log[i].seq : i \in {j \in 1 .. Len(log) : log[j].day = d /\ log[j].scanned}}

\* .tp.scan.tpMax: the largest of them, 0 in a log with none.
ScanMax(d) == CHOOSE m \in ScannedSeqs(d) \cup {0} : \A n \in ScannedSeqs(d) : n <= m

\* .tp.newestLog: the latest date with a log file.
NewestLog == CHOOSE d \in logFiles : \A e \in logFiles : e <= d

\* Mutant of MigrationSeed: null when there are no logs.
MigrationSeedNull == IF logFiles = {} THEN NoFile ELSE ScanMax(NewestLog)

\* The seed of a start without a readable reservation file.
MigrationSeed == IF logFiles = {} THEN 0 ELSE ScanMax(NewestLog)

-----------------------------------------------------------------------------
(* Operations *)

\* .tp.seq.persist: temporary file and rename, so the file is replaced whole.
Persist(n) ==
    /\ reserved' = n
    /\ seqFile' = n

\* .tp.openLog: open, or create, the log of the day.
OpenLog ==
    /\ openDay' = today
    /\ logFiles' = logFiles \cup {today}

\* Where a start resumes: at the reservation, else at the migration seed;
\* raised to the last number of today's log when that one is higher.
LoadedSeq == IF seqFile # NoFile THEN seqFile ELSE MigrationSeed

\* Mutants of RecoveredSeq: seeded from today's log alone; never raised.
RecoveredSeqTodayOnly == IF today \in logFiles THEN ScanMax(today) ELSE 0

RecoveredSeqNotRaised == LoadedSeq

RecoveredSeq ==
    IF today \in logFiles /\ ScanMax(today) > LoadedSeq
    THEN ScanMax(today)
    ELSE LoadedSeq

\* .tp.seq.load, .tp.recoverFhSeq, .tp.openLog: seed the counter, put a
\* reservation of this run's own on disk, open (or create) today's log.
Start ==
    /\ ~up
    /\ up' = TRUE
    /\ tpSeqNo' = RecoveredSeq
    /\ Persist(RecoveredSeq + SeqReserve)
    /\ OpenLog
    /\ UNCHANGED <<today, log, faultVars>>

\* Killed inside Start, after .tp.seq.load has put its reservation on disk
\* and before .tp.recoverFhSeq could raise it.
KilledStarting ==
    /\ ~up
    /\ kills < MaxKills
    /\ seqFile' = LoadedSeq + SeqReserve
    /\ kills' = kills + 1
    /\ UNCHANGED <<up, tpSeqNo, reserved, today, logVars, logFails, fileFaults>>

\* Mutants of NextSeqNo: the reservation is extended in memory only; it is
\* extended one number too late.
NextSeqNoUnsaved ==
    /\ reserved' = IF tpSeqNo + 1 > reserved THEN tpSeqNo + 1 + SeqReserve ELSE reserved
    /\ seqFile' = seqFile
    /\ tpSeqNo' = tpSeqNo + 1

NextSeqNoLate ==
    LET n == tpSeqNo + 1 IN
    /\ IF tpSeqNo > reserved THEN Persist(n + SeqReserve) ELSE UNCHANGED <<reserved, seqFile>>
    /\ tpSeqNo' = n

\* .tp.nextSeqNo: extend the reservation on disk first when it is used up,
\* then hand out the next number.  When the reservation cannot be written
\* the call throws and nothing has changed.
NextSeqNo ==
    LET n == tpSeqNo + 1 IN
    /\ IF n > reserved THEN Persist(n + SeqReserve) ELSE UNCHANGED <<reserved, seqFile>>
    /\ tpSeqNo' = n

\* upd or .tp.event: number the row and log it.
LogRow(scanned) ==
    /\ up
    /\ Len(log) < MaxRows
    /\ NextSeqNo
    /\ log' = Append(log, [seq |-> tpSeqNo + 1, day |-> openDay, scanned |-> scanned])
    /\ UNCHANGED <<up, today, openDay, logFiles, faultVars>>

\* The row has its number and its write to the log fails: upd throws, the
\* number stays used up.
LogFails ==
    /\ up
    /\ logFails < MaxLogFails
    /\ NextSeqNo
    /\ logFails' = logFails + 1
    /\ UNCHANGED <<up, today, logVars, kills, fileFaults>>

\* Killed after the new reservation was renamed into place and before the
\* row was logged: the numbers in between are skipped, for good.
KilledAfterPersist ==
    LET n == tpSeqNo + 1 IN
    /\ up
    /\ n > reserved
    /\ kills < MaxKills
    /\ seqFile' = n + SeqReserve
    /\ up' = FALSE
    /\ kills' = kills + 1
    /\ UNCHANGED <<tpSeqNo, reserved, today, logVars, logFails, fileFaults>>

Killed ==
    /\ up
    /\ kills < MaxKills
    /\ up' = FALSE
    /\ kills' = kills + 1
    /\ UNCHANGED <<seqVars, today, logVars, logFails, fileFaults>>

Midnight ==
    /\ today < MaxDay
    /\ today' = today + 1
    /\ UNCHANGED <<up, seqVars, logVars, faultVars>>

\* .tp.checkEOD on the timer: rotation opens, and so creates, today's log.
\* The counter carries on.
EndOfDay ==
    /\ up
    /\ today > openDay
    /\ OpenLog
    /\ UNCHANGED <<up, seqVars, today, log, faultVars>>

\* The file is deleted or becomes unreadable while TP is down.
LoseSeqFile ==
    /\ "lost" \in FileFaults
    /\ ~up
    /\ seqFile # NoFile
    /\ fileFaults < MaxFileFaults
    /\ seqFile' = NoFile
    /\ fileFaults' = fileFaults + 1
    /\ UNCHANGED <<up, tpSeqNo, reserved, today, logVars, kills, logFails>>

\* An old copy of the file is put back while TP is down.
RestoreSeqFile ==
    /\ "stale" \in FileFaults
    /\ ~up
    /\ fileFaults < MaxFileFaults
    /\ \E old \in 0 .. seqFile - 1 : seqFile' = old
    /\ fileFaults' = fileFaults + 1
    /\ UNCHANGED <<up, tpSeqNo, reserved, today, logVars, kills, logFails>>

Next ==
    \/ Start
    \/ \E scanned \in BOOLEAN : LogRow(scanned)
    \/ KilledStarting
    \/ LogFails
    \/ KilledAfterPersist
    \/ Killed
    \/ Midnight
    \/ EndOfDay
    \/ LoseSeqFile
    \/ RestoreSeqFile

Spec == Init /\ [][Next]_vars

-----------------------------------------------------------------------------
(* Properties *)

\* No tpSeqNo is used twice and the counter never goes backwards: along the
\* logs, in the order the rows were written, the numbers strictly increase,
\* across kills, restarts, rotations and days without a log.
\* (tp.q:7-10, "tpSeqNo never goes backwards [...] a crash can skip numbers
\* but never reuse one".)
LogStrictlyIncreasing ==
    \A i, j \in 1 .. Len(log) : i < j => log[i].seq < log[j].seq

\* Every number in a log is covered by the reservation on disk, whether TP
\* runs or is down: the write to the file comes first (tp.q:234, "A number n
\* is handed out only once a reservation >= n is on disk").
LoggedIsReserved ==
    \A i \in 1 .. Len(log) : log[i].seq <= seqFile

\* While TP runs, its counter is at or above everything ever logged, so the
\* next number is new, whichever of file and logs the start used.
CounterAboveLog ==
    up => \A i \in 1 .. Len(log) : log[i].seq <= tpSeqNo

\* The history of stamped numbers implements the abstract allocator.
Alloc == INSTANCE SeqAllocator WITH issued <- [i \in 1 .. Len(log) |-> log[i].seq]
ImplementsAllocator == Alloc!Spec

\* What is left when the file is lost or an old copy of it is put back: a
\* start still falls back on, or raises the counter to, the rows a scan finds
\* in the newest log, so the scanned rows of one day never reuse or step
\* back (.tp.seq.load's migration and .tp.recoverFhSeq's raise).
RowsOfADayIncrease ==
    \A i, j \in 1 .. Len(log) :
        /\ i < j
        /\ log[i].day = log[j].day
        /\ log[i].scanned
        /\ log[j].scanned
        => log[i].seq < log[j].seq

\* The inductive invariant of the proofs: with the file never lost, what is
\* in memory, on disk and in the logs is ordered log <= tpSeqNo <= reserved
\* <= file, and a file that does not exist means that nothing was logged.
SeqInv ==
    /\ TypeOK
    /\ LogStrictlyIncreasing
    /\ LoggedIsReserved
    /\ CounterAboveLog
    /\ up => tpSeqNo <= reserved /\ reserved = seqFile
    /\ seqFile = NoFile => log = <<>>

=============================================================================
