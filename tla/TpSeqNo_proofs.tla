--------------------------- MODULE TpSeqNo_proofs ---------------------------
(***************************************************************************)
(* Proofs about TpSeqNo.  As long as the reservation file is neither lost  *)
(* nor replaced (FileFaults = {}), the counter is safe for every           *)
(* reservation size and any number of kills, days and rows.                *)
(***************************************************************************)
EXTENDS TpSeqNo, NatLemmas, TLAPS

-----------------------------------------------------------------------------
(* Where a start resumes *)

\* Every logged entry has a natural number.
LEMMA LogTyped ==
    ASSUME TypeOK
    PROVE  Len(log) \in Nat /\ \A i \in 1 .. Len(log) : log[i].seq \in Nat
<1>1. log \in Seq(Entry)
  BY DEF TypeOK
<1>2. Len(log) \in Nat /\ \A i \in 1 .. Len(log) : log[i] \in Entry
  BY <1>1
<1>3. \A e \in Entry : e.seq \in Nat
  BY DEF Entry
<1>4. QED
  BY <1>2, <1>3

\* A scan of a log whose numbers are bounded returns one of them, or 0.
LEMMA ScanMaxBounded ==
    ASSUME TypeOK, NEW d, NEW b \in Nat,
           \A i \in 1 .. Len(log) : log[i].seq <= b
    PROVE  ScanMax(d) \in Nat /\ ScanMax(d) <= b
<1> DEFINE S == ScannedSeqs(d) \cup {0}
<1>1. \A n \in S : n \in Nat /\ n <= b
  BY LogTyped DEF ScannedSeqs
<1>2. \E m \in S : \A n \in S : n <= m
  BY <1>1, GreatestNatural
<1>3. \E m \in S : \A n \in ScannedSeqs(d) : n <= m
  BY <1>2
<1>4. ScanMax(d) \in S
  BY <1>3 DEF ScanMax
<1>5. QED
  BY <1>1, <1>4

\* With the file in place, or on a first start, the counter is loaded at or
\* above everything logged ...
LEMMA LoadedAboveLog ==
    ASSUME SeqInv
    PROVE  /\ LoadedSeq \in Nat
           /\ \A i \in 1 .. Len(log) : log[i].seq <= LoadedSeq
<1>1. CASE seqFile # NoFile
  BY <1>1 DEF SeqInv, TypeOK, LoggedIsReserved, LoadedSeq
<1>2. CASE seqFile = NoFile
  <2>1. log = <<>>
    BY <1>2 DEF SeqInv
  <2>2. \A d : ScanMax(d) = 0
    BY <2>1 DEF ScanMax, ScannedSeqs
  <2>3. LoadedSeq = 0
    BY <1>2, <2>2 DEF LoadedSeq, MigrationSeed
  <2>4. QED
    BY <2>1, <2>3
<1>3. QED
  BY <1>1, <1>2

\* ... so that today's log never raises it, and the start resumes there.
LEMMA ResumeAboveLog ==
    ASSUME SeqInv
    PROVE  /\ RecoveredSeq \in Nat
           /\ \A i \in 1 .. Len(log) : log[i].seq <= RecoveredSeq
<1>1. /\ LoadedSeq \in Nat
      /\ \A i \in 1 .. Len(log) : log[i].seq <= LoadedSeq
  BY LoadedAboveLog
<1>2. ScanMax(today) \in Nat /\ ScanMax(today) <= LoadedSeq
  BY <1>1, ScanMaxBounded DEF SeqInv
<1>3. RecoveredSeq = LoadedSeq
  BY <1>1, <1>2 DEF RecoveredSeq
<1>4. QED
  BY <1>1, <1>3

-----------------------------------------------------------------------------
(* The inductive invariant *)

\* The invariant holds initially.
LEMMA InitSeqInv == Init => SeqInv
<1> SUFFICES ASSUME Init
             PROVE  SeqInv
  OBVIOUS
<1>1. up \in BOOLEAN /\ ~up /\ log = <<>> /\ seqFile = NoFile /\ logFiles = {}
  BY DEF Init
<1>2. /\ 0 \in Days /\ 0 \in 0 .. MaxKills /\ 0 \in 0 .. MaxLogFails /\ 0 \in 0 .. MaxFileFaults
      /\ log \in Seq(Entry) /\ Len(log) = 0
  BY <1>1, SeqNoAssumption DEF Days
<1>3. TypeOK
  BY <1>1, <1>2 DEF Init, TypeOK
<1>4. QED
  BY <1>1, <1>2, <1>3
     DEF SeqInv, LogStrictlyIncreasing, LoggedIsReserved, CounterAboveLog

\* Every step preserves the invariant, with the file left alone.
LEMMA NextSeqInv ==
    ASSUME FileFaults = {}, SeqInv, [Next]_vars
    PROVE  SeqInv'
<1> USE SeqNoAssumption
<1>1. CASE Start
  <2>1. /\ RecoveredSeq \in Nat
        /\ \A i \in 1 .. Len(log) : log[i].seq <= RecoveredSeq
    BY ResumeAboveLog
  <2>2. /\ up' /\ log' = log
        /\ tpSeqNo' = RecoveredSeq
        /\ reserved' = tpSeqNo' + SeqReserve
        /\ seqFile' = reserved'
    BY <1>1 DEF Start, Persist
  <2>3. TypeOK'
    BY <1>1, <2>1 DEF Start, Persist, OpenLog, faultVars, SeqInv, TypeOK
  <2>4. \A i \in 1 .. Len(log') : /\ log'[i].seq \in Nat
                                  /\ log'[i].seq <= tpSeqNo'
                                  /\ log'[i].seq <= seqFile'
    BY <2>1, <2>2, LogTyped DEF SeqInv
  <2>5. seqFile' # NoFile
    BY <2>1, <2>2 DEF NoFile
  <2>6. QED
    BY <2>1, <2>2, <2>3, <2>4, <2>5
       DEF SeqInv, LogStrictlyIncreasing, LoggedIsReserved, CounterAboveLog
<1>2. ASSUME up, NextSeqNo
      PROVE  LET n == tpSeqNo + 1 IN
             /\ up /\ n \in Nat
             /\ tpSeqNo' = n
             /\ seqFile' = reserved' /\ reserved' \in Nat /\ n <= reserved'
             /\ \A i \in 1 .. Len(log) : log[i].seq \in Nat /\ log[i].seq < n
  <2>1. tpSeqNo \in Nat /\ reserved \in Nat /\ tpSeqNo <= reserved /\ seqFile = reserved
    BY <1>2 DEF SeqInv, TypeOK
  <2>2. \A i \in 1 .. Len(log) : log[i].seq \in Nat /\ log[i].seq <= tpSeqNo
    BY <1>2, LogTyped DEF SeqInv, CounterAboveLog
  <2>3. QED
    BY <1>2, <2>1, <2>2 DEF NextSeqNo, Persist
<1>2a. ASSUME NEW scanned \in BOOLEAN, LogRow(scanned)
       PROVE  SeqInv'
  <2> DEFINE n == tpSeqNo + 1
             e == [seq |-> n, day |-> openDay, scanned |-> scanned]
  <2>1. /\ n \in Nat
        /\ tpSeqNo' = n
        /\ seqFile' = reserved' /\ reserved' \in Nat /\ n <= reserved'
        /\ \A i \in 1 .. Len(log) : log[i].seq \in Nat /\ log[i].seq < n
    BY <1>2, <1>2a DEF LogRow
  <2>2. /\ up'
        /\ log \in Seq(Entry) /\ e \in Entry
        /\ log' = Append(log, e)
    BY <1>2a, <2>1 DEF LogRow, SeqInv, TypeOK, Entry
  <2>3. /\ log' \in Seq(Entry)
        /\ Len(log') = Len(log) + 1 /\ Len(log) \in Nat
        /\ \A i \in 1 .. Len(log) : log'[i] = log[i]
        /\ log'[Len(log')].seq = n
    BY <2>2
  <2>4. up' \in BOOLEAN
    BY <1>2a DEF LogRow, SeqInv, TypeOK
  <2>5. TypeOK'
    BY <1>2a, <2>1, <2>3, <2>4 DEF LogRow, faultVars, SeqInv, TypeOK
  <2>6. LogStrictlyIncreasing'
    BY <2>1, <2>3 DEF SeqInv, LogStrictlyIncreasing
  <2>7. LoggedIsReserved' /\ CounterAboveLog'
    <3>1. \A i \in 1 .. Len(log') : i \in 1 .. Len(log) \/ i = Len(log')
      BY <2>3
    <3>2. \A i \in 1 .. Len(log') : log'[i].seq \in Nat /\ log'[i].seq <= n
      BY <2>1, <2>3, <3>1
    <3>3. \A i \in 1 .. Len(log') : log'[i].seq <= reserved'
      BY <2>1, <3>2
    <3>4. QED
      BY <2>1, <3>2, <3>3 DEF LoggedIsReserved, CounterAboveLog
  <2>8. QED
    BY <2>1, <2>2, <2>5, <2>6, <2>7 DEF SeqInv, NoFile
<1>2b. CASE LogFails
  <2>1. /\ tpSeqNo' \in Nat
        /\ seqFile' = reserved' /\ reserved' \in Nat /\ tpSeqNo' <= reserved'
        /\ \A i \in 1 .. Len(log) : log[i].seq \in Nat /\ log[i].seq < tpSeqNo'
    BY <1>2, <1>2b DEF LogFails
  <2>2. log' = log
    BY <1>2b DEF LogFails, logVars
  <2>3. logFails' \in 0 .. MaxLogFails
    BY <1>2b DEF LogFails, SeqInv, TypeOK
  <2>4. TypeOK'
    <3>1. up' \in BOOLEAN
      BY <1>2b DEF LogFails, SeqInv, TypeOK
    <3>2. QED
      BY <1>2b, <2>1, <2>3, <3>1 DEF LogFails, logVars, SeqInv, TypeOK
  <2>5. QED
    BY <2>1, <2>2, <2>4
       DEF SeqInv, LogStrictlyIncreasing, LoggedIsReserved, CounterAboveLog, NoFile
<1>2c. CASE KilledStarting
  <2>1. ~up /\ ~up' /\ UNCHANGED log /\ seqFile' = LoadedSeq + SeqReserve
    BY <1>2c DEF KilledStarting, logVars
  <2>2. /\ LoadedSeq \in Nat
        /\ \A i \in 1 .. Len(log) : log[i].seq \in Nat /\ log[i].seq <= LoadedSeq
    BY LoadedAboveLog, LogTyped DEF SeqInv
  <2>3. kills' \in 0 .. MaxKills
    BY <1>2c DEF KilledStarting, SeqInv, TypeOK
  <2>4. TypeOK'
    <3>1. up' \in BOOLEAN
      BY <1>2c DEF KilledStarting, SeqInv, TypeOK
    <3>2. QED
      BY <1>2c, <2>1, <2>2, <2>3, <3>1 DEF KilledStarting, logVars, SeqInv, TypeOK
  <2>5. QED
    BY <2>1, <2>2, <2>4
       DEF SeqInv, LogStrictlyIncreasing, LoggedIsReserved, CounterAboveLog, NoFile
<1>3. CASE KilledAfterPersist
  <2>1. /\ up /\ ~up'
        /\ tpSeqNo \in Nat /\ seqFile' = tpSeqNo + 1 + SeqReserve
        /\ UNCHANGED log
    BY <1>3 DEF KilledAfterPersist, logVars, SeqInv, TypeOK
  <2>2. \A i \in 1 .. Len(log) : log[i].seq <= seqFile'
    BY <2>1, LogTyped DEF SeqInv, CounterAboveLog
  <2>3. /\ kills' \in 0 .. MaxKills /\ seqFile' \in Nat
        /\ up' \in BOOLEAN
    <3>1. kills \in 0 .. MaxKills /\ kills' = kills + 1 /\ kills < MaxKills
      BY <1>3 DEF KilledAfterPersist, SeqInv, TypeOK
    <3>2. up' \in BOOLEAN
      BY <1>3 DEF KilledAfterPersist
    <3>3. QED
      BY <2>1, <3>1, <3>2
  <2>4. TypeOK'
    BY <1>3, <2>1, <2>3 DEF KilledAfterPersist, logVars, SeqInv, TypeOK
  <2>5. seqFile' # NoFile
    BY <2>1 DEF NoFile
  <2>6. QED
    BY <2>1, <2>2, <2>4, <2>5
       DEF SeqInv, LogStrictlyIncreasing, LoggedIsReserved, CounterAboveLog
<1>4. CASE Killed
  <2>1a. kills' \in 0 .. MaxKills /\ up' \in BOOLEAN
    <3>1. kills \in 0 .. MaxKills /\ kills' = kills + 1 /\ kills < MaxKills
      BY <1>4 DEF Killed, SeqInv, TypeOK
    <3>2. up' \in BOOLEAN
      BY <1>4 DEF Killed
    <3>3. QED
      BY <3>1, <3>2
  <2>1. TypeOK'
    BY <1>4, <2>1a DEF Killed, seqVars, logVars, SeqInv, TypeOK
  <2>2. ~up' /\ UNCHANGED <<seqFile, log>>
    BY <1>4 DEF Killed, seqVars, logVars
  <2>3. QED
    BY <2>1, <2>2 DEF SeqInv, LogStrictlyIncreasing, LoggedIsReserved, CounterAboveLog
<1>5. CASE Midnight
  BY <1>5 DEF Midnight, seqVars, logVars, faultVars, SeqInv, TypeOK, Days,
              LogStrictlyIncreasing, LoggedIsReserved, CounterAboveLog
<1>6. CASE EndOfDay
  BY <1>6 DEF EndOfDay, OpenLog, seqVars, faultVars, SeqInv, TypeOK,
              LogStrictlyIncreasing, LoggedIsReserved, CounterAboveLog
<1>7. CASE LoseSeqFile \/ RestoreSeqFile
  BY <1>7 DEF LoseSeqFile, RestoreSeqFile
<1>8. CASE UNCHANGED vars
  BY <1>8 DEF vars, seqVars, logVars, faultVars, SeqInv, TypeOK,
              LogStrictlyIncreasing, LoggedIsReserved, CounterAboveLog
<1>9. QED
  BY <1>1, <1>2a, <1>2b, <1>2c, <1>3, <1>4, <1>5, <1>6, <1>7, <1>8 DEF Next

\* With the reservation file left alone, the ordering log <= tpSeqNo <=
\* reserved <= file is an invariant of every behaviour: in particular no
\* tpSeqNo is ever reused (tp.q:7-10) and every logged number is covered on
\* disk (tp.q:234), through kills at any point, restarts and midnights.
THEOREM SeqNoSafe ==
    ASSUME FileFaults = {}
    PROVE  Spec => []SeqInv
<1>1. SeqInv /\ [Next]_vars => SeqInv'
  BY NextSeqInv
<1>2. QED
  BY <1>1, InitSeqInv, PTL DEF Spec

\* No tpSeqNo is used twice and the counter never goes backwards.
THEOREM NeverReused ==
    ASSUME FileFaults = {}
    PROVE  Spec => []LogStrictlyIncreasing
<1>1. SeqInv => LogStrictlyIncreasing
  BY DEF SeqInv
<1>2. QED
  BY <1>1, SeqNoSafe, PTL

-----------------------------------------------------------------------------
(* Refinement *)

\* The tickerplant's counter, with its file, kills and rotations, implements
\* the allocator that only extends an increasing history.
THEOREM AllocatorRefined ==
    ASSUME FileFaults = {}
    PROVE  Spec => ImplementsAllocator
<1> DEFINE hist == [i \in 1 .. Len(log) |-> log[i].seq]
<1>1. Init => Alloc!Init
  BY DEF Init, Alloc!Init
<1>2. ASSUME SeqInv, [Next]_vars
      PROVE  [Alloc!Issue]_hist
  <2>1. ASSUME NEW scanned \in BOOLEAN, LogRow(scanned)
        PROVE  Alloc!Issue
    <3> DEFINE e == [seq |-> tpSeqNo + 1, day |-> openDay, scanned |-> scanned]
    <3>1. /\ up
          /\ log \in Seq(Entry) /\ tpSeqNo \in Nat
          /\ log' = Append(log, e)
          /\ e \in Entry
      BY <1>2, <2>1 DEF LogRow, SeqInv, TypeOK, Entry
    <3>2. /\ Len(log') = Len(log) + 1 /\ Len(log) \in Nat
          /\ \A i \in 1 .. Len(log) : log'[i] = log[i]
          /\ log'[Len(log')].seq = tpSeqNo + 1
      BY <3>1
    <3>3. \A i \in 1 .. Len(log) : log[i].seq \in Nat /\ log[i].seq < tpSeqNo + 1
      BY <1>2, <3>1, LogTyped DEF SeqInv, CounterAboveLog
    <3>4. Len(hist) = Len(log) /\ Len(hist') = Len(log')
      BY <3>1, <3>2
    <3>5. QED
      BY <3>2, <3>3, <3>4 DEF Alloc!Issue
  <2>2. CASE UNCHANGED log
    BY <2>2
  <2>3. QED
    BY <1>2, <2>1, <2>2
       DEF Next, Start, KilledStarting, LogFails, KilledAfterPersist, Killed, Midnight, EndOfDay,
           LoseSeqFile, RestoreSeqFile, vars, logVars
<1>3. QED
  BY <1>1, <1>2, SeqNoSafe, PTL DEF Spec, Alloc!Spec, ImplementsAllocator

-----------------------------------------------------------------------------
(* What is left when the file is lost or goes back *)

\* The logs are written in the order of their days, and while TP runs its
\* counter is at or above the rows that a scan of the open log would find.
DayInv ==
    /\ TypeOK
    /\ RowsOfADayIncrease
    /\ openDay <= today
    /\ \A i \in 1 .. Len(log) : log[i].day <= openDay /\ log[i].day \in logFiles
    /\ up => /\ openDay \in logFiles
             /\ \A i \in 1 .. Len(log) :
                    log[i].day = openDay /\ log[i].scanned => log[i].seq <= tpSeqNo

\* A scan returns a natural at or above every number it has seen.
LEMMA ScanMaxCovers ==
    ASSUME TypeOK, NEW d
    PROVE  /\ ScanMax(d) \in Nat
           /\ \A i \in 1 .. Len(log) :
                  log[i].day = d /\ log[i].scanned => log[i].seq <= ScanMax(d)
<1> DEFINE S == ScannedSeqs(d) \cup {0}
<1>1. S \subseteq Nat
  BY LogTyped DEF ScannedSeqs
<1>2. PICK b \in Nat : \A n \in S : n <= b
  <2> DEFINE Bounded == {m \in Nat : m <= Len(log) =>
                           \E b \in Nat : \A i \in 1 .. m : log[i].seq <= b}
  <2>1. 0 \in Bounded
    BY LogTyped
  <2>2. ASSUME NEW m \in Nat, m \in Bounded
        PROVE  m + 1 \in Bounded
    <3>1. SUFFICES ASSUME m + 1 <= Len(log)
                   PROVE  \E b \in Nat : \A i \in 1 .. m + 1 : log[i].seq <= b
      OBVIOUS
    <3>2. PICK b \in Nat : \A i \in 1 .. m : log[i].seq <= b
      BY <2>2, <3>1, LogTyped
    <3>3. /\ m + 1 \in 1 .. Len(log) /\ log[m + 1].seq \in Nat
          /\ \A i \in 1 .. m : log[i].seq \in Nat
      BY <3>1, LogTyped
    <3>4. \A i \in 1 .. m + 1 : log[i].seq <= b + log[m + 1].seq
      <4>1. TAKE i \in 1 .. m + 1
      <4>2. i \in 1 .. m \/ i = m + 1
        OBVIOUS
      <4>3. QED
        BY <3>2, <3>3, <4>2
    <3>5. b + log[m + 1].seq \in Nat
      BY <3>3
    <3>6. QED
      BY <3>4, <3>5
  <2>3. Len(log) \in Bounded
    BY <2>1, <2>2, SetInduction, LogTyped
  <2>4. PICK b \in Nat : \A i \in 1 .. Len(log) : log[i].seq <= b
    BY <2>3, LogTyped
  <2>5. \A n \in S : n <= b
    BY <2>4 DEF ScannedSeqs
  <2>6. QED
    BY <2>5
<1>3. \E m \in S : \A n \in S : n <= m
  BY <1>1, <1>2, GreatestNatural
<1>4. ScanMax(d) \in S /\ \A n \in ScannedSeqs(d) : n <= ScanMax(d)
  BY <1>3 DEF ScanMax
<1>5. QED
  BY <1>1, <1>4 DEF ScannedSeqs

\* A start without a reservation file and a start with one both yield a number.
LEMMA LoadedIsNat ==
    ASSUME TypeOK
    PROVE  LoadedSeq \in Nat
<1>1. \A d : ScanMax(d) \in Nat
  BY ScanMaxCovers
<1>2. QED
  BY <1>1 DEF TypeOK, LoadedSeq, MigrationSeed

\* The invariant holds initially.
LEMMA InitDayInv == Init => DayInv
<1> SUFFICES ASSUME Init
             PROVE  DayInv
  OBVIOUS
<1>1. TypeOK
  BY InitSeqInv DEF SeqInv
<1>2. ~up /\ log = <<>> /\ Len(log) = 0 /\ openDay = 0 /\ today = 0
  BY DEF Init
<1>3. QED
  BY <1>1, <1>2 DEF DayInv, RowsOfADayIncrease

\* The types hold after every step, whatever becomes of the file.
LEMMA NextTyped ==
    ASSUME TypeOK, [Next]_vars
    PROVE  TypeOK'
<1> USE SeqNoAssumption
<1>1. CASE Start
  <2>1. RecoveredSeq \in Nat
    BY LoadedIsNat, ScanMaxCovers DEF RecoveredSeq
  <2>2. up' \in BOOLEAN /\ RecoveredSeq + SeqReserve \in Nat
    BY <1>1, <2>1 DEF Start
  <2>3. QED
    BY <1>1, <2>1, <2>2 DEF Start, Persist, OpenLog, faultVars, TypeOK
<1>2. ASSUME NextSeqNo
      PROVE  tpSeqNo' \in Nat /\ reserved' \in Nat /\ seqFile' \in Nat \cup {NoFile}
  BY <1>2 DEF NextSeqNo, Persist, TypeOK
<1>3. ASSUME NEW scanned \in BOOLEAN, LogRow(scanned)
      PROVE  TypeOK'
  <2> DEFINE e == [seq |-> tpSeqNo + 1, day |-> openDay, scanned |-> scanned]
  <2>1. log \in Seq(Entry) /\ e \in Entry /\ log' = Append(log, e)
    BY <1>3 DEF LogRow, TypeOK, Entry
  <2>2. log' \in Seq(Entry)
    BY <2>1
  <2>3. up' \in BOOLEAN
    BY <1>3 DEF LogRow, TypeOK
  <2>4. QED
    BY <1>2, <1>3, <2>2, <2>3 DEF LogRow, faultVars, TypeOK
<1>4. CASE KilledStarting
  <2>1. LoadedSeq + SeqReserve \in Nat /\ kills' \in 0 .. MaxKills
    BY <1>4, LoadedIsNat DEF KilledStarting, TypeOK
  <2>2. up' \in BOOLEAN
    BY <1>4 DEF KilledStarting, TypeOK
  <2>3. QED
    BY <1>4, <2>1, <2>2 DEF KilledStarting, logVars, TypeOK
<1>5. CASE LogFails
  <2>1. logFails' \in 0 .. MaxLogFails
    BY <1>5 DEF LogFails, TypeOK
  <2>2. up' \in BOOLEAN
    BY <1>5 DEF LogFails, TypeOK
  <2>3. QED
    BY <1>2, <1>5, <2>1, <2>2 DEF LogFails, logVars, TypeOK
<1>6. CASE KilledAfterPersist
  <2>1. kills' \in 0 .. MaxKills /\ seqFile' \in Nat
    BY <1>6 DEF KilledAfterPersist, TypeOK
  <2>2. up' \in BOOLEAN
    BY <1>6 DEF KilledAfterPersist
  <2>3. QED
    BY <1>6, <2>1, <2>2 DEF KilledAfterPersist, logVars, TypeOK
<1>7. CASE Killed
  <2>1. kills' \in 0 .. MaxKills
    BY <1>7 DEF Killed, TypeOK
  <2>2. up' \in BOOLEAN
    BY <1>7 DEF Killed
  <2>3. QED
    BY <1>7, <2>1, <2>2 DEF Killed, seqVars, logVars, TypeOK
<1>8. CASE Midnight
  BY <1>8 DEF Midnight, seqVars, logVars, faultVars, TypeOK, Days
<1>9. CASE EndOfDay
  BY <1>9 DEF EndOfDay, OpenLog, seqVars, faultVars, TypeOK
<1>10. CASE LoseSeqFile
  <2>1. fileFaults' \in 0 .. MaxFileFaults
    BY <1>10 DEF LoseSeqFile, TypeOK
  <2>2. QED
    BY <1>10, <2>1 DEF LoseSeqFile, logVars, TypeOK
<1>11. CASE RestoreSeqFile
  <2>1. fileFaults' \in 0 .. MaxFileFaults /\ seqFile' \in Nat
    BY <1>11 DEF RestoreSeqFile, TypeOK, NoFile
  <2>2. QED
    BY <1>11, <2>1 DEF RestoreSeqFile, logVars, TypeOK
<1>12. CASE UNCHANGED vars
  BY <1>12 DEF vars, seqVars, logVars, faultVars, TypeOK
<1>13. QED
  BY <1>1, <1>3, <1>4, <1>5, <1>6, <1>7, <1>8, <1>9, <1>10, <1>11, <1>12 DEF Next

\* Every step preserves the invariant, whatever becomes of the file.
LEMMA NextDayInv ==
    ASSUME DayInv, [Next]_vars
    PROVE  DayInv'
<1> USE SeqNoAssumption
<1>1. TypeOK /\ TypeOK'
  BY NextTyped DEF DayInv
<1>2. today \in Nat /\ openDay \in Nat /\ \A i \in 1 .. Len(log) : log[i].day \in Nat
  <2>1. log \in Seq(Entry)
    BY <1>1 DEF TypeOK
  <2>2. \A i \in 1 .. Len(log) : log[i] \in Entry
    BY <2>1
  <2>3. \A e \in Entry : e.day \in Nat
    BY DEF Entry, Days
  <2>4. today \in Nat /\ openDay \in Nat
    BY <1>1 DEF TypeOK, Days
  <2>5. QED
    BY <2>2, <2>3, <2>4
<1>3. CASE Start
  <2>1. /\ log' = log /\ up' /\ openDay' = today /\ today' = today
        /\ logFiles' = logFiles \cup {today} /\ tpSeqNo' = RecoveredSeq
    BY <1>3 DEF Start, OpenLog
  <2>2. \A i \in 1 .. Len(log) : log[i].day = today /\ log[i].scanned => log[i].seq <= RecoveredSeq
    <3>1. SUFFICES ASSUME NEW i \in 1 .. Len(log), log[i].day = today, log[i].scanned
                   PROVE  log[i].seq <= RecoveredSeq
      OBVIOUS
    <3>2. today \in logFiles
      BY <3>1 DEF DayInv
    <3>3. log[i].seq <= ScanMax(today) /\ ScanMax(today) \in Nat /\ log[i].seq \in Nat
      BY <1>1, <3>1, ScanMaxCovers, LogTyped
    <3>4. QED
      BY <1>1, <3>2, <3>3, LoadedIsNat DEF RecoveredSeq
  <2>3. \A i \in 1 .. Len(log) : log[i].day <= today
    BY <1>2 DEF DayInv
  <2>4. RowsOfADayIncrease'
    BY <2>1 DEF DayInv, RowsOfADayIncrease
  <2>5. /\ openDay' <= today'
        /\ \A i \in 1 .. Len(log') : log'[i].day <= openDay' /\ log'[i].day \in logFiles'
        /\ openDay' \in logFiles'
    BY <1>2, <2>1, <2>3 DEF DayInv
  <2>6. \A i \in 1 .. Len(log') :
            log'[i].day = openDay' /\ log'[i].scanned => log'[i].seq <= tpSeqNo'
    BY <2>1, <2>2
  <2>7. QED
    BY <1>1, <2>4, <2>5, <2>6 DEF DayInv
<1>4. ASSUME NEW scanned \in BOOLEAN, LogRow(scanned)
      PROVE  DayInv'
  <2> DEFINE e == [seq |-> tpSeqNo + 1, day |-> openDay, scanned |-> scanned]
  <2>1. /\ up /\ tpSeqNo \in Nat /\ log \in Seq(Entry) /\ e \in Entry
        /\ log' = Append(log, e) /\ tpSeqNo' = tpSeqNo + 1
        /\ UNCHANGED <<up, today, openDay, logFiles>>
    BY <1>1, <1>4 DEF LogRow, NextSeqNo, TypeOK, Entry
  <2>2. /\ Len(log) \in Nat /\ Len(log') = Len(log) + 1
        /\ \A i \in 1 .. Len(log) : log'[i] = log[i]
        /\ log'[Len(log) + 1] = e
    BY <2>1
  <2>3. \A i \in 1 .. Len(log') : i \in 1 .. Len(log) \/ i = Len(log) + 1
    BY <2>2
  <2>4. \A i \in 1 .. Len(log) : /\ log[i].seq \in Nat
                                 /\ log[i].day = openDay /\ log[i].scanned => log[i].seq <= tpSeqNo
    BY <1>1, <2>1, LogTyped DEF DayInv
  <2>5. RowsOfADayIncrease'
    <3>1. SUFFICES ASSUME NEW i \in 1 .. Len(log'), NEW j \in 1 .. Len(log'), i < j,
                          log'[i].day = log'[j].day, log'[i].scanned, log'[j].scanned
                   PROVE  log'[i].seq < log'[j].seq
      BY DEF RowsOfADayIncrease
    <3>2. i \in 1 .. Len(log) /\ log'[i] = log[i]
      BY <2>2, <2>3, <3>1
    <3>3. CASE j \in 1 .. Len(log)
      BY <2>2, <3>1, <3>2, <3>3 DEF DayInv, RowsOfADayIncrease
    <3>4. CASE j = Len(log) + 1
      <4>1. log'[j].seq = tpSeqNo + 1 /\ log'[j].day = openDay
        BY <2>2, <3>4
      <4>2. log[i].seq <= tpSeqNo /\ log[i].seq \in Nat
        BY <2>4, <3>1, <3>2, <4>1
      <4>3. QED
        BY <2>1, <3>2, <4>1, <4>2
    <3>5. QED
      BY <2>3, <3>3, <3>4
  <2>6. /\ \A i \in 1 .. Len(log') : log'[i].day <= openDay' /\ log'[i].day \in logFiles'
        /\ openDay' \in logFiles'
    BY <1>2, <2>1, <2>2, <2>3 DEF DayInv
  <2>7. \A i \in 1 .. Len(log') :
            log'[i].day = openDay' /\ log'[i].scanned => log'[i].seq <= tpSeqNo'
    BY <2>1, <2>2, <2>3, <2>4
  <2>8. QED
    BY <1>1, <2>1, <2>5, <2>6, <2>7 DEF DayInv
<1>5. CASE EndOfDay
  <2>1. \A i \in 1 .. Len(log) : log[i].day # today
    BY <1>2, <1>5 DEF EndOfDay, DayInv
  <2>2. \A i \in 1 .. Len(log) : log[i].day <= today
    BY <1>2 DEF DayInv
  <2>3. QED
    BY <1>1, <1>2, <1>5, <2>1, <2>2
       DEF EndOfDay, OpenLog, seqVars, DayInv, RowsOfADayIncrease
<1>6. CASE LogFails
  <2>1. tpSeqNo \in Nat /\ tpSeqNo' = tpSeqNo + 1 /\ up
        /\ UNCHANGED <<up, log, today, openDay, logFiles>>
    BY <1>1, <1>6 DEF LogFails, NextSeqNo, logVars, TypeOK
  <2>2. \A i \in 1 .. Len(log) : log[i].seq \in Nat
    BY <1>1, LogTyped
  <2>3. QED
    BY <1>1, <2>1, <2>2 DEF DayInv, RowsOfADayIncrease
<1>7. CASE Midnight
  <2>1. today' = today + 1
    BY <1>7 DEF Midnight
  <2>2. openDay <= today'
    BY <1>2, <2>1 DEF DayInv
  <2>3. QED
    BY <1>1, <1>7, <2>2 DEF Midnight, seqVars, logVars, DayInv, RowsOfADayIncrease
<1>8. CASE ~up' /\ UNCHANGED <<log, today, openDay, logFiles>>
  BY <1>1, <1>8 DEF DayInv, RowsOfADayIncrease
<1>9. CASE KilledStarting \/ KilledAfterPersist \/ Killed \/ LoseSeqFile \/ RestoreSeqFile
  BY <1>8, <1>9 DEF KilledStarting, KilledAfterPersist, Killed, LoseSeqFile, RestoreSeqFile, logVars
<1>10. CASE UNCHANGED vars
  BY <1>1, <1>10 DEF vars, seqVars, logVars, DayInv, RowsOfADayIncrease
<1>11. QED
  BY <1>3, <1>4, <1>5, <1>6, <1>7, <1>9, <1>10 DEF Next

\* The types and the bounds of the days hold, also when the reservation file was
\* lost or replaced by an old copy: no start or rotation opens a log of a day
\* that is not there (.tp.openLog).
THEOREM SeqNoTyped == Spec => []TypeOK
<1>1. DayInv /\ [Next]_vars => DayInv'
  BY NextDayInv
<1>2. DayInv => TypeOK
  BY DEF DayInv
<1>3. QED
  BY <1>1, <1>2, InitDayInv, PTL DEF Spec

\* Even with the reservation file lost or replaced by an old copy, any number of
\* times, the rows of one day that a scan finds never reuse a number or step
\* back: a start raises its counter to today's log (.tp.recoverFhSeq), and a
\* rotation opens a log with no rows in it.
THEOREM RowsOfADaySafe == Spec => []RowsOfADayIncrease
<1>1. DayInv /\ [Next]_vars => DayInv'
  BY NextDayInv
<1>2. DayInv => RowsOfADayIncrease
  BY DEF DayInv
<1>3. QED
  BY <1>1, <1>2, InitDayInv, PTL DEF Spec

=============================================================================
