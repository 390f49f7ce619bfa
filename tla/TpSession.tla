----------------------------- MODULE TpSession ------------------------------
(***************************************************************************)
(* The hop from a feed handler to the tickerplant: TpPublisher with its    *)
(* resend ring (cpp/include/tp_publisher.hpp) against session              *)
(* registration, the fhSeqNo check and the session file of kdb/tick/tp.q,  *)
(* for one table.                                                          *)
(*                                                                         *)
(* A handler numbers its rows 1, 2, ... within its session (one process).  *)
(* Publishing is asynchronous: a row written to a socket whose peer has    *)
(* died looks sent.  On every (re)connect TP answers the registration with *)
(* the last fhSeqNo it has logged, and the handler resends what its ring   *)
(* holds above that number.                                                *)
(*                                                                         *)
(* A connection is a FIFO stream.  TP serves its sockets in any order, so  *)
(* what already reached it on an older connection can still be read after  *)
(* a newer one has registered; a TP process that ends takes all of it      *)
(* along.  A row is its session and its number.  Row contents, the width   *)
(* check of the registration (a static mismatch that ends the handler),    *)
(* the resend backoff and the tpSeqNo (TpSeqNo.tla) are left out.          *)
(***************************************************************************)
EXTENDS Integers, Sequences, FiniteSets

CONSTANTS
    RingSize,       \* TpPublisherConfig::ringSize
    OldSessionLingers, \* rows of an older session can be read after a newer one registered
    StartsNextDay,  \* a TP that was killed can be started after midnight
    MaxPub,         \* bound: rows a handler session publishes
    MaxDay,         \* bound: days 0..MaxDay
    MaxSessions,    \* bound: handler processes, one after the other
    MaxKills,       \* bound: times TP is killed
    MaxExits,       \* bound: times TP exits in order (SIGTERM)
    MaxDrops,       \* bound: connections that break while both ends live
    MaxUpdFails,    \* bound: rows TP fails to number and log
    MaxFileFaults   \* bound: times the session file is lost

ASSUME SessionAssumption ==
    /\ RingSize \in Nat \ {0}
    /\ OldSessionLingers \in BOOLEAN /\ StartsNextDay \in BOOLEAN
    /\ MaxPub \in Nat /\ MaxDay \in Nat /\ MaxSessions \in Nat
    /\ MaxKills \in Nat /\ MaxExits \in Nat /\ MaxDrops \in Nat
    /\ MaxUpdFails \in Nat /\ MaxFileFaults \in Nat

VARIABLES
    \* the handler
    sess,       \* sessionId of the current handler process, 0 before the first
    pub,        \* fhSeqNo of the last row it published
    conn,       \* its connection, see ConnStates
    \* the network
    streams,    \* one row sequence per connection, oldest first
    \* the tickerplant
    tpUp,
    seqLast,    \* .tp.seq.last, NoSeq for null
    sessId,     \* .tp.session.id, 0 for null
    sessFile,   \* the session file: id and lastSeq
    log,        \* every logged row with the day of its log
    today, openDay,
    missed,     \* rows TP has counted and reported as missed
    outOfOrder, \* how many rows TP has counted and reported as out of order
    refused,    \* rows upd has failed on
    faults      \* how often each fault has happened

fhVars == <<sess, pub, conn>>
tpVars == <<seqLast, sessId, sessFile>>
dayVars == <<today, openDay>>
countVars == <<missed, outOfOrder, refused>>
vars == <<fhVars, streams, tpUp, tpVars, log, dayVars, countVars, faults>>

NoSeq == -1
Sessions == 1 .. MaxSessions
RowIds == [sess : Sessions, n : 1 .. MaxPub]

\* "down": no handler process; "blocked": inside TpPublisher::connect;
\* "live": connected; "dead": the peer is gone and the handler has not
\* noticed; "lost": handle_ = -1 after a failed sendEvent, not yet repaired.
ConnStates == {"down", "blocked", "live", "dead", "lost"}

FaultBound == [kill |-> MaxKills, exit |-> MaxExits, drop |-> MaxDrops,
               updFail |-> MaxUpdFails, fileLost |-> MaxFileFaults]

NoFaults == [f \in DOMAIN FaultBound |-> 0]

TypeOK ==
    /\ sess \in 0 .. MaxSessions
    /\ pub \in 0 .. MaxPub
    /\ conn \in ConnStates
    /\ streams \in Seq(Seq(RowIds))
    /\ tpUp \in BOOLEAN
    /\ seqLast \in 0 .. MaxPub \cup {NoSeq}
    /\ sessId \in 0 .. MaxSessions
    /\ sessFile \in [id : 0 .. MaxSessions, last : 0 .. MaxPub \cup {NoSeq}]
    /\ log \in Seq([row : RowIds, day : 0 .. MaxDay])
    /\ today \in 0 .. MaxDay
    /\ openDay \in 0 .. MaxDay
    /\ missed \subseteq RowIds
    /\ outOfOrder \in Nat
    /\ refused \subseteq RowIds
    /\ \A f \in DOMAIN FaultBound : faults[f] \in 0 .. FaultBound[f]

NoFile == [id |-> 0, last |-> NoSeq]

Init ==
    /\ sess = 0 /\ pub = 0 /\ conn = "down"
    /\ streams = <<>>
    /\ tpUp = TRUE
    /\ seqLast = NoSeq /\ sessId = 0 /\ sessFile = NoFile
    /\ log = <<>>
    /\ today = 0 /\ openDay = 0
    /\ missed = {} /\ outOfOrder = 0 /\ refused = {}
    /\ faults = NoFaults

Fault(f) ==
    /\ faults[f] < FaultBound[f]
    /\ faults' = [faults EXCEPT ![f] = @ + 1]

Logged(r) == \E i \in 1 .. Len(log) : log[i].row = r

-----------------------------------------------------------------------------
(* The handler *)

\* A handler process starts (again): a new session, numbering from 1, and
\* connect() before anything else.
FhStart ==
    /\ conn = "down"
    /\ sess < MaxSessions
    /\ sess' = sess + 1
    /\ pub' = 0
    /\ conn' = "blocked"
    /\ UNCHANGED <<streams, tpUp, tpVars, log, dayVars, countVars, faults>>

\* The process ends; what it wrote before is still delivered.
FhStop ==
    /\ conn # "down"
    /\ sess < MaxSessions
    /\ conn' = "down"
    /\ UNCHANGED <<sess, pub, streams, tpUp, tpVars, log, dayVars, countVars, faults>>

\* TpPublisher::publish: the row goes into the ring, then to the socket.
PublishLive ==
    /\ conn = "live"
    /\ pub < MaxPub
    /\ pub' = pub + 1
    /\ streams' = [streams EXCEPT ![Len(streams)] =
                       Append(@, [sess |-> sess, n |-> pub + 1])]
    /\ UNCHANGED <<sess, conn, tpUp, tpVars, log, dayVars, countVars, faults>>

\* The peer is gone: the write is swallowed, or fails and publish() goes
\* into connect().  With no handle publish() goes there directly.
PublishDead ==
    /\ conn \in {"dead", "lost"}
    /\ pub < MaxPub
    /\ pub' = pub + 1
    /\ \/ conn = "dead" /\ conn' = "dead"
       \/ conn' = "blocked"
    /\ UNCHANGED <<sess, streams, tpUp, tpVars, log, dayVars, countVars, faults>>

\* TpPublisher::sendEvent on a dead connection: the handle is given up and
\* left for the next publish to repair.
EventFindsDead ==
    /\ conn = "dead"
    /\ conn' = "lost"
    /\ UNCHANGED <<sess, pub, streams, tpUp, tpVars, log, dayVars, countVars, faults>>

-----------------------------------------------------------------------------
(* Registration and resend *)

\* .tp.registerSession: what TP takes as the last accepted number, and what
\* it replies.  nextSeq is the handler's next new fhSeqNo.
RegisteredLast(nextSeq) ==
    IF \/ seqLast = NoSeq
       \/ sessId = 0 /\ nextSeq - 1 < seqLast
       \/ sessId # 0 /\ sessId # sess
    THEN nextSeq - 1
    ELSE seqLast

RegistrationReply(nextSeq) ==
    IF \/ seqLast = NoSeq
       \/ sessId = 0 /\ nextSeq - 1 < seqLast
       \/ sessId # 0 /\ sessId # sess
    THEN -1
    ELSE seqLast

\* ResendRing: it holds the last RingSize published rows.
OldestHeld == IF pub > RingSize THEN pub - RingSize + 1 ELSE 1

\* TpPublisher::resend: the rows the ring still holds above the reply, oldest
\* first; nothing after a reply of -1.
Resend(reply) ==
    LET first == IF reply < OldestHeld THEN OldestHeld ELSE reply + 1 IN
    IF reply < 0
    THEN <<>>
    ELSE [i \in 1 .. pub - first + 1 |-> [sess |-> sess, n |-> first + i - 1]]

\* TP's side of a registration, with the session file saved at its end.
Register ==
    /\ tpUp
    /\ OldSessionLingers
       \/ \A s \in DOMAIN streams : \A i \in DOMAIN streams[s] : streams[s][i].sess = sess
    /\ seqLast' = RegisteredLast(pub + 1)
    /\ sessId' = sess
    /\ sessFile' = [id |-> sess, last |-> RegisteredLast(pub + 1)]

Connect ==
    /\ conn = "blocked"
    /\ Register
    /\ streams' = Append(streams, Resend(RegistrationReply(pub + 1)))
    /\ conn' = "live"
    /\ UNCHANGED <<sess, pub, tpUp, log, dayVars, countVars, faults>>

\* The connection breaks after TP has registered the session: the reply or
\* the end of the resend is lost and connect() starts over.
ConnectLost ==
    /\ conn = "blocked"
    /\ Register
    /\ Fault("drop")
    /\ LET sent == Resend(RegistrationReply(pub + 1)) IN
       \E k \in 0 .. Len(sent) : streams' = Append(streams, SubSeq(sent, 1, k))
    /\ UNCHANGED <<sess, pub, conn, tpUp, log, dayVars, countVars>>

\* A live connection breaks: rows that have not reached TP are gone.
Drop ==
    /\ conn = "live"
    /\ Fault("drop")
    /\ conn' = "dead"
    /\ \E k \in 0 .. Len(streams[Len(streams)]) :
           streams' = [streams EXCEPT ![Len(streams)] = SubSeq(@, 1, k)]
    /\ UNCHANGED <<sess, pub, tpUp, tpVars, log, dayVars, countVars>>

-----------------------------------------------------------------------------
(* The tickerplant *)

\* Mutants of CheckSeq: the last number follows a row that steps back; a
\* forward jump is not counted.
CheckSeqFollowsBack(n) ==
    /\ seqLast' = n
    /\ missed' = IF seqLast # NoSeq /\ n > seqLast + 1
                 THEN missed \cup {[sess |-> sessId, n |-> k] : k \in seqLast + 1 .. n - 1}
                 ELSE missed
    /\ outOfOrder' = IF n <= seqLast THEN outOfOrder + 1 ELSE outOfOrder

CheckSeqJumpUncounted(n) ==
    /\ seqLast' = IF n > seqLast THEN n ELSE seqLast
    /\ missed' = missed
    /\ outOfOrder' = IF n <= seqLast THEN outOfOrder + 1 ELSE outOfOrder

\* .tp.checkSeq: accept in order; count a forward jump as missed rows of the
\* registered session; count a number at or below the last as out of order.
CheckSeq(n) ==
    /\ seqLast' = IF n > seqLast THEN n ELSE seqLast
    /\ missed' = IF seqLast # NoSeq /\ n > seqLast + 1
                 THEN missed \cup {[sess |-> sessId, n |-> k] : k \in seqLast + 1 .. n - 1}
                 ELSE missed
    /\ outOfOrder' = IF n <= seqLast THEN outOfOrder + 1 ELSE outOfOrder

\* upd: check the number, stamp, log and publish one row of stream s.
Upd(s) ==
    /\ tpUp
    /\ streams[s] # <<>>
    /\ LET r == Head(streams[s]) IN
       /\ CheckSeq(r.n)
       /\ log' = Append(log, [row |-> r, day |-> openDay])
    /\ streams' = [streams EXCEPT ![s] = Tail(@)]
    /\ UNCHANGED <<fhVars, tpUp, sessId, sessFile, dayVars, refused, faults>>

\* upd when .tp.nextSeqNo throws (its reservation cannot be written): the
\* number has been checked and accepted, the row is neither logged nor
\* published.
UpdFails(s) ==
    /\ tpUp
    /\ streams[s] # <<>>
    /\ Fault("updFail")
    /\ CheckSeq(Head(streams[s]).n)
    /\ refused' = refused \cup {Head(streams[s])}
    /\ streams' = [streams EXCEPT ![s] = Tail(@)]
    /\ UNCHANGED <<fhVars, tpUp, sessId, sessFile, log, dayVars>>

\* TP ends: all its sockets and what they held are gone.
TpDown ==
    /\ tpUp
    /\ tpUp' = FALSE
    /\ streams' = [s \in DOMAIN streams |-> <<>>]
    /\ conn' = IF conn = "live" THEN "dead" ELSE conn
    /\ UNCHANGED <<sess, pub, seqLast, sessId, log, dayVars, countVars>>

TpKilled ==
    /\ TpDown
    /\ Fault("kill")
    /\ UNCHANGED sessFile

\* .z.exit saves the session file.
TpExit ==
    /\ TpDown
    /\ Fault("exit")
    /\ sessFile' = [id |-> sessId, last |-> seqLast]

\* .tp.session.load, then .tp.recoverFhSeq: the last row of today's log, of
\* whatever session, wins over the session file.
TodaysRows == {i \in 1 .. Len(log) : log[i].day = today}

\* Mutants of RecoveredLast: the session file is trusted over the log; the
\* number after the last row is taken for the last.
RecoveredFromFile == sessFile.last

RecoveredNext ==
    IF TodaysRows = {}
    THEN sessFile.last
    ELSE log[CHOOSE i \in TodaysRows : \A j \in TodaysRows : j <= i].row.n + 1

RecoveredLast ==
    IF TodaysRows = {}
    THEN sessFile.last
    ELSE log[CHOOSE i \in TodaysRows : \A j \in TodaysRows : j <= i].row.n

TpStart ==
    /\ ~tpUp
    /\ \/ StartsNextDay
       \/ openDay = today
       \/ sessFile = [id |-> sessId, last |-> seqLast]     \* it was not killed
    /\ tpUp' = TRUE
    /\ sessId' = sessFile.id
    /\ seqLast' = RecoveredLast
    /\ openDay' = today
    /\ UNCHANGED <<fhVars, streams, sessFile, log, today, countVars, faults>>

Midnight ==
    /\ today < MaxDay
    /\ today' = today + 1
    /\ UNCHANGED <<fhVars, streams, tpUp, tpVars, log, openDay, countVars, faults>>

\* .tp.endOfDay: rotate the log, save the session file.
EndOfDay ==
    /\ tpUp
    /\ today > openDay
    /\ openDay' = today
    /\ sessFile' = [id |-> sessId, last |-> seqLast]
    /\ UNCHANGED <<fhVars, streams, tpUp, seqLast, sessId, log, today, countVars, faults>>

\* .tp.session.save for another table: one file holds all of them, and it is
\* also written when another handler registers or a trade_gap event is logged.
SaveForOthers ==
    /\ tpUp
    /\ sessFile' = [id |-> sessId, last |-> seqLast]
    /\ UNCHANGED <<fhVars, streams, tpUp, seqLast, sessId, log, dayVars, countVars, faults>>

\* The session file is deleted or becomes unreadable while TP is down.
LoseSessionFile ==
    /\ ~tpUp
    /\ sessFile # NoFile
    /\ Fault("fileLost")
    /\ sessFile' = NoFile
    /\ UNCHANGED <<fhVars, streams, tpUp, seqLast, sessId, log, dayVars, countVars>>

Next ==
    \/ FhStart
    \/ FhStop
    \/ PublishLive
    \/ PublishDead
    \/ EventFindsDead
    \/ Connect
    \/ ConnectLost
    \/ Drop
    \/ \E s \in DOMAIN streams : Upd(s)
    \/ \E s \in DOMAIN streams : UpdFails(s)
    \/ TpKilled
    \/ TpExit
    \/ TpStart
    \/ Midnight
    \/ EndOfDay
    \/ SaveForOthers
    \/ LoseSessionFile

Spec == Init /\ [][Next]_vars

-----------------------------------------------------------------------------
(* Properties *)

Accounted(r) == Logged(r) \/ r \in missed

\* No row goes missing unnoticed: when a row of a session is in the log,
\* every earlier row of that session is in the log too or was counted as
\* missed (tp_publisher.hpp:8-19; README, "No silent loss").
NoSilentLoss ==
    \A i \in 1 .. Len(log) : \A k \in 1 .. log[i].row.n - 1 :
        Accounted([sess |-> log[i].row.sess, n |-> k])

\* "TP's reply is what tells the truth": the number TP would answer to the
\* handler it is serving splits that handler's rows exactly, unless the
\* session file was lost.  Rows up to it are logged, counted as missed, or
\* upd has failed on them, so none needs resending; no row above it is in the
\* log, so resending cannot log a row twice (tp_publisher.hpp:10-16,
\* tp.q:469-471).
ReplyIsExact ==
    (tpUp /\ sessId = sess /\ sess # 0 /\ faults["fileLost"] = 0) =>
        \A k \in 1 .. pub :
            LET r == [sess |-> sess, n |-> k] IN
            /\ k <= seqLast => Accounted(r) \/ r \in refused
            /\ k > seqLast => ~Logged(r)

\* A row that ends up in the log twice was counted as out of order.
Duplicates ==
    {j \in 1 .. Len(log) : \E i \in 1 .. j - 1 : log[i].row = log[j].row}

DuplicatesCounted == Cardinality(Duplicates) <= outOfOrder

=============================================================================
