-------------------------- MODULE TpSession_proofs --------------------------
(***************************************************************************)
(* Proofs about TpSession, for every ring size and number of rows,         *)
(* sessions and faults: its types; what holds while the tickerplant stays  *)
(* up, with connections that break and handlers that restart; and what     *)
(* holds for one handler while the tickerplant is killed and restarted.    *)
(***************************************************************************)
EXTENDS TpSession, NatLemmas, FiniteSetTheorems, TLAPS

-----------------------------------------------------------------------------
(* The faults *)

FaultKinds == {"kill", "exit", "drop", "updFail", "fileLost"}

\* Every kind of fault has a bound.
LEMMA FaultBounds ==
    /\ DOMAIN FaultBound = FaultKinds
    /\ \A f \in FaultKinds : FaultBound[f] \in Nat
    /\ FaultBound["kill"] = MaxKills /\ FaultBound["exit"] = MaxExits
    /\ FaultBound["drop"] = MaxDrops /\ FaultBound["updFail"] = MaxUpdFails
    /\ FaultBound["fileLost"] = MaxFileFaults
BY SessionAssumption DEF FaultBound, FaultKinds

FaultsOK ==
    /\ faults \in [FaultKinds -> Nat]
    /\ \A f \in FaultKinds : faults[f] <= FaultBound[f]

\* A fault is counted within its bound.
LEMMA FaultStep ==
    ASSUME FaultsOK, NEW f \in FaultKinds, Fault(f)
    PROVE  /\ FaultsOK'
           /\ faults[f] < FaultBound[f]
           /\ faults'[f] = faults[f] + 1
           /\ \A g \in FaultKinds \ {f} : faults'[g] = faults[g]
<1>1. /\ faults' = [faults EXCEPT ![f] = faults[f] + 1] /\ faults[f] < FaultBound[f]
      /\ faults \in [FaultKinds -> Nat] /\ faults[f] \in Nat /\ FaultBound[f] \in Nat
  BY FaultBounds DEF Fault, FaultsOK
<1>2. faults' \in [FaultKinds -> Nat] /\ faults'[f] = faults[f] + 1
      /\ \A g \in FaultKinds \ {f} : faults'[g] = faults[g]
  BY <1>1
<1>3. \A g \in FaultKinds : faults'[g] <= FaultBound'[g]
  <2>1. FaultBound' = FaultBound
    BY DEF FaultBound
  <2>2. TAKE g \in FaultKinds
  <2>3. CASE g = f
    BY <1>1, <1>2, <2>1, <2>3
  <2>4. CASE g # f
    BY <1>2, <2>1, <2>4 DEF FaultsOK
  <2>5. QED
    BY <2>3, <2>4
<1>4. QED
  BY <1>1, <1>2, <1>3 DEF FaultsOK

-----------------------------------------------------------------------------
(* Types *)

\* What is resent: the rows of this session behind the reply, without a hole
\* up to the last published one.
LEMMA ResendRows ==
    ASSUME sess \in Sessions, pub \in 0 .. MaxPub, NEW reply \in Int
    PROVE  /\ Resend(reply) \in Seq(RowIds)
           /\ \A i \in 1 .. Len(Resend(reply)) :
                  Resend(reply)[i] = [sess |-> sess,
                                      n |-> pub - Len(Resend(reply)) + i]
           /\ Resend(reply) # <<>> => reply \in Nat
           /\ reply \in 0 .. pub => Len(Resend(reply)) <= pub - reply
           /\ reply > pub => Resend(reply) = <<>>
<1> DEFINE first == IF reply < OldestHeld THEN OldestHeld ELSE reply + 1
<1>1. OldestHeld \in 1 .. pub + 1 /\ OldestHeld \in Int
  BY SessionAssumption DEF OldestHeld
<1>2. first \in Nat /\ first >= 1 /\ (reply >= 0 => first > reply)
      /\ (reply <= pub => first <= pub + 1) /\ (reply > pub => first = reply + 1)
  BY <1>1, SessionAssumption
<1> HIDE DEF first
<1> DEFINE N == pub - first + 1
           R == [i \in 1 .. N |-> [sess |-> sess, n |-> first + i - 1]]
<1>3. CASE reply < 0
  <2>1. Resend(reply) = <<>>
    BY <1>3 DEF Resend
  <2>2. QED
    BY <1>3, <2>1
<1>4. CASE reply >= 0 /\ N > 0
  <2>1. Resend(reply) = R
    BY <1>4 DEF Resend, first
  <2>2. N \in Nat /\ N >= 1 /\ pub \in Nat /\ MaxPub \in Nat
    BY <1>2, <1>4, SessionAssumption
  <2>3. \A i \in 1 .. N : [sess |-> sess, n |-> first + i - 1] \in RowIds
    BY <1>2, <2>2 DEF RowIds
  <2>4. R \in Seq(RowIds) /\ Len(R) = N
    BY <2>2, <2>3
  <2>5. \A i \in 1 .. N : R[i] = [sess |-> sess, n |-> pub - N + i]
    BY <1>2, <2>2
  <2>6. reply <= pub /\ N <= pub - reply
    BY <1>2, <1>4, <2>2
  <2> HIDE DEF R, N
  <2>7. QED
    BY <1>4, <2>1, <2>2, <2>4, <2>5, <2>6
<1>5. CASE reply >= 0 /\ ~(N > 0)
  <2>1. Resend(reply) = R
    BY <1>5 DEF Resend, first
  <2>2. 1 .. N = {}
    BY <1>2, <1>5
  <2>3. R = <<>>
    BY <2>2
  <2> HIDE DEF R, N
  <2>4. Resend(reply) = <<>> /\ reply \in Nat /\ pub \in Nat
    BY <1>5, <2>1, <2>3, SessionAssumption
  <2>5. QED
    BY <2>4
<1>6. QED
  BY <1>2, <1>3, <1>4, <1>5

\* The last row of a day's log is one of its rows.
LEMMA RecoveredRow ==
    ASSUME log \in Seq([row : RowIds, day : 0 .. MaxDay]), TodaysRows # {}
    PROVE  \E i \in TodaysRows :
               /\ \A j \in TodaysRows : j <= i
               /\ RecoveredLast = log[i].row.n
<1>1. Len(log) \in Nat
  OBVIOUS
<1>2. TodaysRows \subseteq Nat /\ \A i \in TodaysRows : i <= Len(log)
  BY <1>1 DEF TodaysRows
<1>3. \E i \in TodaysRows : \A j \in TodaysRows : j <= i
  BY <1>1, <1>2, GreatestNatural
<1>4. QED
  BY <1>3 DEF RecoveredLast

StreamsEmpty == \A s \in 1 .. Len(streams) : streams[s] = <<>>

\* A tickerplant that is down, or knows of no session, has nothing to read;
\* a live connection is to a running tickerplant that knows the session.
Linked ==
    /\ ~tpUp \/ sessId = 0 => StreamsEmpty
    /\ conn = "live" => tpUp /\ sessId = sess /\ Len(streams) >= 1
    /\ conn # "down" => sess # 0

HandlerTyped == sess \in 0 .. MaxSessions /\ pub \in 0 .. MaxPub /\ conn \in ConnStates
StreamsTyped == streams \in Seq(Seq(RowIds))
NumberTyped == tpUp \in BOOLEAN /\ seqLast \in 0 .. MaxPub \cup {NoSeq} /\ sessId \in 0 .. MaxSessions
FileTyped == sessFile \in [id : 0 .. MaxSessions, last : 0 .. MaxPub \cup {NoSeq}]
LogTyped == log \in Seq([row : RowIds, day : 0 .. MaxDay])
DaysTyped == today \in 0 .. MaxDay /\ openDay \in 0 .. MaxDay
CountsTyped == missed \subseteq RowIds /\ outOfOrder \in Nat /\ refused \subseteq RowIds

TypedInv ==
    /\ HandlerTyped /\ StreamsTyped /\ NumberTyped /\ FileTyped
    /\ LogTyped /\ DaysTyped /\ CountsTyped /\ FaultsOK
    /\ Linked

\* The inductive invariant contains the type invariant.
LEMMA TypedInvTypeOK == TypedInv => TypeOK
<1>1. ASSUME FaultsOK
      PROVE  \A f \in DOMAIN FaultBound : faults[f] \in 0 .. FaultBound[f]
  BY <1>1, FaultBounds DEF FaultsOK
<1>2. QED
  BY <1>1 DEF TypedInv, HandlerTyped, StreamsTyped, NumberTyped, FileTyped,
              LogTyped, DaysTyped, CountsTyped, TypeOK

\* The initial state is typed.
LEMMA InitTyped == Init => TypedInv
<1>1. SUFFICES ASSUME Init
               PROVE  TypedInv
  OBVIOUS
<1>2. FaultsOK
  <2>1. faults = [f \in FaultKinds |-> 0]
    BY <1>1, FaultBounds DEF Init, NoFaults
  <2>2. QED
    BY <2>1, FaultBounds DEF FaultsOK
<1>3. HandlerTyped
  BY <1>1, SessionAssumption DEF Init, HandlerTyped, ConnStates
<1>4. NumberTyped /\ FileTyped
  BY <1>1, SessionAssumption DEF Init, NumberTyped, FileTyped, NoFile
<1>5. StreamsTyped /\ LogTyped
  BY <1>1 DEF Init, StreamsTyped, LogTyped
<1>6. DaysTyped /\ CountsTyped
  BY <1>1, SessionAssumption DEF Init, DaysTyped, CountsTyped
<1>7. Linked
  BY <1>1 DEF Init, Linked, StreamsEmpty
<1>8. QED
  BY <1>2, <1>3, <1>4, <1>5, <1>6, <1>7 DEF TypedInv

\* A registration keeps the tickerplant's types.
LEMMA RegisterTyped ==
    ASSUME TypedInv, Register
    PROVE  /\ seqLast' \in 0 .. MaxPub \cup {NoSeq}
           /\ sessId' \in 0 .. MaxSessions
           /\ FileTyped'
<1>1. RegisteredLast(pub + 1) \in 0 .. MaxPub \cup {NoSeq}
  BY SessionAssumption DEF TypedInv, HandlerTyped, NumberTyped, RegisteredLast
<1>2. seqLast' = RegisteredLast(pub + 1) /\ sessId' = sess
      /\ sessFile' = [id |-> sess, last |-> RegisteredLast(pub + 1)]
  BY DEF Register
<1>3. sess \in 0 .. MaxSessions
  BY DEF TypedInv, HandlerTyped
<1>4. QED
  BY <1>1, <1>2, <1>3 DEF FileTyped

\* What a blocked handler is about to send.
LEMMA BlockedResend ==
    ASSUME TypedInv, conn = "blocked"
    PROVE  /\ sess \in Sessions
           /\ RegistrationReply(pub + 1) \in Int
           /\ Resend(RegistrationReply(pub + 1)) \in Seq(RowIds)
<1>1. sess \in Sessions /\ pub \in 0 .. MaxPub
  BY SessionAssumption DEF TypedInv, HandlerTyped, Linked, Sessions
<1>2. RegistrationReply(pub + 1) \in Int
  BY SessionAssumption DEF TypedInv, NumberTyped, RegistrationReply, NoSeq
<1>3. QED
  BY <1>1, <1>2, ResendRows

\* What a row of a stream does to the tickerplant's count.
LEMMA CheckSeqTyped ==
    ASSUME TypedInv, NEW s \in DOMAIN streams, streams[s] # <<>>,
           CheckSeq(Head(streams[s]).n)
    PROVE  /\ s \in 1 .. Len(streams)
           /\ streams[s] \in Seq(RowIds)
           /\ Head(streams[s]) \in RowIds
           /\ tpUp /\ sessId \in Sessions
           /\ seqLast' \in 0 .. MaxPub \cup {NoSeq}
           /\ missed' \subseteq RowIds
           /\ outOfOrder' \in Nat
<1>1. streams \in Seq(Seq(RowIds)) /\ Len(streams) \in Nat
  BY DEF TypedInv, StreamsTyped
<1>2. s \in 1 .. Len(streams) /\ streams[s] \in Seq(RowIds)
  <2> DEFINE T == Seq(RowIds)
  <2>1. streams \in Seq(T)
    BY <1>1
  <2> HIDE DEF T
  <2>2. s \in 1 .. Len(streams) /\ streams[s] \in T
    BY <2>1
  <2>3. QED
    BY <2>2 DEF T
<1> DEFINE r == Head(streams[s])
<1>3. r \in RowIds
  BY <1>2, TailSeq
<1>4. tpUp /\ sessId \in Sessions
  BY <1>2, SessionAssumption DEF TypedInv, NumberTyped, Linked, StreamsEmpty, Sessions
<1>5. r.n \in 1 .. MaxPub
  BY <1>3 DEF RowIds
<1> HIDE DEF r
<1>6. seqLast \in 0 .. MaxPub \cup {NoSeq} /\ outOfOrder \in Nat /\ missed \subseteq RowIds
  BY DEF TypedInv, NumberTyped, CountsTyped
<1>7. CheckSeq(r.n)
  BY DEF r
<1>8. seqLast' \in 0 .. MaxPub \cup {NoSeq} /\ outOfOrder' \in Nat
  BY <1>5, <1>6, <1>7 DEF CheckSeq
<1>9. missed' \subseteq RowIds
  <2>1. CASE seqLast # NoSeq /\ r.n > seqLast + 1
    <3>1. missed' = missed \cup {[sess |-> sessId, n |-> k] : k \in seqLast + 1 .. r.n - 1}
      BY <1>7, <2>1 DEF CheckSeq
    <3>2. \A k \in seqLast + 1 .. r.n - 1 : k \in 1 .. MaxPub
      BY <1>5, <1>6, <2>1, SessionAssumption
    <3>3. \A k \in seqLast + 1 .. r.n - 1 : [sess |-> sessId, n |-> k] \in RowIds
      BY <1>4, <3>2 DEF RowIds
    <3>4. QED
      BY <1>6, <3>1, <3>3
  <2>2. CASE ~(seqLast # NoSeq /\ r.n > seqLast + 1)
    BY <1>6, <1>7, <2>2 DEF CheckSeq
  <2>3. QED
    BY <2>1, <2>2
<1>10. QED
  BY <1>2, <1>3, <1>4, <1>8, <1>9 DEF r

\* A connection is added to the streams.
LEMMA StreamsAppend ==
    ASSUME StreamsTyped, NEW q \in Seq(RowIds), streams' = Append(streams, q)
    PROVE  /\ StreamsTyped'
           /\ Len(streams') = Len(streams) + 1 /\ Len(streams) \in Nat
           /\ \A i \in 1 .. Len(streams) : streams'[i] = streams[i]
           /\ streams'[Len(streams) + 1] = q
<1> DEFINE T == Seq(RowIds)
<1>1. streams \in Seq(T) /\ q \in T
  BY DEF StreamsTyped
<1> HIDE DEF T
<1>2. /\ Append(streams, q) \in Seq(T)
      /\ Len(Append(streams, q)) = Len(streams) + 1
      /\ \A i \in 1 .. Len(streams) : Append(streams, q)[i] = streams[i]
      /\ Append(streams, q)[Len(streams) + 1] = q
      /\ Len(streams) \in Nat
  BY <1>1, AppendSeq
<1>3. QED
  BY <1>2 DEF T, StreamsTyped

\* One stream is replaced.
LEMMA StreamsReplace ==
    ASSUME StreamsTyped, NEW s \in 1 .. Len(streams), NEW q \in Seq(RowIds),
           streams' = [streams EXCEPT ![s] = q]
    PROVE  /\ StreamsTyped'
           /\ Len(streams') = Len(streams) /\ Len(streams) \in Nat
           /\ \A i \in 1 .. Len(streams) : i # s => streams'[i] = streams[i]
           /\ streams'[s] = q
<1> DEFINE T == Seq(RowIds)
<1>1. streams \in Seq(T) /\ q \in T
  BY DEF StreamsTyped
<1> HIDE DEF T
<1>2. /\ [streams EXCEPT ![s] = q] \in Seq(T)
      /\ Len([streams EXCEPT ![s] = q]) = Len(streams)
      /\ [streams EXCEPT ![s] = q][s] = q
      /\ \A i \in 1 .. Len(streams) : i # s => [streams EXCEPT ![s] = q][i] = streams[i]
      /\ Len(streams) \in Nat
  BY <1>1, ReplaceSeq
<1>3. QED
  BY <1>2 DEF T, StreamsTyped

\* A stream is a sequence of rows.
LEMMA StreamTyped ==
    ASSUME StreamsTyped, NEW s \in 1 .. Len(streams)
    PROVE  streams[s] \in Seq(RowIds)
<1> DEFINE T == Seq(RowIds)
<1>1. streams \in Seq(T)
  BY DEF StreamsTyped
<1> HIDE DEF T
<1>2. streams[s] \in T
  BY <1>1
<1>3. QED
  BY <1>2 DEF T

\* All streams are emptied.
LEMMA StreamsCleared ==
    ASSUME StreamsTyped, streams' = [s \in DOMAIN streams |-> <<>>]
    PROVE  StreamsTyped' /\ StreamsEmpty' /\ Len(streams') = Len(streams)
<1> DEFINE T == Seq(RowIds)
<1>1. streams \in Seq(T) /\ <<>> \in T
  BY DEF StreamsTyped
<1> HIDE DEF T
<1>2. DOMAIN streams = 1 .. Len(streams) /\ Len(streams) \in Nat
  BY <1>1
<1>3. streams' = [s \in 1 .. Len(streams) |-> <<>>]
  BY <1>2
<1>4. streams' \in Seq(T) /\ Len(streams') = Len(streams)
  BY <1>1, <1>2, <1>3
<1>5. \A s \in 1 .. Len(streams') : streams'[s] = <<>>
  BY <1>2, <1>3, <1>4
<1>6. QED
  BY <1>4, <1>5 DEF T, StreamsTyped, StreamsEmpty

\* Steps of the handler.
LEMMA HandlerStepTyped ==
    ASSUME TypedInv,
           FhStart \/ FhStop \/ PublishLive \/ PublishDead \/ EventFindsDead
    PROVE  TypedInv'
<1> USE SessionAssumption
<1>1. UNCHANGED <<tpUp, tpVars, log, dayVars, countVars, faults>>
  BY DEF FhStart, FhStop, PublishLive, PublishDead, EventFindsDead
<1>2. NumberTyped' /\ FileTyped'
  BY <1>1 DEF TypedInv, NumberTyped, FileTyped, tpVars
<1>3. LogTyped' /\ DaysTyped' /\ CountsTyped'
  BY <1>1 DEF TypedInv, LogTyped, DaysTyped, CountsTyped, dayVars, countVars
<1>4. FaultsOK'
  BY <1>1 DEF TypedInv, FaultsOK, FaultBound
<1>5. HandlerTyped'
  BY DEF TypedInv, HandlerTyped, ConnStates,
         FhStart, FhStop, PublishLive, PublishDead, EventFindsDead
<1>6. StreamsTyped' /\ Linked'
  <2>1. CASE ~PublishLive
    <3>1. streams' = streams
      BY <2>1 DEF FhStart, FhStop, PublishDead, EventFindsDead
    <3>2. StreamsTyped' /\ (StreamsEmpty => StreamsEmpty')
      BY <3>1 DEF TypedInv, StreamsTyped, StreamsEmpty
    <3>3. (conn' # "down" => sess' # 0) /\ (conn' = "live" => conn = "live" /\ sess' = sess)
      BY <2>1 DEF TypedInv, Linked, HandlerTyped, FhStart, FhStop, PublishDead, EventFindsDead
    <3>4. QED
      BY <1>1, <3>1, <3>2, <3>3 DEF TypedInv, Linked, tpVars
  <2>2. CASE PublishLive
    <3>1. conn = "live" /\ tpUp /\ sess # 0 /\ sessId = sess /\ Len(streams) >= 1
      BY <2>2 DEF PublishLive, TypedInv, Linked
    <3> DEFINE L == Len(streams)
               q == Append(streams[L], [sess |-> sess, n |-> pub + 1])
    <3>2. streams' = [streams EXCEPT ![L] = q]
      BY <2>2 DEF PublishLive
    <3>3. StreamsTyped /\ L \in 1 .. Len(streams)
      BY <3>1 DEF TypedInv, StreamsTyped
    <3>4. streams[L] \in Seq(RowIds)
      BY <3>3, StreamTyped
    <3>5. [sess |-> sess, n |-> pub + 1] \in RowIds
      BY <2>2, <3>1 DEF PublishLive, TypedInv, HandlerTyped, RowIds, Sessions
    <3>6. q \in Seq(RowIds)
      BY <3>4, <3>5, AppendSeq
    <3> HIDE DEF q, L
    <3>7. StreamsTyped' /\ Len(streams') = Len(streams)
      BY <3>2, <3>3, <3>6, StreamsReplace
    <3>8. sess' = sess /\ conn' = conn
      BY <2>2 DEF PublishLive
    <3>9. Linked'
      BY <1>1, <3>1, <3>7, <3>8 DEF Linked, tpVars
    <3>10. QED
      BY <3>7, <3>9
  <2>3. QED
    BY <2>1, <2>2
<1>7. QED
  BY <1>2, <1>3, <1>4, <1>5, <1>6 DEF TypedInv

\* Steps of the connection: registration, with or without its reply, and a
\* break.
LEMMA ConnectionStepTyped ==
    ASSUME TypedInv, Connect \/ ConnectLost \/ Drop
    PROVE  TypedInv'
<1> USE SessionAssumption
<1>1. UNCHANGED <<sess, pub, tpUp, log, dayVars, countVars>>
  BY DEF Connect, ConnectLost, Drop
<1>2. LogTyped' /\ DaysTyped' /\ CountsTyped'
  BY <1>1 DEF TypedInv, LogTyped, DaysTyped, CountsTyped, dayVars, countVars
<1>3. StreamsTyped /\ FaultsOK /\ Linked /\ NumberTyped /\ HandlerTyped
  BY DEF TypedInv
<1>4. HandlerTyped'
  BY <1>1, <1>3 DEF HandlerTyped, ConnStates, Connect, ConnectLost, Drop
<1>5. CASE Connect \/ ConnectLost
  <2> DEFINE sent == Resend(RegistrationReply(pub + 1))
  <2>1. conn = "blocked" /\ Register
    BY <1>5 DEF Connect, ConnectLost
  <2>2. sess \in Sessions /\ sent \in Seq(RowIds)
    BY <2>1, BlockedResend
  <2>3. PICK q \in Seq(RowIds) : streams' = Append(streams, q)
    <3>1. CASE Connect
      BY <2>2, <3>1 DEF Connect
    <3>2. CASE ConnectLost
      <4>1. PICK k \in 0 .. Len(sent) : streams' = Append(streams, SubSeq(sent, 1, k))
        BY <3>2 DEF ConnectLost
      <4>2. SubSeq(sent, 1, k) \in Seq(RowIds)
        BY <2>2, <4>1, PrefixSeq
      <4>3. QED
        BY <4>1, <4>2
    <3>3. QED
      BY <1>5, <3>1, <3>2
  <2>4. StreamsTyped' /\ Len(streams') = Len(streams) + 1 /\ Len(streams) \in Nat
    BY <1>3, <2>3, StreamsAppend
  <2>5. NumberTyped' /\ FileTyped'
    BY <1>1, <1>3, <2>1, RegisterTyped DEF NumberTyped
  <2>6. FaultsOK'
    <3>1. CASE Connect
      BY <1>3, <3>1 DEF Connect, FaultsOK, FaultBound
    <3>2. CASE ConnectLost
      BY <1>3, <3>2, FaultStep DEF ConnectLost, FaultKinds
    <3>3. QED
      BY <1>5, <3>1, <3>2
  <2>7. tpUp' = tpUp /\ tpUp /\ sessId' = sess /\ sess' = sess
    BY <1>1, <2>1 DEF Register
  <2>8. sess # 0
    BY <2>2 DEF Sessions
  <2>9. Linked'
    BY <1>3, <2>4, <2>7, <2>8 DEF Linked
  <2>10. QED
    BY <1>2, <1>4, <2>4, <2>5, <2>6, <2>9 DEF TypedInv
<1>6. CASE Drop
  <2>1. conn = "live" /\ conn' = "dead" /\ UNCHANGED tpVars
    BY <1>6 DEF Drop
  <2>2. NumberTyped' /\ FileTyped'
    BY <1>1, <2>1 DEF TypedInv, NumberTyped, FileTyped, tpVars
  <2>3. FaultsOK'
    BY <1>3, <1>6, FaultStep DEF Drop, FaultKinds
  <2>4. tpUp /\ sess # 0 /\ sessId = sess /\ Len(streams) >= 1
    BY <1>3, <2>1 DEF Linked
  <2> DEFINE L == Len(streams)
  <2>5. L \in 1 .. Len(streams)
    BY <1>3, <2>4 DEF StreamsTyped
  <2>6. streams[L] \in Seq(RowIds)
    BY <1>3, <2>5, StreamTyped
  <2>7. PICK k \in 0 .. Len(streams[L]) :
            streams' = [streams EXCEPT ![L] = SubSeq(streams[L], 1, k)]
    BY <1>6 DEF Drop
  <2>8. SubSeq(streams[L], 1, k) \in Seq(RowIds)
    BY <2>6, <2>7, PrefixSeq
  <2> HIDE DEF L
  <2>9. StreamsTyped'
    BY <1>3, <2>5, <2>7, <2>8, StreamsReplace
  <2>10. Linked'
    BY <1>1, <2>1, <2>4 DEF Linked, tpVars
  <2>11. QED
    BY <1>2, <1>4, <2>2, <2>3, <2>9, <2>10 DEF TypedInv
<1>7. QED
  BY <1>5, <1>6

\* The tickerplant reads a row, which it logs or fails on.
LEMMA UpdStepTyped ==
    ASSUME TypedInv, NEW s \in DOMAIN streams, Upd(s) \/ UpdFails(s)
    PROVE  TypedInv'
<1> USE SessionAssumption
<1> DEFINE r == Head(streams[s])
<1>1. /\ UNCHANGED <<fhVars, tpUp, sessId, sessFile, dayVars>>
      /\ streams[s] # <<>> /\ CheckSeq(r.n)
      /\ streams' = [streams EXCEPT ![s] = Tail(streams[s])]
  BY DEF Upd, UpdFails
<1>2. /\ s \in 1 .. Len(streams) /\ streams[s] \in Seq(RowIds) /\ r \in RowIds
      /\ tpUp /\ sessId \in Sessions
      /\ seqLast' \in 0 .. MaxPub \cup {NoSeq}
      /\ missed' \subseteq RowIds /\ outOfOrder' \in Nat
  BY <1>1, CheckSeqTyped
<1>3. StreamsTyped /\ FaultsOK /\ Linked /\ NumberTyped /\ HandlerTyped
  BY DEF TypedInv
<1>4. HandlerTyped' /\ FileTyped' /\ DaysTyped'
  BY <1>1 DEF TypedInv, HandlerTyped, FileTyped, DaysTyped, fhVars, dayVars
<1>5. NumberTyped'
  BY <1>1, <1>2, <1>3 DEF NumberTyped
<1>6. StreamsTyped' /\ Len(streams') = Len(streams)
  <2>1. Tail(streams[s]) \in Seq(RowIds)
    BY <1>1, <1>2, TailSeq
  <2>2. QED
    BY <1>1, <1>2, <1>3, <2>1, StreamsReplace
<1>7. LogTyped' /\ CountsTyped' /\ FaultsOK'
  <2> HIDE DEF r
  <2>1. CASE Upd(s)
    <3>1. log' = Append(log, [row |-> r, day |-> openDay]) /\ faults' = faults
          /\ refused' = refused
      BY <2>1 DEF Upd, r
    <3>2. [row |-> r, day |-> openDay] \in [row : RowIds, day : 0 .. MaxDay]
      BY <1>2 DEF TypedInv, DaysTyped
    <3>3. LogTyped'
      BY <3>1, <3>2, AppendSeq DEF TypedInv, LogTyped
    <3>4. CountsTyped' /\ FaultsOK'
      BY <1>2, <3>1 DEF TypedInv, CountsTyped, FaultsOK, FaultBound
    <3>5. QED
      BY <3>3, <3>4
  <2>2. CASE UpdFails(s)
    <3>1. log' = log /\ refused' = refused \cup {r}
      BY <2>2 DEF UpdFails, r
    <3>2. LogTyped' /\ CountsTyped'
      BY <1>2, <3>1 DEF TypedInv, LogTyped, CountsTyped
    <3>3. FaultsOK'
      BY <1>3, <2>2, FaultStep DEF UpdFails, FaultKinds
    <3>4. QED
      BY <3>2, <3>3
  <2>3. QED
    BY <2>1, <2>2
<1>8. Linked'
  <2>1. tpUp' /\ sessId' # 0 /\ sess' = sess /\ conn' = conn /\ sessId' = sessId
    BY <1>1, <1>2 DEF fhVars, Sessions
  <2>2. QED
    BY <1>3, <1>6, <2>1 DEF Linked
<1>9. QED
  BY <1>4, <1>5, <1>6, <1>7, <1>8 DEF TypedInv

\* The tickerplant ends and starts, days pass, files are written and lost.
LEMMA TickerplantStepTyped ==
    ASSUME TypedInv,
           TpKilled \/ TpExit \/ TpStart \/ Midnight \/ EndOfDay
           \/ SaveForOthers \/ LoseSessionFile
    PROVE  TypedInv'
<1> USE SessionAssumption
<1>1. UNCHANGED <<sess, pub, log, countVars>>
  BY DEF TpKilled, TpExit, TpDown, TpStart, Midnight, EndOfDay, SaveForOthers,
         LoseSessionFile, fhVars
<1>2. LogTyped' /\ CountsTyped'
  BY <1>1 DEF TypedInv, LogTyped, CountsTyped, countVars
<1>3. StreamsTyped /\ FaultsOK /\ Linked /\ NumberTyped /\ HandlerTyped
      /\ FileTyped /\ LogTyped /\ DaysTyped
  BY DEF TypedInv
<1>4. DaysTyped'
  BY <1>3 DEF DaysTyped, dayVars, TpKilled, TpExit, TpDown, TpStart, Midnight,
              EndOfDay, SaveForOthers, LoseSessionFile
<1>5. [id |-> sessId, last |-> seqLast] \in [id : 0 .. MaxSessions, last : 0 .. MaxPub \cup {NoSeq}]
  BY <1>3 DEF NumberTyped
<1>6. NoFile \in [id : 0 .. MaxSessions, last : 0 .. MaxPub \cup {NoSeq}]
  BY DEF NoFile
<1>7. FileTyped'
  <2>1. sessFile' \in {sessFile, NoFile, [id |-> sessId, last |-> seqLast]}
    BY DEF TpKilled, TpExit, TpStart, Midnight, EndOfDay, SaveForOthers,
           LoseSessionFile, tpVars
  <2>2. QED
    BY <1>3, <1>5, <1>6, <2>1 DEF FileTyped
<1>8. CASE TpKilled \/ TpExit
  <2>1. TpDown
    BY <1>8 DEF TpKilled, TpExit
  <2>2. StreamsTyped' /\ StreamsEmpty' /\ Len(streams') = Len(streams)
    BY <1>3, <2>1, StreamsCleared DEF TpDown
  <2>3. HandlerTyped' /\ NumberTyped'
    BY <1>3, <2>1 DEF TpDown, HandlerTyped, NumberTyped, ConnStates
  <2>4. FaultsOK'
    BY <1>3, <1>8, FaultStep DEF TpKilled, TpExit, FaultKinds
  <2>5. Linked'
    BY <1>3, <2>1, <2>2 DEF TpDown, Linked
  <2>6. QED
    BY <1>2, <1>4, <1>7, <2>2, <2>3, <2>4, <2>5 DEF TypedInv
<1>9. CASE TpStart
  <2>1. RecoveredLast \in 0 .. MaxPub \cup {NoSeq}
    <3>1. CASE TodaysRows = {}
      BY <1>3, <3>1 DEF RecoveredLast, FileTyped
    <3>2. CASE TodaysRows # {}
      <4>1. PICK i \in TodaysRows : RecoveredLast = log[i].row.n
        BY <1>3, <3>2, RecoveredRow DEF LogTyped
      <4>2. i \in 1 .. Len(log) /\ log \in Seq([row : RowIds, day : 0 .. MaxDay])
        BY <1>3, <4>1 DEF LogTyped, TodaysRows
      <4>3. log[i] \in [row : RowIds, day : 0 .. MaxDay]
        BY <4>2, ElementSeq
      <4>4. QED
        BY <4>1, <4>3 DEF RowIds
    <3>3. QED
      BY <3>1, <3>2
  <2>2. HandlerTyped' /\ StreamsTyped' /\ FaultsOK'
    BY <1>3, <1>9 DEF TpStart, HandlerTyped, StreamsTyped, FaultsOK, FaultBound, fhVars
  <2>3. sessFile.id \in 0 .. MaxSessions
    BY <1>3 DEF FileTyped
  <2>4. NumberTyped'
    BY <1>9, <2>1, <2>3 DEF TpStart, NumberTyped
  <2>5. Linked'
    BY <1>3, <1>9 DEF TpStart, Linked, StreamsEmpty, fhVars
  <2>6. QED
    BY <1>2, <1>4, <1>7, <2>2, <2>4, <2>5 DEF TypedInv
<1>10. CASE Midnight \/ EndOfDay \/ SaveForOthers \/ LoseSessionFile
  <2>1. UNCHANGED <<fhVars, streams, tpUp, seqLast, sessId>>
    BY <1>10 DEF Midnight, EndOfDay, SaveForOthers, LoseSessionFile, tpVars
  <2>2. HandlerTyped' /\ StreamsTyped' /\ NumberTyped' /\ Linked'
    BY <1>3, <2>1 DEF HandlerTyped, StreamsTyped, NumberTyped, Linked, StreamsEmpty, fhVars
  <2>3. FaultsOK'
    <3>1. CASE faults' = faults
      BY <1>3, <3>1 DEF FaultsOK, FaultBound
    <3>2. CASE LoseSessionFile
      BY <1>3, <3>2, FaultStep DEF LoseSessionFile, FaultKinds
    <3>3. QED
      BY <1>10, <3>1, <3>2 DEF Midnight, EndOfDay, SaveForOthers
  <2>4. QED
    BY <1>2, <1>4, <1>7, <2>2, <2>3 DEF TypedInv
<1>11. QED
  BY <1>8, <1>9, <1>10

\* Every step keeps the types.
LEMMA NextTyped == TypedInv /\ [Next]_vars => TypedInv'
<1>1. ASSUME TypedInv, UNCHANGED vars
      PROVE  TypedInv'
  BY <1>1 DEF TypedInv, HandlerTyped, StreamsTyped, NumberTyped, FileTyped, LogTyped,
              DaysTyped, CountsTyped, FaultsOK, FaultBound, Linked, StreamsEmpty,
              vars, fhVars, tpVars, dayVars, countVars
<1>2. QED
  BY <1>1, HandlerStepTyped, ConnectionStepTyped, UpdStepTyped, TickerplantStepTyped
     DEF Next

\* The variables keep their types, whatever fails: no row that TP logs, counts
\* as missed or recovers from a log or a session file is one that no handler
\* session can have numbered (tp.q, .tp.checkSeq and .tp.registerSession).
THEOREM SessionTyped == Spec => []TypeOK
<1>1. Spec => []TypedInv
  BY InitTyped, NextTyped, PTL DEF Spec
<1>2. QED
  BY <1>1, TypedInvTypeOK, PTL

-----------------------------------------------------------------------------
(* A tickerplant that stays up: connections break, handlers restart *)

NeverDown == faults["kill"] = 0 /\ faults["exit"] = 0

\* Nothing is left to do about a row that is logged, counted as missed, or
\* that upd has failed on.
LoggedRows == {log[i].row : i \in 1 .. Len(log)}
SettledRows == LoggedRows \cup missed \cup refused

\* The session the tickerplant knows is the handler's, or one before it and
\* then the handler has not published yet.
SessionKnown ==
    /\ tpUp
    /\ sessId = 0 <=> seqLast = NoSeq
    /\ sessId <= sess
    /\ sessId # sess => pub = 0 /\ conn \in {"blocked", "down"}

\* Only rows of the session the tickerplant knows are on their way to it.
OnlyKnownRows ==
    \A s \in 1 .. Len(streams) : \A i \in 1 .. Len(streams[s]) :
        streams[s][i].sess = sessId

\* The last number splits the rows of the known session.
LogSplit ==
    /\ \A i \in 1 .. Len(log) :
          /\ log[i].row.sess <= sessId
          /\ log[i].row.sess = sessId => log[i].row.n <= seqLast
    /\ \A k \in 1 .. seqLast : [sess |-> sessId, n |-> k] \in SettledRows

\* Before every logged row of a session its earlier rows are settled.
EarlierSettled ==
    \A i \in 1 .. Len(log) : \A k \in 1 .. log[i].row.n - 1 :
        [sess |-> log[i].row.sess, n |-> k] \in SettledRows

RefusedByFault == faults["updFail"] = 0 => refused = {}

UpInv ==
    /\ SessionKnown
    /\ OnlyKnownRows
    /\ LogSplit
    /\ EarlierSettled
    /\ RefusedByFault
    /\ DuplicatesCounted

UpToNow == NeverDown => UpInv

\* The types of the fields of a logged row.
LEMMA LoggedFields ==
    ASSUME LogTyped, NEW i \in 1 .. Len(log)
    PROVE  /\ log[i].row \in RowIds
           /\ log[i].row = [sess |-> log[i].row.sess, n |-> log[i].row.n]
           /\ log[i].row.sess \in Sessions /\ log[i].row.n \in 1 .. MaxPub
           /\ log[i].day \in 0 .. MaxDay
<1>1. log[i] \in [row : RowIds, day : 0 .. MaxDay]
  BY ElementSeq DEF LogTyped
<1>2. log[i].row \in RowIds /\ log[i].day \in 0 .. MaxDay
  BY <1>1
<1>3. QED
  BY <1>2 DEF RowIds

\* The types of the fields of a row on its way.
LEMMA StreamFields ==
    ASSUME StreamsTyped, NEW s \in 1 .. Len(streams), NEW i \in 1 .. Len(streams[s])
    PROVE  /\ streams[s][i] \in RowIds
           /\ streams[s][i] = [sess |-> streams[s][i].sess, n |-> streams[s][i].n]
           /\ streams[s][i].sess \in Sessions /\ streams[s][i].n \in 1 .. MaxPub
<1>1. streams[s] \in Seq(RowIds)
  BY StreamTyped
<1>2. streams[s][i] \in RowIds
  BY <1>1, ElementSeq
<1>3. QED
  BY <1>2 DEF RowIds

\* What logging a row does to the log.
LEMMA LogAppend ==
    ASSUME LogTyped, NEW r \in RowIds, NEW d \in 0 .. MaxDay,
           log' = Append(log, [row |-> r, day |-> d])
    PROVE  /\ LogTyped'
           /\ Len(log) \in Nat /\ Len(log') = Len(log) + 1
           /\ \A i \in 1 .. Len(log) : log'[i] = log[i]
           /\ log'[Len(log) + 1].row = r /\ log'[Len(log) + 1].day = d
           /\ LoggedRows' = LoggedRows \cup {r}
<1> DEFINE T == [row : RowIds, day : 0 .. MaxDay]
           e == [row |-> r, day |-> d]
<1>1. log \in Seq(T) /\ e \in T /\ e.row = r /\ e.day = d
  BY DEF LogTyped
<1> HIDE DEF T, e
<1>2. /\ Append(log, e) \in Seq(T)
      /\ Len(Append(log, e)) = Len(log) + 1
      /\ \A i \in 1 .. Len(log) : Append(log, e)[i] = log[i]
      /\ Append(log, e)[Len(log) + 1] = e
      /\ Len(log) \in Nat
  BY <1>1, AppendSeq
<1>3. log' = Append(log, e)
  BY DEF e
<1>4. \A i \in 1 .. Len(log) : log'[i] = log[i]
  BY <1>2, <1>3
<1>5. Len(log') = Len(log) + 1 /\ log'[Len(log) + 1] = e
  BY <1>2, <1>3
<1>6. LoggedRows' = LoggedRows \cup {r}
  <2>1. 1 .. Len(log') = (1 .. Len(log)) \cup {Len(log) + 1}
    BY <1>2, <1>5
  <2>2. QED
    BY <1>1, <1>4, <1>5, <2>1 DEF LoggedRows
<1>7. LogTyped'
  BY <1>2, <1>3 DEF LogTyped, T
<1>8. QED
  BY <1>1, <1>2, <1>4, <1>5, <1>6, <1>7

\* A set of positions is finite.
LEMMA PositionsFinite ==
    ASSUME NEW n \in Nat, NEW S, S \subseteq 1 .. n
    PROVE  IsFiniteSet(S) /\ Cardinality(S) \in Nat
<1>1. IsFiniteSet(1 .. n)
  BY FS_Interval
<1>2. QED
  BY <1>1, FS_Subset, FS_CardinalityType

\* Duplicates are positions of the log; a row that is logged adds at most its
\* own position, and only if it was logged before.
LEMMA DuplicatesStep ==
    ASSUME LogTyped, NEW r \in RowIds, NEW d \in 0 .. MaxDay,
           log' = Append(log, [row |-> r, day |-> d])
    PROVE  /\ IsFiniteSet(Duplicates) /\ Cardinality(Duplicates) \in Nat
           /\ Cardinality(Duplicates') <= Cardinality(Duplicates) + 1
           /\ r \notin LoggedRows => Duplicates' = Duplicates
<1> DEFINE N == Len(log)
<1>1. /\ N \in Nat /\ Len(log') = N + 1 /\ \A i \in 1 .. N : log'[i] = log[i]
      /\ log'[N + 1].row = r
  BY LogAppend
<1>2. Duplicates \subseteq 1 .. N
  BY <1>1 DEF Duplicates
<1>3. IsFiniteSet(Duplicates) /\ Cardinality(Duplicates) \in Nat
  BY <1>1, <1>2, PositionsFinite
<1> HIDE DEF N
<1>4. Duplicates' = {j \in 1 .. N + 1 : \E i \in 1 .. j - 1 : log'[i].row = log'[j].row}
  BY <1>1 DEF Duplicates
<1>5. \A j \in 1 .. N : j \in Duplicates' <=> j \in Duplicates
  <2>1. TAKE j \in 1 .. N
  <2>2. \A i \in 1 .. j - 1 : log'[i].row = log[i].row
    BY <1>1
  <2>3. log'[j].row = log[j].row /\ j \in 1 .. N + 1
    BY <1>1
  <2>4. QED
    BY <1>4, <2>2, <2>3 DEF Duplicates, N
<1>6. Duplicates' \subseteq Duplicates \cup {N + 1}
  BY <1>1, <1>2, <1>4, <1>5
<1>7. r \notin LoggedRows => N + 1 \notin Duplicates'
  <2>1. SUFFICES ASSUME N + 1 \in Duplicates'
                 PROVE  r \in LoggedRows
    OBVIOUS
  <2>2. PICK i \in 1 .. N : log'[i].row = r
    BY <1>1, <1>4, <2>1
  <2>3. QED
    BY <1>1, <2>2 DEF LoggedRows, N
<1>8. r \notin LoggedRows => Duplicates' = Duplicates
  BY <1>1, <1>2, <1>5, <1>6, <1>7
<1>9. Cardinality(Duplicates') <= Cardinality(Duplicates) + 1
  <2>1. /\ IsFiniteSet(Duplicates \cup {N + 1})
        /\ Cardinality(Duplicates \cup {N + 1}) <= Cardinality(Duplicates) + 1
    <3>1. /\ IsFiniteSet(Duplicates \cup {N + 1})
          /\ Cardinality(Duplicates \cup {N + 1}) =
               IF N + 1 \in Duplicates THEN Cardinality(Duplicates)
                                       ELSE Cardinality(Duplicates) + 1
      BY <1>3, FS_AddElement, Zenon
    <3>2. QED
      BY <1>3, <3>1
  <2>2. /\ Cardinality(Duplicates') <= Cardinality(Duplicates \cup {N + 1})
        /\ IsFiniteSet(Duplicates')
    BY <1>6, <2>1, FS_Subset
  <2>3. Cardinality(Duplicates') \in Nat /\ Cardinality(Duplicates \cup {N + 1}) \in Nat
    BY <2>1, <2>2, FS_CardinalityType
  <2>4. QED
    BY <1>3, <2>1, <2>2, <2>3
<1>10. QED
  BY <1>3, <1>8, <1>9

\* Faults are only ever added.
LEMMA FaultsGrow ==
    ASSUME TypedInv, [Next]_vars
    PROVE  \A f \in FaultKinds : faults[f] \in Nat /\ faults'[f] \in Nat
                                 /\ faults[f] <= faults'[f]
<1>1. FaultsOK /\ \A f \in FaultKinds : faults[f] \in Nat
  BY DEF TypedInv, FaultsOK
<1>2. faults' = faults \/ \E g \in FaultKinds : Fault(g)
  BY DEF Next, vars, FhStart, FhStop, PublishLive, PublishDead, EventFindsDead, Connect,
         ConnectLost, Drop, Upd, UpdFails, TpKilled, TpExit, TpStart, Midnight, EndOfDay,
         SaveForOthers, LoseSessionFile, FaultKinds
<1>3. CASE faults' = faults
  BY <1>1, <1>3
<1>4. ASSUME NEW g \in FaultKinds, Fault(g)
      PROVE  \A f \in FaultKinds : faults'[f] \in Nat /\ faults[f] <= faults'[f]
  <2>1. /\ faults'[g] = faults[g] + 1
        /\ \A f \in FaultKinds \ {g} : faults'[f] = faults[f]
    BY <1>1, <1>4, FaultStep
  <2>2. TAKE f \in FaultKinds
  <2>3. CASE f = g
    BY <1>1, <2>1, <2>3
  <2>4. CASE f # g
    BY <1>1, <2>1, <2>4
  <2>5. QED
    BY <2>3, <2>4
<1>5. QED
  BY <1>1, <1>2, <1>3, <1>4

\* As long as nothing is logged, counted or refused and the tickerplant's
\* number stands, what is known of the log stands.
LEMMA UpLogStands ==
    ASSUME UpInv, UNCHANGED <<sessId, seqLast, log, countVars>>,
           faults'["updFail"] = faults["updFail"]
    PROVE  LogSplit' /\ EarlierSettled' /\ RefusedByFault' /\ DuplicatesCounted'
<1>1. SettledRows' = SettledRows /\ Duplicates' = Duplicates
  BY DEF SettledRows, LoggedRows, Duplicates, countVars
<1>2. LogSplit' /\ EarlierSettled'
  BY <1>1 DEF UpInv, LogSplit, EarlierSettled
<1>3. RefusedByFault' /\ DuplicatesCounted'
  BY <1>1 DEF UpInv, RefusedByFault, DuplicatesCounted, countVars
<1>4. QED
  BY <1>2, <1>3

\* Steps of the handler.
LEMMA UpHandlerStep ==
    ASSUME TypedInv, UpInv,
           FhStart \/ FhStop \/ PublishLive \/ PublishDead \/ EventFindsDead
    PROVE  UpInv'
<1> USE SessionAssumption
<1>1. UNCHANGED <<tpUp, tpVars, log, dayVars, countVars, faults>>
  BY DEF FhStart, FhStop, PublishLive, PublishDead, EventFindsDead
<1>2. LogSplit' /\ EarlierSettled' /\ RefusedByFault' /\ DuplicatesCounted'
  BY <1>1, UpLogStands DEF tpVars
<1>3. SessionKnown'
  <2>1. sess \in Nat /\ sessId \in Nat /\ SessionKnown /\ Linked
    BY DEF TypedInv, HandlerTyped, NumberTyped, UpInv
  <2>2. CASE FhStart
    BY <1>1, <2>1, <2>2 DEF FhStart, SessionKnown, tpVars
  <2>3. CASE FhStop
    BY <1>1, <2>1, <2>3 DEF FhStop, SessionKnown, tpVars
  <2>4. CASE PublishLive \/ PublishDead \/ EventFindsDead
    BY <1>1, <2>1, <2>4 DEF PublishLive, PublishDead, EventFindsDead, SessionKnown, tpVars
  <2>5. QED
    BY <2>2, <2>3, <2>4
<1>4. OnlyKnownRows'
  <2>1. CASE ~PublishLive
    <3>1. streams' = streams /\ sessId' = sessId
      BY <1>1, <2>1 DEF FhStart, FhStop, PublishDead, EventFindsDead, tpVars
    <3>2. QED
      BY <3>1 DEF UpInv, OnlyKnownRows
  <2>2. CASE PublishLive
    <3> DEFINE L == Len(streams)
               row == [sess |-> sess, n |-> pub + 1]
               q == Append(streams[L], row)
    <3>1. sessId = sess /\ L \in 1 .. Len(streams) /\ StreamsTyped /\ sess \in Sessions
      BY <2>2 DEF PublishLive, TypedInv, Linked, StreamsTyped, HandlerTyped, Sessions
    <3>2. streams[L] \in Seq(RowIds) /\ row \in RowIds
      <4>1. row \in RowIds
        BY <2>2, <3>1 DEF PublishLive, TypedInv, HandlerTyped, RowIds
      <4> HIDE DEF L, row
      <4>2. streams[L] \in Seq(RowIds)
        BY <3>1, StreamTyped
      <4>3. QED
        BY <4>1, <4>2
    <3>3. streams' = [streams EXCEPT ![L] = q]
      BY <2>2 DEF PublishLive
    <3>4. row.sess = sess
      OBVIOUS
    <3> HIDE DEF row
    <3>5. q \in Seq(RowIds) /\ Len(q) = Len(streams[L]) + 1 /\ q[Len(streams[L]) + 1] = row
          /\ \A i \in 1 .. Len(streams[L]) : q[i] = streams[L][i]
      BY <3>2, AppendSeq
    <3> HIDE DEF q, L
    <3>6. Len(streams') = Len(streams) /\ streams'[L] = q
          /\ \A s \in 1 .. Len(streams) : s # L => streams'[s] = streams[s]
      BY <3>1, <3>3, <3>5, StreamsReplace
    <3>7. ASSUME NEW s \in 1 .. Len(streams), NEW i \in 1 .. Len(streams'[s])
          PROVE  streams'[s][i].sess = sessId
      <4>1. CASE s # L
        BY <3>6, <3>7, <4>1 DEF UpInv, OnlyKnownRows
      <4>2. CASE s = L
        <5>1. i \in 1 .. Len(streams[L]) \/ i = Len(streams[L]) + 1
          BY <3>2, <3>5, <3>6, <3>7, <4>2
        <5>2. QED
          BY <3>1, <3>4, <3>5, <3>6, <4>2, <5>1 DEF UpInv, OnlyKnownRows
      <4>3. QED
        BY <4>1, <4>2
    <3>8. QED
      BY <1>1, <3>6, <3>7 DEF OnlyKnownRows, tpVars
  <2>3. QED
    BY <2>1, <2>2
<1>5. QED
  BY <1>2, <1>3, <1>4 DEF UpInv

\* Steps of the connection.
LEMMA UpConnectionStep ==
    ASSUME OldSessionLingers = FALSE, TypedInv, UpInv, Connect \/ ConnectLost \/ Drop
    PROVE  UpInv'
<1> USE SessionAssumption
<1>1. UNCHANGED <<sess, pub, tpUp, log, dayVars, countVars>>
  BY DEF Connect, ConnectLost, Drop
<1>2. StreamsTyped /\ FaultsOK /\ Linked /\ NumberTyped /\ HandlerTyped /\ LogTyped
  BY DEF TypedInv
<1>3. faults'["updFail"] = faults["updFail"]
  <2>1. CASE Connect
    BY <2>1 DEF Connect
  <2>2. CASE ConnectLost \/ Drop
    BY <1>2, <2>2, FaultStep DEF ConnectLost, Drop, FaultKinds
  <2>3. QED
    BY <2>1, <2>2
<1>4. RefusedByFault' /\ EarlierSettled' /\ DuplicatesCounted'
  BY <1>1, <1>3 DEF UpInv, RefusedByFault, EarlierSettled, DuplicatesCounted, Duplicates,
                    SettledRows, LoggedRows, countVars
<1>5. CASE Drop
  <2>1. conn = "live" /\ conn' = "dead" /\ UNCHANGED tpVars
    BY <1>5 DEF Drop
  <2>2. SessionKnown' /\ LogSplit'
    BY <1>1, <1>2, <1>3, <2>1, UpLogStands DEF UpInv, SessionKnown, tpVars, Linked
  <2> DEFINE L == Len(streams)
  <2>3. L \in 1 .. Len(streams)
    BY <1>2, <2>1 DEF StreamsTyped, Linked
  <2>4. streams[L] \in Seq(RowIds)
    BY <1>2, <2>3, StreamTyped
  <2>5. PICK k \in 0 .. Len(streams[L]) :
            streams' = [streams EXCEPT ![L] = SubSeq(streams[L], 1, k)]
    BY <1>5 DEF Drop
  <2> DEFINE q == SubSeq(streams[L], 1, k)
  <2>6. q \in Seq(RowIds) /\ Len(q) = k /\ \A i \in 1 .. k : q[i] = streams[L][i]
    BY <2>4, <2>5, PrefixSeq
  <2> HIDE DEF q, L
  <2>7. Len(streams') = Len(streams) /\ streams'[L] = q
        /\ \A s \in 1 .. Len(streams) : s # L => streams'[s] = streams[s]
    BY <1>2, <2>3, <2>5, <2>6, StreamsReplace DEF q
  <2>8. k <= Len(streams[L]) /\ k \in Nat /\ Len(streams[L]) \in Nat
    BY <2>4, <2>5
  <2>9. ASSUME NEW s \in 1 .. Len(streams), NEW i \in 1 .. Len(streams'[s])
        PROVE  streams'[s][i].sess = sessId
    <3>1. CASE s # L
      BY <2>7, <2>9, <3>1 DEF UpInv, OnlyKnownRows
    <3>2. CASE s = L
      <4>1. i \in 1 .. k /\ i \in 1 .. Len(streams[L]) /\ streams'[s][i] = streams[L][i]
        BY <2>6, <2>7, <2>8, <2>9, <3>2
      <4>2. QED
        BY <2>3, <4>1 DEF UpInv, OnlyKnownRows
    <3>3. QED
      BY <3>1, <3>2
  <2>10. OnlyKnownRows'
    BY <2>1, <2>7, <2>9 DEF OnlyKnownRows, tpVars
  <2>11. QED
    BY <1>4, <2>2, <2>10 DEF UpInv
<1>6. CASE Connect \/ ConnectLost
  <2> DEFINE reply == RegistrationReply(pub + 1)
             sent == Resend(reply)
  <2>1. conn = "blocked" /\ Register
    BY <1>6 DEF Connect, ConnectLost
  <2>2. sess \in Sessions /\ sent \in Seq(RowIds) /\ reply \in Int
    BY <2>1, BlockedResend
  <2> HIDE DEF reply
  <2>3. \A i \in 1 .. Len(sent) : sent[i].sess = sess
    <3>1. \A i \in 1 .. Len(sent) : sent[i] = [sess |-> sess, n |-> pub - Len(sent) + i]
      BY <1>2, <2>2, ResendRows DEF HandlerTyped
    <3> HIDE DEF sent
    <3>2. TAKE i \in 1 .. Len(sent)
    <3>3. PICK m : sent[i] = [sess |-> sess, n |-> m]
      BY <3>1
    <3>4. QED
      BY <3>3
  <2> HIDE DEF sent
  <2>4. PICK q \in Seq(RowIds) :
            /\ streams' = Append(streams, q)
            /\ \A i \in 1 .. Len(q) : q[i].sess = sess
    <3>1. CASE Connect
      BY <2>2, <2>3, <3>1 DEF Connect, sent, reply
    <3>2. CASE ConnectLost
      <4>1. PICK k \in 0 .. Len(sent) : streams' = Append(streams, SubSeq(sent, 1, k))
        BY <3>2 DEF ConnectLost, sent, reply
      <4> DEFINE q == SubSeq(sent, 1, k)
      <4>2. q \in Seq(RowIds) /\ Len(q) = k /\ \A i \in 1 .. k : q[i] = sent[i]
        BY <2>2, <4>1, PrefixSeq
      <4> HIDE DEF q
      <4>3. k <= Len(sent) /\ Len(sent) \in Nat
        BY <2>2, <4>1
      <4>4. \A i \in 1 .. Len(q) : q[i].sess = sess
        BY <2>3, <4>2, <4>3
      <4>5. QED
        BY <4>1, <4>2, <4>4 DEF q
    <3>3. QED
      BY <1>6, <3>1, <3>2
  <2>5. Len(streams') = Len(streams) + 1 /\ Len(streams) \in Nat
        /\ (\A i \in 1 .. Len(streams) : streams'[i] = streams[i])
        /\ streams'[Len(streams) + 1] = q
    BY <1>2, <2>4, StreamsAppend
  <2>6. \A s \in 1 .. Len(streams) : \A i \in 1 .. Len(streams[s]) : streams[s][i].sess = sess
    BY <1>2, <2>1 DEF Register, StreamsTyped
  <2>7. sessId' = sess /\ sess' = sess /\ seqLast' = RegisteredLast(pub + 1) /\ tpUp'
    BY <1>1, <2>1 DEF Register
  <2>8. OnlyKnownRows'
    <3>1. ASSUME NEW s \in 1 .. Len(streams) + 1, NEW i \in 1 .. Len(streams'[s])
          PROVE  streams'[s][i].sess = sess
      <4>1. CASE s \in 1 .. Len(streams)
        BY <2>5, <2>6, <3>1, <4>1
      <4>2. CASE s = Len(streams) + 1
        BY <2>4, <2>5, <3>1, <4>2
      <4>3. QED
        BY <2>5, <3>1, <4>1, <4>2
    <3>2. QED
      BY <2>5, <2>7, <3>1 DEF OnlyKnownRows
  <2>9. SessionKnown /\ LogSplit /\ sess \in Nat /\ sessId \in Nat /\ pub \in Nat /\ sess # 0
        /\ (seqLast \in Nat \/ seqLast = NoSeq)
    BY <1>2, <2>2 DEF UpInv, HandlerTyped, NumberTyped, Sessions
  <2>10. CASE sessId = sess
    <3>1. seqLast' = seqLast /\ sessId' = sessId
      BY <2>7, <2>9, <2>10 DEF RegisteredLast, SessionKnown
    <3>2. SessionKnown' /\ LogSplit'
      BY <1>1, <1>3, <2>7, <2>9, <2>10, <3>1, UpLogStands DEF SessionKnown
    <3>3. QED
      BY <1>4, <2>8, <3>2 DEF UpInv
  <2>11. CASE sessId # sess
    <3>1. pub = 0 /\ sessId < sess /\ seqLast' = 0
      BY <2>7, <2>9, <2>11 DEF SessionKnown, RegisteredLast
    <3>2. SessionKnown'
      BY <1>1, <2>7, <2>9, <3>1 DEF SessionKnown, NoSeq
    <3>3. \A i \in 1 .. Len(log) : log[i].row.sess \in Nat /\ log[i].row.sess < sess
      <4>1. TAKE i \in 1 .. Len(log)
      <4>2. log[i].row.sess \in Sessions
        BY <1>2, LoggedFields
      <4>3. log[i].row.sess \in Nat /\ log[i].row.sess <= sessId
        BY <2>9, <4>2 DEF LogSplit, Sessions
      <4>4. QED
        BY <2>9, <3>1, <4>3
    <3>4. LogSplit'
      BY <1>1, <2>7, <2>9, <3>1, <3>3 DEF LogSplit
    <3>5. QED
      BY <1>4, <2>8, <3>2, <3>4 DEF UpInv
  <2>12. QED
    BY <2>10, <2>11
<1>7. QED
  BY <1>5, <1>6

\* What reading a row of the known session does, whether it is logged or upd
\* fails on it: every number it makes the tickerplant accept is settled.
LEMMA UpdEffect ==
    ASSUME TypedInv, NEW s \in DOMAIN streams, Upd(s) \/ UpdFails(s),
           seqLast # NoSeq, Head(streams[s]).sess = sessId
    PROVE  LET r == Head(streams[s]) IN
           /\ s \in 1 .. Len(streams) /\ streams[s] # <<>> /\ 1 \in 1 .. Len(streams[s])
           /\ r = streams[s][1] /\ r \in RowIds /\ r.n \in Nat \ {0}
           /\ r = [sess |-> sessId, n |-> r.n]
           /\ seqLast \in Nat /\ seqLast' = IF r.n > seqLast THEN r.n ELSE seqLast
           /\ SettledRows \subseteq SettledRows'
           /\ r \in SettledRows'
           /\ \A k \in seqLast + 1 .. seqLast' : [sess |-> sessId, n |-> k] \in SettledRows'
           /\ \/ /\ Upd(s) /\ log' = Append(log, [row |-> r, day |-> openDay])
              \/ /\ UpdFails(s) /\ log' = log
<1> USE SessionAssumption
<1> DEFINE r == Head(streams[s])
<1>1. streams[s] # <<>> /\ CheckSeq(r.n)
  BY DEF Upd, UpdFails
<1>2. s \in 1 .. Len(streams) /\ streams[s] \in Seq(RowIds) /\ r \in RowIds
  BY <1>1, CheckSeqTyped
<1>3. r = streams[s][1] /\ 1 \in 1 .. Len(streams[s])
  BY <1>1, <1>2, TailSeq
<1>4. (Upd(s) /\ log' = Append(log, [row |-> r, day |-> openDay]) /\ refused' = refused)
      \/ (UpdFails(s) /\ log' = log /\ refused' = refused \cup {r})
  BY DEF Upd, UpdFails
<1>5. r.sess = sessId
  OBVIOUS
<1> HIDE DEF r
<1>6. r = [sess |-> sessId, n |-> r.n] /\ r.n \in 1 .. MaxPub /\ r.n \in Nat \ {0}
  BY <1>2, <1>5 DEF RowIds
<1>7. seqLast \in Nat /\ LogTyped /\ openDay \in 0 .. MaxDay
  BY DEF TypedInv, NumberTyped, DaysTyped
<1>8. seqLast' = IF r.n > seqLast THEN r.n ELSE seqLast
  BY <1>1 DEF CheckSeq
<1>9. SettledRows \subseteq SettledRows' /\ r \in SettledRows'
  <2>1. missed \subseteq missed'
    BY <1>1 DEF CheckSeq
  <2>2. LoggedRows \subseteq LoggedRows' /\ refused \subseteq refused'
    <3>1. CASE log' = log
      BY <1>4, <3>1 DEF LoggedRows
    <3>2. CASE log' = Append(log, [row |-> r, day |-> openDay])
      <4>1. LoggedRows' = LoggedRows \cup {r}
        BY <1>2, <1>7, <3>2, LogAppend
      <4>2. QED
        BY <1>4, <4>1
    <3>3. QED
      BY <1>4, <3>1, <3>2
  <2>3. r \in LoggedRows' \cup refused'
    <3>1. CASE log' = Append(log, [row |-> r, day |-> openDay])
      BY <1>2, <1>7, <3>1, LogAppend
    <3>2. QED
      BY <1>4, <3>1
  <2>4. QED
    BY <2>1, <2>2, <2>3 DEF SettledRows
<1>10. ASSUME NEW k \in seqLast + 1 .. seqLast'
       PROVE  [sess |-> sessId, n |-> k] \in SettledRows'
  <2>1. r.n > seqLast /\ k \in seqLast + 1 .. r.n
    BY <1>6, <1>7, <1>8, <1>10
  <2>2. CASE k = r.n
    BY <1>6, <1>9, <2>2
  <2>3. CASE k # r.n
    <3>1. k \in seqLast + 1 .. r.n - 1 /\ r.n > seqLast + 1
      BY <1>6, <1>7, <2>1, <2>3
    <3>2. missed' = missed \cup {[sess |-> sessId, n |-> m] : m \in seqLast + 1 .. r.n - 1}
      BY <1>1, <3>1 DEF CheckSeq
    <3>3. [sess |-> sessId, n |-> k] \in missed'
      BY <3>1, <3>2
    <3>4. QED
      BY <3>3 DEF SettledRows
  <2>4. QED
    BY <2>2, <2>3
<1>11. QED
  BY <1>1, <1>2, <1>3, <1>4, <1>6, <1>7, <1>8, <1>9, <1>10 DEF r

\* The earlier rows of a row that is logged now are settled, if those of the
\* logged rows are and the tickerplant's number is right.
LEMMA EarlierStep ==
    ASSUME TypedInv, NEW s \in DOMAIN streams, Upd(s) \/ UpdFails(s),
           seqLast # NoSeq, Head(streams[s]).sess = sessId,
           \A k \in 1 .. seqLast : [sess |-> sessId, n |-> k] \in SettledRows,
           EarlierSettled
    PROVE  /\ \A k \in 1 .. seqLast' : [sess |-> sessId, n |-> k] \in SettledRows'
           /\ EarlierSettled'
<1> DEFINE r == Head(streams[s])
<1>1. /\ r \in RowIds /\ r.n \in Nat \ {0} /\ r = [sess |-> sessId, n |-> r.n]
      /\ seqLast \in Nat /\ seqLast' = IF r.n > seqLast THEN r.n ELSE seqLast
      /\ SettledRows \subseteq SettledRows'
      /\ \A k \in seqLast + 1 .. seqLast' : [sess |-> sessId, n |-> k] \in SettledRows'
      /\ log' = log \/ log' = Append(log, [row |-> r, day |-> openDay])
  BY UpdEffect
<1>2. r.sess = sessId
  OBVIOUS
<1> HIDE DEF r
<1>3. \A k \in 1 .. seqLast' : [sess |-> sessId, n |-> k] \in SettledRows'
  <2>1. TAKE k \in 1 .. seqLast'
  <2>2. k \in 1 .. seqLast \/ k \in seqLast + 1 .. seqLast'
    BY <1>1
  <2>3. QED
    BY <1>1, <2>2
<1>4. CASE log' = log
  BY <1>1, <1>4 DEF EarlierSettled
<1>5. CASE log' = Append(log, [row |-> r, day |-> openDay])
  <2>1. LogTyped /\ openDay \in 0 .. MaxDay
    BY DEF TypedInv, DaysTyped
  <2>2. /\ Len(log) \in Nat /\ Len(log') = Len(log) + 1
        /\ \A i \in 1 .. Len(log) : log'[i] = log[i]
        /\ log'[Len(log) + 1].row = r
    BY <1>1, <1>5, <2>1, LogAppend
  <2>3. ASSUME NEW i \in 1 .. Len(log'), NEW k \in 1 .. log'[i].row.n - 1
        PROVE  [sess |-> log'[i].row.sess, n |-> k] \in SettledRows'
    <3>1. CASE i \in 1 .. Len(log)
      BY <1>1, <2>2, <2>3, <3>1 DEF EarlierSettled
    <3>2. CASE i = Len(log) + 1
      <4>1. log'[i].row.n = r.n /\ log'[i].row.sess = sessId
        BY <1>2, <2>2, <3>2
      <4>2. k \in 1 .. seqLast'
        BY <1>1, <2>3, <4>1
      <4>3. QED
        BY <1>3, <4>1, <4>2
    <3>3. QED
      BY <2>2, <2>3, <3>1, <3>2
  <2>4. QED
    BY <1>3, <2>3 DEF EarlierSettled
<1>6. QED
  BY <1>1, <1>3, <1>4, <1>5

\* The tickerplant reads a row.
LEMMA UpUpdStep ==
    ASSUME TypedInv, UpInv, NEW s \in DOMAIN streams, Upd(s) \/ UpdFails(s)
    PROVE  UpInv'
<1> USE SessionAssumption
<1> DEFINE r == Head(streams[s])
<1>1. /\ UNCHANGED <<fhVars, tpUp, sessId, sessFile, dayVars>>
      /\ streams[s] # <<>> /\ CheckSeq(r.n)
      /\ streams' = [streams EXCEPT ![s] = Tail(streams[s])]
  BY DEF Upd, UpdFails
<1>2. s \in 1 .. Len(streams) /\ streams[s] \in Seq(RowIds) /\ r \in RowIds
      /\ sessId \in Sessions
  BY <1>1, CheckSeqTyped
<1>3. seqLast # NoSeq
  BY <1>2 DEF UpInv, SessionKnown, Sessions
<1>4. r.sess = sessId
  <2>1. r = streams[s][1] /\ 1 \in 1 .. Len(streams[s])
    BY <1>1, <1>2, TailSeq
  <2>2. QED
    BY <1>2, <2>1 DEF UpInv, OnlyKnownRows
<1>5. /\ r.n \in Nat \ {0} /\ r = [sess |-> sessId, n |-> r.n]
      /\ seqLast \in Nat /\ seqLast' = IF r.n > seqLast THEN r.n ELSE seqLast
      /\ \/ /\ Upd(s) /\ log' = Append(log, [row |-> r, day |-> openDay])
         \/ /\ UpdFails(s) /\ log' = log
  BY <1>3, <1>4, UpdEffect
<1>6. (\A k \in 1 .. seqLast' : [sess |-> sessId, n |-> k] \in SettledRows')
      /\ EarlierSettled'
  BY <1>3, <1>4, EarlierStep DEF UpInv, LogSplit
<1>7. LogTyped /\ openDay \in 0 .. MaxDay /\ StreamsTyped /\ outOfOrder \in Nat
  BY DEF TypedInv, DaysTyped, CountsTyped
<1>8. outOfOrder' = IF r.n <= seqLast THEN outOfOrder + 1 ELSE outOfOrder
  BY <1>1 DEF CheckSeq
<1>9. UpdFails(s) => faults'["updFail"] # 0
  <2>1. UpdFails(s) => faults'["updFail"] = faults["updFail"] + 1 /\ faults["updFail"] \in Nat
    BY FaultStep DEF UpdFails, FaultKinds, TypedInv, FaultsOK
  <2>2. QED
    BY <2>1
<1>10. Upd(s) => refused' = refused /\ faults' = faults
  BY DEF Upd
<1> HIDE DEF r
<1>11. SessionKnown'
  BY <1>1, <1>5 DEF UpInv, SessionKnown, fhVars, NoSeq
<1>12. OnlyKnownRows'
  <2>1. Tail(streams[s]) \in Seq(RowIds) /\ Len(Tail(streams[s])) = Len(streams[s]) - 1
        /\ (\A i \in 1 .. Len(streams[s]) - 1 : Tail(streams[s])[i] = streams[s][i + 1])
        /\ Len(streams[s]) \in Nat
    BY <1>1, <1>2, TailSeq
  <2>2. Len(streams') = Len(streams) /\ streams'[s] = Tail(streams[s])
        /\ \A t \in 1 .. Len(streams) : t # s => streams'[t] = streams[t]
    BY <1>1, <1>2, <1>7, <2>1, StreamsReplace
  <2>3. ASSUME NEW t \in 1 .. Len(streams), NEW i \in 1 .. Len(streams'[t])
        PROVE  streams'[t][i].sess = sessId
    <3>1. CASE t # s
      BY <2>2, <2>3, <3>1 DEF UpInv, OnlyKnownRows
    <3>2. CASE t = s
      <4>1. i + 1 \in 1 .. Len(streams[s]) /\ streams'[t][i] = streams[s][i + 1]
        BY <2>1, <2>2, <2>3, <3>2, SMTT(60)
      <4>2. QED
        BY <1>2, <4>1 DEF UpInv, OnlyKnownRows
    <3>3. QED
      BY <3>1, <3>2
  <2>4. QED
    BY <1>1, <2>2, <2>3 DEF OnlyKnownRows
<1>13. RefusedByFault'
  BY <1>5, <1>9, <1>10 DEF UpInv, RefusedByFault
<1>14. LogSplit' /\ DuplicatesCounted'
  <2>1. CASE log' = log
    <3>1. \A i \in 1 .. Len(log) : log[i].row.sess = sessId => log[i].row.n <= seqLast'
      <4>1. TAKE i \in 1 .. Len(log)
      <4>2. log[i].row.n \in 1 .. MaxPub
        BY <1>7, LoggedFields
      <4>3. QED
        BY <1>5, <4>2, SMTT(60) DEF UpInv, LogSplit
    <3>2. LogSplit'
      BY <1>1, <1>6, <2>1, <3>1 DEF UpInv, LogSplit
    <3>3. Duplicates' = Duplicates
      BY <2>1 DEF Duplicates
    <3>4. Cardinality(Duplicates) <= outOfOrder /\ Cardinality(Duplicates) \in Nat
      <4>1. Len(log) \in Nat /\ Duplicates \subseteq 1 .. Len(log)
        BY <1>7 DEF LogTyped, Duplicates
      <4>2. Cardinality(Duplicates) \in Nat
        BY <4>1, PositionsFinite
      <4>3. QED
        BY <4>2 DEF UpInv, DuplicatesCounted
    <3>5. DuplicatesCounted'
      BY <1>7, <1>8, <3>3, <3>4 DEF DuplicatesCounted
    <3>6. QED
      BY <3>2, <3>5
  <2>2. CASE log' = Append(log, [row |-> r, day |-> openDay])
    <3>1. /\ Len(log) \in Nat /\ Len(log') = Len(log) + 1
          /\ \A i \in 1 .. Len(log) : log'[i] = log[i]
          /\ log'[Len(log) + 1].row = r
      BY <1>2, <1>7, <2>2, LogAppend
    <3>2. ASSUME NEW i \in 1 .. Len(log')
          PROVE  /\ log'[i].row.sess <= sessId
                 /\ log'[i].row.sess = sessId => log'[i].row.n <= seqLast'
      <4>1. CASE i \in 1 .. Len(log)
        <5>1. log[i].row.n \in 1 .. MaxPub /\ log'[i] = log[i]
          BY <1>7, <3>1, <4>1, LoggedFields
        <5>2. /\ log[i].row.sess <= sessId
              /\ log[i].row.sess = sessId => log[i].row.n <= seqLast
          BY <4>1 DEF UpInv, LogSplit
        <5>3. seqLast \in Nat /\ seqLast' \in Nat /\ seqLast <= seqLast'
          BY <1>5
        <5>4. log[i].row.sess = sessId => log[i].row.n <= seqLast'
          BY <5>1, <5>2, <5>3
        <5>5. QED
          BY <5>1, <5>2, <5>4
      <4>2. CASE i = Len(log) + 1
        BY <1>2, <1>4, <1>5, <3>1, <4>2 DEF Sessions, r
      <4>3. QED
        BY <3>1, <3>2, <4>1, <4>2
    <3>3. LogSplit'
      BY <1>1, <1>6, <3>2 DEF LogSplit
    <3>4. /\ Cardinality(Duplicates) \in Nat
          /\ Cardinality(Duplicates') <= Cardinality(Duplicates) + 1
          /\ r \notin LoggedRows => Duplicates' = Duplicates
      BY <1>2, <1>7, <2>2, DuplicatesStep
    <3>5. r.n > seqLast => r \notin LoggedRows
      <4>1. ASSUME NEW i \in 1 .. Len(log), log[i].row = r
            PROVE  r.n <= seqLast
        BY <1>4, <4>1 DEF UpInv, LogSplit, r
      <4>2. QED
        BY <1>5, <4>1 DEF LoggedRows
    <3>6. Cardinality(Duplicates) <= outOfOrder
      BY DEF UpInv, DuplicatesCounted
    <3>7. Cardinality(Duplicates') <= outOfOrder'
      <4>1. CASE r.n > seqLast
        BY <1>5, <1>8, <3>4, <3>5, <3>6, <4>1
      <4>2. CASE ~(r.n > seqLast)
        <5>1. outOfOrder' = outOfOrder + 1
          BY <1>5, <1>8, <4>2
        <5>2. Duplicates' \subseteq 1 .. Len(log) + 1 /\ Len(log) + 1 \in Nat
          BY <3>1 DEF Duplicates
        <5>3. Cardinality(Duplicates') \in Nat
          BY <5>2, PositionsFinite
        <5>4. QED
          BY <1>7, <3>4, <3>6, <5>1, <5>3
      <4>3. QED
        BY <4>1, <4>2
    <3>8. QED
      BY <3>3, <3>7 DEF DuplicatesCounted
  <2>3. QED
    BY <1>5, <2>1, <2>2
<1>15. QED
  BY <1>6, <1>11, <1>12, <1>13, <1>14 DEF UpInv

\* Every step of a tickerplant that stays up.
LEMMA UpNext ==
    ASSUME OldSessionLingers = FALSE, TypedInv, UpToNow, [Next]_vars
    PROVE  UpToNow'
<1>1. SUFFICES ASSUME NeverDown'
               PROVE  UpInv'
  BY DEF UpToNow
<1>2. NeverDown
  BY <1>1, FaultsGrow DEF NeverDown, FaultKinds
<1>3. UpInv /\ tpUp
  BY <1>2 DEF UpToNow, UpInv, SessionKnown
<1>4. ~TpKilled /\ ~TpExit
  <2>1. TpKilled => faults'["kill"] = faults["kill"] + 1
    BY FaultStep DEF TpKilled, TypedInv, FaultKinds
  <2>2. TpExit => faults'["exit"] = faults["exit"] + 1
    BY FaultStep DEF TpExit, TypedInv, FaultKinds
  <2>3. faults["kill"] = 0 /\ faults["exit"] = 0 /\ faults'["kill"] = 0 /\ faults'["exit"] = 0
    BY <1>1, <1>2 DEF NeverDown
  <2>4. QED
    BY <2>1, <2>2, <2>3
<1>5. ~TpStart /\ ~LoseSessionFile
  BY <1>3 DEF TpStart, LoseSessionFile
<1>6. CASE Midnight \/ EndOfDay \/ SaveForOthers \/ UNCHANGED vars
  <2>1. UNCHANGED <<fhVars, streams, tpUp, seqLast, sessId, log, countVars, faults>>
    BY <1>6 DEF Midnight, EndOfDay, SaveForOthers, vars, tpVars
  <2>2. LogSplit' /\ EarlierSettled' /\ RefusedByFault' /\ DuplicatesCounted'
    BY <1>3, <2>1, UpLogStands
  <2>3. SessionKnown' /\ OnlyKnownRows'
    BY <1>3, <2>1 DEF UpInv, SessionKnown, OnlyKnownRows, fhVars
  <2>4. QED
    BY <2>2, <2>3 DEF UpInv
<1>7. QED
  BY <1>3, <1>4, <1>5, <1>6, UpHandlerStep, UpConnectionStep, UpUpdStep DEF Next

\* A number the tickerplant holds that is right splits the handler's rows.
LEMMA SplitIsExact ==
    ASSUME LogTyped,
           \A k \in 1 .. seqLast : [sess |-> sess, n |-> k] \in SettledRows,
           \A i \in 1 .. Len(log) : log[i].row.sess = sess => log[i].row.n <= seqLast,
           pub \in Nat, seqLast \in Int
    PROVE  ReplyIsExact
<1>1. SUFFICES ASSUME NEW k \in 1 .. pub
               PROVE  LET r == [sess |-> sess, n |-> k] IN
                      /\ k <= seqLast => Accounted(r) \/ r \in refused
                      /\ k > seqLast => ~Logged(r)
  BY DEF ReplyIsExact
<1> DEFINE r == [sess |-> sess, n |-> k]
<1>2. r.sess = sess /\ r.n = k
  OBVIOUS
<1>3. ASSUME k <= seqLast
      PROVE  Accounted(r) \/ r \in refused
  <2>1. r \in SettledRows
    BY <1>3
  <2>2. QED
    BY <2>1 DEF SettledRows, LoggedRows, Accounted, Logged
<1>4. ASSUME k > seqLast, NEW i \in 1 .. Len(log), log[i].row = r
      PROVE  FALSE
  BY <1>2, <1>4
<1> HIDE DEF r
<1>5. QED
  BY <1>3, <1>4 DEF Logged, r

\* The initial state of a tickerplant that stays up.
LEMMA InitUp == Init => UpToNow
<1>1. SUFFICES ASSUME Init
               PROVE  UpInv
  BY DEF UpToNow
<1>2. SessionKnown /\ OnlyKnownRows /\ LogSplit /\ EarlierSettled /\ RefusedByFault
  BY <1>1 DEF Init, SessionKnown, OnlyKnownRows, LogSplit, EarlierSettled, RefusedByFault, NoSeq
<1>3. Duplicates = {} /\ outOfOrder = 0
  BY <1>1 DEF Init, Duplicates
<1>4. DuplicatesCounted
  BY <1>3, FS_EmptySet DEF DuplicatesCounted
<1>5. QED
  BY <1>2, <1>4 DEF UpInv

\* As long as the tickerplant has never ended and reads nothing of an older
\* session behind a new one's registration, handlers may restart, connections
\* break and registrations be repeated: its reply splits the handler's rows
\* exactly, every row logged twice is counted, and if upd has not failed no
\* row is lost unnoticed (tp_publisher.hpp:8-19, tp.q:469-471).
THEOREM SafeWhileUp ==
    ASSUME OldSessionLingers = FALSE
    PROVE  Spec => [](NeverDown => /\ ReplyIsExact
                                   /\ DuplicatesCounted
                                   /\ faults["updFail"] = 0 => NoSilentLoss)
<1>1. TypedInv /\ UpToNow /\ [Next]_vars => TypedInv' /\ UpToNow'
  BY NextTyped, UpNext
<1>2. Spec => [](TypedInv /\ UpToNow)
  BY <1>1, InitTyped, InitUp, PTL DEF Spec
<1>3. TypedInv /\ UpToNow =>
          (NeverDown => /\ ReplyIsExact
                        /\ DuplicatesCounted
                        /\ faults["updFail"] = 0 => NoSilentLoss)
  <2>1. SUFFICES ASSUME TypedInv, UpToNow, NeverDown
                 PROVE  /\ ReplyIsExact
                        /\ DuplicatesCounted
                        /\ faults["updFail"] = 0 => NoSilentLoss
    OBVIOUS
  <2>2. UpInv /\ LogTyped /\ pub \in Nat /\ seqLast \in Int
    BY <2>1, SessionAssumption DEF UpToNow, TypedInv, HandlerTyped, NumberTyped, NoSeq
  <2>3. ReplyIsExact
    <3>1. CASE sessId = sess
      BY <2>2, <3>1, SplitIsExact DEF UpInv, LogSplit
    <3>2. CASE sessId # sess
      BY <3>2 DEF ReplyIsExact
    <3>3. QED
      BY <3>1, <3>2
  <2>4. ASSUME faults["updFail"] = 0
        PROVE  NoSilentLoss
    <3>1. SUFFICES ASSUME NEW i \in 1 .. Len(log), NEW k \in 1 .. log[i].row.n - 1
                   PROVE  Accounted([sess |-> log[i].row.sess, n |-> k])
      BY DEF NoSilentLoss
    <3>2. [sess |-> log[i].row.sess, n |-> k] \in SettledRows /\ refused = {}
      BY <2>2, <2>4 DEF UpInv, EarlierSettled, RefusedByFault
    <3>3. QED
      BY <3>2 DEF SettledRows, LoggedRows, Accounted, Logged
  <2>5. QED
    BY <2>2, <2>3, <2>4 DEF UpInv
<1>4. QED
  BY <1>2, <1>3, PTL

-----------------------------------------------------------------------------
(* One handler on connections that only break when the tickerplant ends *)

OneHandler == sess <= 1 /\ faults["drop"] = 0

FileKept == faults["fileLost"] = 0

\* At most the last connection holds rows, in the order of their numbers and
\* behind every number the tickerplant has accepted; none does while the
\* handler has no connection.
InOrder ==
    /\ conn \in {"blocked", "dead", "lost"} \/ seqLast = NoSeq => StreamsEmpty
    /\ sess = 0 => streams = <<>> /\ log = <<>> /\ pub = 0
    /\ \A s \in 1 .. Len(streams) - 1 : streams[s] = <<>>
    /\ \A s \in 1 .. Len(streams) : \A i \in 1 .. Len(streams[s]) :
          /\ streams[s][i].sess = sess
          /\ seqLast < streams[s][i].n /\ streams[s][i].n <= pub
          /\ \A j \in 1 .. i - 1 : streams[s][j].n < streams[s][i].n

\* Numbers and days only go up in the log.
LogInOrder ==
    /\ \A i \in 1 .. Len(log) :
          /\ log[i].row.sess = sess /\ log[i].row.n <= pub
          /\ log[i].day <= openDay
          /\ \A j \in 1 .. i - 1 : log[j].row.n < log[i].row.n /\ log[j].day <= log[i].day
    /\ openDay <= today

\* No logged row is behind x.
Covers(x) == \A i \in 1 .. Len(log) : log[i].row.n <= x

\* A session and a number as the tickerplant holds or has saved them; if the
\* session file was never lost, the handler's rows up to the number are
\* settled, and a handler that has published is known.
Right(id, last) ==
    /\ last <= pub /\ id <= sess
    /\ id # 0 => last # NoSeq
    /\ FileKept =>
          /\ \A k \in 1 .. last : [sess |-> sess, n |-> k] \in SettledRows
          /\ id = 0 => pub = 0 /\ conn \notin {"live", "dead", "lost"}

NumberRight == Right(sessId, seqLast) /\ (seqLast # NoSeq => Covers(seqLast))

\* The file may lag behind a log that has rows of the open day.
NothingToday == \A i \in 1 .. Len(log) : log[i].day # openDay

FileRight ==
    /\ Right(sessFile.id, sessFile.last)
    /\ sessFile.last # NoSeq /\ NothingToday => Covers(sessFile.last)

OneInv ==
    /\ InOrder
    /\ LogInOrder
    /\ NumberRight
    /\ FileRight
    /\ FileKept => EarlierSettled
    /\ RefusedByFault

OneToNow == OneHandler => OneInv

\* The numbers of a typed state.
LEMMA Numbers ==
    ASSUME TypedInv
    PROVE  /\ sess \in Nat /\ pub \in Nat /\ sessId \in Nat
           /\ seqLast \in Int /\ (seqLast # NoSeq => seqLast \in Nat)
           /\ sessFile.id \in Nat /\ sessFile.last \in Int
           /\ today \in Nat /\ openDay \in Nat
           /\ Len(log) \in Nat /\ Len(streams) \in Nat
<1>1. sess \in Nat /\ pub \in Nat /\ sessId \in Nat
      /\ seqLast \in Int /\ (seqLast # NoSeq => seqLast \in Nat)
      /\ today \in Nat /\ openDay \in Nat
  BY SessionAssumption DEF TypedInv, HandlerTyped, NumberTyped, DaysTyped, NoSeq
<1>2. sessFile.id \in Nat /\ sessFile.last \in Int
  BY SessionAssumption DEF TypedInv, FileTyped, NoSeq
<1>3. Len(log) \in Nat /\ Len(streams) \in Nat
  BY DEF TypedInv, LogTyped, StreamsTyped
<1>4. QED
  BY <1>1, <1>2, <1>3

\* Steps of the handler other than a publish to a live connection.
LEMMA OneHandlerStep ==
    ASSUME TypedInv, OneInv, OneHandler', FhStart \/ FhStop \/ PublishDead \/ EventFindsDead
    PROVE  OneInv'
<1>1. UNCHANGED <<streams, tpUp, tpVars, log, dayVars, countVars, faults>>
  BY DEF FhStart, FhStop, PublishDead, EventFindsDead
<1>2. sess \in Nat /\ pub \in Nat /\ seqLast \in Int /\ sessFile.last \in Int
      /\ sessId \in Nat /\ sessFile.id \in Nat
  BY Numbers
<1>3. EarlierSettled' = EarlierSettled /\ RefusedByFault' = RefusedByFault /\ FileKept' = FileKept
      /\ SettledRows' = SettledRows /\ NothingToday' = NothingToday /\ StreamsEmpty' = StreamsEmpty
  BY <1>1 DEF EarlierSettled, RefusedByFault, FileKept, SettledRows, LoggedRows,
              NothingToday, StreamsEmpty, countVars, dayVars
<1>4. CASE FhStart
  <2>1. conn = "down" /\ conn' = "blocked" /\ sess = 0 /\ pub = 0 /\ pub' = 0 /\ sess' = 1
    BY <1>2, <1>4 DEF FhStart, OneHandler, OneInv, InOrder
  <2>2. streams = <<>> /\ log = <<>> /\ Len(streams) = 0 /\ Len(log) = 0
    BY <2>1 DEF OneInv, InOrder
  <2>3. InOrder'
    BY <1>1, <2>1, <2>2 DEF InOrder, StreamsEmpty
  <2>4. LogInOrder'
    BY <1>1, <2>2 DEF OneInv, LogInOrder, dayVars
  <2>5. NumberRight'
    BY <1>1, <1>2, <1>3, <2>1, <2>2 DEF OneInv, NumberRight, Right, Covers, tpVars
  <2>6. FileRight'
    BY <1>1, <1>2, <1>3, <2>1, <2>2 DEF OneInv, FileRight, Right, Covers, tpVars
  <2>7. QED
    BY <1>3, <2>3, <2>4, <2>5, <2>6 DEF OneInv
<1>5. CASE FhStop \/ EventFindsDead
  <2>1. sess' = sess /\ pub' = pub /\ (conn' = "lost" => conn = "dead")
        /\ conn' \in {"down", "lost"}
    BY <1>5 DEF FhStop, EventFindsDead
  <2>2. InOrder' /\ LogInOrder'
    BY <1>1, <1>3, <2>1 DEF OneInv, InOrder, LogInOrder, dayVars, tpVars
  <2>3. NumberRight' /\ FileRight'
    BY <1>1, <1>3, <2>1 DEF OneInv, NumberRight, FileRight, Right, Covers, tpVars
  <2>4. QED
    BY <1>3, <2>2, <2>3 DEF OneInv
<1>6. CASE PublishDead
  <2>1. sess' = sess /\ pub' = pub + 1 /\ conn \in {"dead", "lost"}
        /\ conn' \in {"dead", "blocked"}
    BY <1>6 DEF PublishDead
  <2>2. StreamsEmpty /\ sess # 0
    BY <2>1 DEF OneInv, InOrder, TypedInv, Linked
  <2>3. InOrder'
    BY <1>1, <1>3, <2>1, <2>2 DEF OneInv, InOrder, StreamsEmpty, tpVars
  <2>4. LogInOrder'
    <3>1. \A i \in 1 .. Len(log) : log[i].row.n \in 1 .. MaxPub
      BY LoggedFields DEF TypedInv
    <3>2. \A i \in 1 .. Len(log) : log[i].row.n <= pub'
      BY <1>2, <2>1, <3>1 DEF OneInv, LogInOrder
    <3>3. QED
      BY <1>1, <2>1, <3>2 DEF OneInv, LogInOrder, dayVars
  <2>5. NumberRight'
    <3>1. seqLast <= pub'
      BY <1>2, <2>1 DEF OneInv, NumberRight, Right
    <3>2. FileKept => sessId # 0
      BY <2>1 DEF OneInv, NumberRight, Right
    <3>3. QED
      BY <1>1, <1>3, <2>1, <3>1, <3>2 DEF OneInv, NumberRight, Right, Covers, tpVars
  <2>6. FileRight'
    <3>1. sessFile.last <= pub'
      BY <1>2, <2>1 DEF OneInv, FileRight, Right
    <3>2. FileKept => sessFile.id # 0
      BY <2>1 DEF OneInv, FileRight, Right
    <3>3. QED
      BY <1>1, <1>3, <2>1, <3>1, <3>2 DEF OneInv, FileRight, Right, Covers, tpVars
  <2>7. QED
    BY <1>3, <2>3, <2>4, <2>5, <2>6 DEF OneInv
<1>7. QED
  BY <1>4, <1>5, <1>6

\* A row is published to a live connection.
LEMMA OnePublishStep ==
    ASSUME TypedInv, OneInv, PublishLive
    PROVE  OneInv'
<1> USE SessionAssumption
<1>1. /\ UNCHANGED <<sess, conn, tpUp, tpVars, log, dayVars, countVars, faults>>
      /\ pub' = pub + 1 /\ conn = "live"
  BY DEF PublishLive
<1>2. sess \in Nat /\ pub \in Nat /\ seqLast \in Int /\ sessFile.last \in Int
      /\ sessId \in Nat /\ sessFile.id \in Nat
  BY Numbers
<1>3. EarlierSettled' = EarlierSettled /\ RefusedByFault' = RefusedByFault /\ FileKept' = FileKept
      /\ SettledRows' = SettledRows /\ NothingToday' = NothingToday
  BY <1>1 DEF EarlierSettled, RefusedByFault, FileKept, SettledRows, LoggedRows,
              NothingToday, countVars, dayVars
<1>4. sess # 0 /\ sessId = sess /\ seqLast # NoSeq /\ seqLast <= pub
  BY <1>1 DEF TypedInv, Linked, OneInv, NumberRight, Right
<1>5. LogInOrder'
  <2>1. \A i \in 1 .. Len(log) : log[i].row.n \in 1 .. MaxPub
    BY LoggedFields DEF TypedInv
  <2>2. \A i \in 1 .. Len(log) : log[i].row.n <= pub'
    BY <1>1, <1>2, <2>1 DEF OneInv, LogInOrder
  <2>3. QED
    BY <1>1, <2>2 DEF OneInv, LogInOrder, dayVars
<1>6. NumberRight'
  <2>1. seqLast <= pub'
    BY <1>1, <1>2, <1>4
  <2>2. QED
    BY <1>1, <1>3, <1>4, <2>1 DEF OneInv, NumberRight, Right, Covers, tpVars
<1>7. FileRight'
  <2>1. sessFile.last <= pub'
    BY <1>1, <1>2 DEF OneInv, FileRight, Right
  <2>2. FileKept => sessFile.id # 0
    BY <1>1 DEF OneInv, FileRight, Right
  <2>3. QED
    BY <1>1, <1>3, <2>1, <2>2 DEF OneInv, FileRight, Right, Covers, tpVars
<1>8. InOrder'
  <2> DEFINE L == Len(streams)
             row == [sess |-> sess, n |-> pub + 1]
             q == Append(streams[L], row)
  <2>1. L \in 1 .. Len(streams) /\ StreamsTyped
    BY <1>1 DEF TypedInv, Linked, StreamsTyped
  <2>2. streams' = [streams EXCEPT ![L] = q]
    BY DEF PublishLive
  <2>3. row \in RowIds /\ row.sess = sess /\ row.n = pub + 1
    BY <1>4 DEF PublishLive, TypedInv, HandlerTyped, RowIds, Sessions
  <2>4. L = Len(streams)
    OBVIOUS
  <2> HIDE DEF row, L
  <2>5. streams[L] \in Seq(RowIds) /\ Len(streams[L]) \in Nat
    BY <2>1, StreamTyped
  <2> DEFINE M == Len(streams[L])
  <2>6. q \in Seq(RowIds) /\ Len(q) = M + 1 /\ q[M + 1] = row
        /\ \A i \in 1 .. M : q[i] = streams[L][i]
    BY <2>3, <2>5, AppendSeq
  <2> HIDE DEF q
  <2>7. Len(streams') = Len(streams) /\ streams'[L] = q
        /\ \A s \in 1 .. Len(streams) : s # L => streams'[s] = streams[s]
    BY <2>1, <2>2, <2>6, StreamsReplace
  <2>8. ASSUME NEW s \in 1 .. Len(streams), NEW i \in 1 .. Len(streams[s])
        PROVE  /\ streams[s][i].sess = sess /\ streams[s][i].n \in Nat
               /\ seqLast < streams[s][i].n /\ streams[s][i].n <= pub
               /\ \A j \in 1 .. i - 1 : streams[s][j].n < streams[s][i].n
    <3>1. streams[s][i].n \in 1 .. MaxPub
      BY <2>1, <2>8, StreamFields
    <3>2. QED
      BY <2>8, <3>1 DEF OneInv, InOrder
  <2>9. \A s \in 1 .. Len(streams) - 1 : streams'[s] = <<>>
    BY <2>1, <2>4, <2>7 DEF OneInv, InOrder
  <2>10. ASSUME NEW s \in 1 .. Len(streams), NEW i \in 1 .. Len(streams'[s])
         PROVE  /\ streams'[s][i].sess = sess
                /\ seqLast < streams'[s][i].n /\ streams'[s][i].n <= pub + 1
                /\ \A j \in 1 .. i - 1 : streams'[s][j].n < streams'[s][i].n
    <3>1. CASE s # L
      <4>1. streams'[s] = streams[s]
        BY <2>7, <3>1
      <4>2. /\ streams[s][i].sess = sess /\ streams[s][i].n \in Nat
            /\ seqLast < streams[s][i].n /\ streams[s][i].n <= pub
            /\ \A j \in 1 .. i - 1 : streams[s][j].n < streams[s][i].n
        BY <2>8, <2>10, <4>1
      <4>3. streams[s][i].n <= pub + 1
        BY <1>2, <4>2
      <4>4. QED
        BY <4>1, <4>2, <4>3
    <3>2. CASE s = L /\ i \in 1 .. M
      <4>1. streams'[s][i] = streams[L][i]
            /\ \A j \in 1 .. i - 1 : streams'[s][j] = streams[L][j]
        BY <2>5, <2>6, <2>7, <3>2
      <4>2. /\ streams[L][i].sess = sess /\ streams[L][i].n \in Nat
            /\ seqLast < streams[L][i].n /\ streams[L][i].n <= pub
            /\ \A j \in 1 .. i - 1 : streams[L][j].n < streams[L][i].n
        BY <2>1, <2>8, <3>2
      <4>3. streams[L][i].n <= pub + 1
        BY <1>2, <4>2
      <4>4. QED
        BY <4>1, <4>2, <4>3
    <3>3. CASE s = L /\ i = M + 1
      <4>1. streams'[s][i] = row
            /\ \A j \in 1 .. M : streams'[s][j] = streams[L][j]
        BY <2>5, <2>6, <2>7, <3>3
      <4>2. \A j \in 1 .. M : streams[L][j].n \in Nat /\ streams[L][j].n <= pub
        BY <2>1, <2>8
      <4>3. \A j \in 1 .. i - 1 : j \in 1 .. M
        BY <2>5, <3>3
      <4>4. seqLast < pub + 1 /\ pub + 1 <= pub + 1
        BY <1>2, <1>4
      <4>5. \A j \in 1 .. M : streams[L][j].n < pub + 1
        <5>1. TAKE j \in 1 .. M
        <5>2. streams[L][j].n \in Nat /\ streams[L][j].n <= pub
          BY <4>2
        <5>3. QED
          BY <1>2, <5>2
      <4>6. \A j \in 1 .. i - 1 : streams'[s][j].n < pub + 1
        BY <4>1, <4>3, <4>5
      <4>7. QED
        BY <2>3, <4>1, <4>4, <4>6
    <3>4. QED
      BY <2>5, <2>6, <2>7, <2>10, <3>1, <3>2, <3>3
  <2>11. QED
    BY <1>1, <1>4, <2>7, <2>9, <2>10 DEF InOrder, tpVars
<1>9. QED
  BY <1>3, <1>5, <1>6, <1>7, <1>8 DEF OneInv

\* The handler connects and resends.
LEMMA OneConnectStep ==
    ASSUME TypedInv, OneInv, OneHandler, Connect
    PROVE  OneInv'
<1> USE SessionAssumption
<1> DEFINE reply == RegistrationReply(pub + 1)
           sent == Resend(reply)
<1>1. /\ UNCHANGED <<sess, pub, tpUp, log, dayVars, countVars, faults>>
      /\ conn = "blocked" /\ conn' = "live" /\ streams' = Append(streams, sent)
      /\ seqLast' = RegisteredLast(pub + 1) /\ sessId' = sess
      /\ sessFile' = [id |-> sess, last |-> RegisteredLast(pub + 1)]
  BY DEF Connect, Register
<1>2. sess \in Nat /\ pub \in Nat /\ seqLast \in Int /\ sessId \in Nat /\ Len(streams) \in Nat
      /\ (seqLast # NoSeq => seqLast \in Nat)
  BY Numbers
<1>3. sess \in Sessions /\ sent \in Seq(RowIds) /\ reply \in Int
  BY <1>1, BlockedResend
<1>4. sess = 1 /\ StreamsEmpty
  BY <1>1, <1>2, <1>3 DEF OneHandler, OneInv, InOrder, Sessions
<1> HIDE DEF reply
<1>5. /\ \A i \in 1 .. Len(sent) : sent[i] = [sess |-> sess, n |-> pub - Len(sent) + i]
      /\ sent # <<>> => reply \in Nat
      /\ reply \in 0 .. pub => Len(sent) <= pub - reply
      /\ reply > pub => sent = <<>>
  BY <1>2, <1>3, ResendRows DEF TypedInv, HandlerTyped
<1> HIDE DEF sent
<1>6. EarlierSettled' = EarlierSettled /\ RefusedByFault' = RefusedByFault /\ FileKept' = FileKept
      /\ SettledRows' = SettledRows
  BY <1>1 DEF EarlierSettled, RefusedByFault, FileKept, SettledRows, LoggedRows, countVars
<1>7. LogInOrder'
  BY <1>1 DEF OneInv, LogInOrder, dayVars
<1>8. seqLast <= pub /\ sessId <= sess /\ (sessId # 0 => seqLast # NoSeq)
  BY DEF OneInv, NumberRight, Right
<1>9. /\ seqLast' \in Nat /\ seqLast' <= pub
      /\ seqLast # NoSeq => seqLast' = seqLast /\ reply = seqLast
      /\ seqLast = NoSeq => seqLast' = pub /\ reply = -1
  <2>1. CASE seqLast = NoSeq
    BY <1>1, <1>2, <2>1 DEF RegisteredLast, RegistrationReply, NoSeq, reply
  <2>2. CASE seqLast # NoSeq
    <3>1. ~(sessId = 0 /\ pub + 1 - 1 < seqLast) /\ ~(sessId # 0 /\ sessId # sess)
      BY <1>2, <1>4, <1>8
    <3>2. QED
      BY <1>1, <1>2, <1>8, <2>2, <3>1 DEF RegisteredLast, RegistrationReply, reply
  <2>3. QED
    BY <2>1, <2>2
<1>10. Covers(seqLast')
  <2>1. CASE seqLast = NoSeq
    BY <1>9, <2>1 DEF OneInv, LogInOrder, Covers
  <2>2. CASE seqLast # NoSeq
    BY <1>9, <2>2 DEF OneInv, NumberRight
  <2>3. QED
    BY <2>1, <2>2
<1>11. FileKept => \A k \in 1 .. seqLast' : [sess |-> sess, n |-> k] \in SettledRows
  <2>1. CASE seqLast = NoSeq
    <3>1. FileKept => pub = 0
      BY <1>8, <2>1 DEF OneInv, NumberRight, Right
    <3>2. QED
      BY <1>9, <2>1, <3>1
  <2>2. CASE seqLast # NoSeq
    BY <1>9, <2>2 DEF OneInv, NumberRight, Right
  <2>3. QED
    BY <2>1, <2>2
<1>12. NumberRight'
  <2>1. Covers(seqLast)'
    BY <1>1, <1>10 DEF Covers
  <2>2. Right(sessId, seqLast)'
    BY <1>1, <1>2, <1>4, <1>6, <1>9, <1>11 DEF Right, NoSeq
  <2>3. QED
    BY <2>1, <2>2 DEF NumberRight
<1>13. FileRight'
  <2>1. sessFile'.id = sess' /\ sessFile'.last = seqLast' /\ sessId' = sess'
    BY <1>1
  <2>2. QED
    BY <1>12, <2>1 DEF NumberRight, FileRight, Right, Covers
<1>14. InOrder'
  <2> DEFINE L == Len(streams)
  <2>1. Len(streams') = L + 1 /\ streams'[L + 1] = sent
        /\ \A s \in 1 .. L : streams'[s] = streams[s]
    BY <1>1, <1>3, StreamsAppend DEF TypedInv
  <2>2. \A s \in 1 .. L : streams'[s] = <<>>
    BY <1>4, <2>1 DEF StreamsEmpty
  <2> HIDE DEF L
  <2>3. L \in Nat
    BY <1>2 DEF L
  <2>4. ASSUME NEW i \in 1 .. Len(sent)
        PROVE  /\ sent[i].sess = sess
               /\ seqLast' < sent[i].n /\ sent[i].n <= pub
               /\ \A j \in 1 .. i - 1 : sent[j].n < sent[i].n
    <3>1. Len(sent) \in Nat /\ sent # <<>>
      BY <1>3, <2>4
    <3>2. seqLast # NoSeq /\ seqLast' = seqLast /\ reply = seqLast /\ reply \in 0 .. pub
      BY <1>2, <1>5, <1>8, <1>9, <3>1
    <3>3. Len(sent) <= pub - seqLast
      BY <1>5, <3>2
    <3> DEFINE m == pub - Len(sent)
    <3>4. m \in Int /\ m = pub - Len(sent)
      BY <1>2, <3>1
    <3>5. \A j \in 1 .. Len(sent) : sent[j] = [sess |-> sess, n |-> m + j]
      BY <1>5
    <3> HIDE DEF m
    <3>6. \A j \in 1 .. Len(sent) : sent[j].sess = sess /\ sent[j].n = m + j
      <4>1. TAKE j \in 1 .. Len(sent)
      <4>2. sent[j] = [sess |-> sess, n |-> m + j]
        BY <3>5
      <4>3. QED
        BY <4>2
    <3>7. seqLast <= m /\ m + Len(sent) = pub
      BY <1>2, <3>1, <3>3, <3>4
    <3>8. sent[i].sess = sess /\ sent[i].n = m + i
      BY <3>6
    <3>9. seqLast < m + i /\ m + i <= pub
      BY <1>2, <3>1, <3>4, <3>7
    <3>10. ASSUME NEW j \in 1 .. i - 1
           PROVE  sent[j].n < sent[i].n
      <4>1. j \in 1 .. Len(sent) /\ m + j < m + i
        BY <3>1, <3>4
      <4>2. QED
        BY <3>6, <3>8, <4>1
    <3>11. QED
      BY <3>2, <3>8, <3>9, <3>10
  <2>5. ASSUME NEW s \in 1 .. L + 1, NEW i \in 1 .. Len(streams'[s])
        PROVE  /\ streams'[s][i].sess = sess
               /\ seqLast' < streams'[s][i].n /\ streams'[s][i].n <= pub
               /\ \A j \in 1 .. i - 1 : streams'[s][j].n < streams'[s][i].n
    <3>1. s \notin 1 .. L
      BY <2>2, <2>5
    <3>2. s = L + 1
      BY <2>3, <3>1
    <3>3. QED
      BY <2>1, <2>4, <2>5, <3>2
  <2>6. \A s \in 1 .. L + 1 - 1 : streams'[s] = <<>>
    BY <2>2, <2>3
  <2>7. conn' \notin {"blocked", "dead", "lost"} /\ seqLast' # NoSeq /\ sess' # 0
    BY <1>1, <1>4, <1>9 DEF NoSeq
  <2>8. \A s \in 1 .. Len(streams') : \A i \in 1 .. Len(streams'[s]) :
            /\ streams'[s][i].sess = sess'
            /\ seqLast' < streams'[s][i].n /\ streams'[s][i].n <= pub'
            /\ \A j \in 1 .. i - 1 : streams'[s][j].n < streams'[s][i].n
    <3>1. sess' = sess /\ pub' = pub /\ Len(streams') = L + 1
      BY <1>1, <2>1
    <3>2. QED
      BY <2>5, <3>1, Zenon
  <2>9. \A s \in 1 .. Len(streams') - 1 : streams'[s] = <<>>
    <3>1. Len(streams') - 1 = L + 1 - 1
      <4>1. Len(streams') = L + 1
        BY <2>1
      <4>2. QED
        BY <2>3, <4>1
    <3>2. QED
      BY <2>6, <3>1, Zenon
  <2>10. QED
    BY <2>7, <2>8, <2>9 DEF InOrder
<1>15. QED
  BY <1>6, <1>7, <1>12, <1>13, <1>14 DEF OneInv

\* The tickerplant reads a row.
LEMMA OneUpdStep ==
    ASSUME TypedInv, OneInv, OneHandler, NEW s \in DOMAIN streams, Upd(s) \/ UpdFails(s)
    PROVE  OneInv'
<1> USE SessionAssumption
<1> DEFINE r == Head(streams[s])
<1>1. /\ UNCHANGED <<sess, pub, conn, tpUp, sessId, sessFile, today, openDay>>
      /\ streams[s] # <<>> /\ CheckSeq(r.n)
      /\ streams' = [streams EXCEPT ![s] = Tail(streams[s])]
  BY DEF Upd, UpdFails, fhVars, dayVars
<1>2. s \in 1 .. Len(streams) /\ streams[s] \in Seq(RowIds) /\ r \in RowIds
      /\ sessId \in Sessions
  BY <1>1, CheckSeqTyped
<1>3. sess \in Nat /\ pub \in Nat /\ seqLast \in Int /\ sessId \in Nat /\ Len(streams) \in Nat
      /\ openDay \in Nat /\ Len(log) \in Nat
  BY Numbers
<1>4. seqLast # NoSeq /\ sessId = sess /\ sess # 0
  <2>1. sessId # 0 /\ sessId <= sess /\ sess <= 1
    BY <1>2 DEF Sessions, OneInv, NumberRight, Right, OneHandler
  <2>2. QED
    BY <1>3, <2>1 DEF OneInv, NumberRight, Right
<1>5. r = streams[s][1] /\ 1 \in 1 .. Len(streams[s])
  BY <1>1, <1>2, TailSeq
<1>6. r.sess = sessId /\ seqLast < r.n /\ r.n <= pub
  BY <1>2, <1>4, <1>5 DEF OneInv, InOrder
<1>7. /\ r.n \in Nat \ {0} /\ r = [sess |-> sessId, n |-> r.n]
      /\ seqLast \in Nat /\ seqLast' = IF r.n > seqLast THEN r.n ELSE seqLast
      /\ SettledRows \subseteq SettledRows'
      /\ \/ /\ Upd(s) /\ log' = Append(log, [row |-> r, day |-> openDay])
         \/ /\ UpdFails(s) /\ log' = log
  BY <1>4, <1>6, UpdEffect
<1>8. FileKept => (\A k \in 1 .. seqLast' : [sess |-> sessId, n |-> k] \in SettledRows')
                  /\ EarlierSettled'
  BY <1>4, <1>6, EarlierStep DEF OneInv, NumberRight, Right
<1>9. LogTyped /\ openDay \in 0 .. MaxDay /\ StreamsTyped
  BY DEF TypedInv, DaysTyped
<1>10. /\ UpdFails(s) => faults'["updFail"] # 0 /\ faults'["fileLost"] = faults["fileLost"]
       /\ Upd(s) => refused' = refused /\ faults' = faults
  <2>1. UpdFails(s) => /\ faults'["updFail"] = faults["updFail"] + 1 /\ faults["updFail"] \in Nat
                       /\ faults'["fileLost"] = faults["fileLost"]
    BY FaultStep DEF UpdFails, FaultKinds, TypedInv, FaultsOK
  <2>2. QED
    BY <2>1 DEF Upd
<1> HIDE DEF r
<1>11. FileKept' = FileKept
  BY <1>7, <1>10 DEF FileKept
<1>12. RefusedByFault'
  BY <1>7, <1>10 DEF OneInv, RefusedByFault
<1>13. seqLast' = r.n /\ seqLast' \in Nat /\ seqLast' <= pub
  BY <1>6, <1>7
<1>14. InOrder'
  <2> DEFINE q == Tail(streams[s])
             M == Len(streams[s]) - 1
  <2>1. q \in Seq(RowIds) /\ Len(q) = M /\ (\A i \in 1 .. M : q[i] = streams[s][i + 1])
        /\ Len(streams[s]) \in Nat
    BY <1>1, <1>2, TailSeq
  <2> HIDE DEF q
  <2>2. Len(streams') = Len(streams) /\ streams'[s] = q
        /\ \A t \in 1 .. Len(streams) : t # s => streams'[t] = streams[t]
    BY <1>1, <1>2, <1>9, <2>1, StreamsReplace DEF q
  <2>3. s = Len(streams)
    <3>1. s \notin 1 .. Len(streams) - 1
      BY <1>1 DEF OneInv, InOrder
    <3>2. QED
      BY <1>2, <1>3, <3>1
  <2>4. \A t \in 1 .. Len(streams) - 1 : streams'[t] = <<>>
    <3>1. TAKE t \in 1 .. Len(streams) - 1
    <3>2. t # s /\ t \in 1 .. Len(streams)
      BY <1>3, <2>3
    <3>3. QED
      BY <2>2, <3>2 DEF OneInv, InOrder
  <2>5. ASSUME NEW i \in 1 .. Len(q)
        PROVE  /\ q[i].sess = sess
               /\ seqLast' < q[i].n /\ q[i].n <= pub
               /\ \A j \in 1 .. i - 1 : q[j].n < q[i].n
    <3>1. i + 1 \in 1 .. Len(streams[s]) /\ q[i] = streams[s][i + 1] /\ 1 \in 1 .. i + 1 - 1
      BY <2>1, <2>5
    <3>2. /\ streams[s][i + 1].sess = sess /\ streams[s][i + 1].n <= pub
          /\ \A j \in 1 .. i + 1 - 1 : streams[s][j].n < streams[s][i + 1].n
      <4>1. PICK p \in 1 .. Len(streams[s]) : p = i + 1
        BY <3>1
      <4>2. /\ streams[s][p].sess = sess /\ streams[s][p].n <= pub
            /\ \A j \in 1 .. p - 1 : streams[s][j].n < streams[s][p].n
        BY <1>2 DEF OneInv, InOrder
      <4>3. QED
        BY <4>1, <4>2
    <3>3. r.n < q[i].n
      BY <1>5, <3>1, <3>2
    <3>4. ASSUME NEW j \in 1 .. i - 1
          PROVE  q[j].n < q[i].n
      <4>1. j \in 1 .. M /\ j + 1 \in 1 .. i + 1 - 1
        BY <2>1, <2>5
      <4>2. QED
        BY <2>1, <3>1, <3>2, <4>1
    <3>5. QED
      BY <1>13, <3>1, <3>2, <3>3, <3>4
  <2>6. ASSUME NEW t \in 1 .. Len(streams), NEW i \in 1 .. Len(streams'[t])
        PROVE  /\ streams'[t][i].sess = sess
               /\ seqLast' < streams'[t][i].n /\ streams'[t][i].n <= pub
               /\ \A j \in 1 .. i - 1 : streams'[t][j].n < streams'[t][i].n
    <3>1. CASE t = s
      BY <2>2, <2>5, <2>6, <3>1
    <3>2. CASE t # s
      <4>1. t \in 1 .. Len(streams) - 1
        BY <1>3, <2>3, <3>2
      <4>2. QED
        BY <2>4, <2>6, <4>1
    <3>3. QED
      BY <3>1, <3>2
  <2>7. conn' \notin {"blocked", "dead", "lost"}
    BY <1>1, <1>2 DEF OneInv, InOrder, StreamsEmpty
  <2>8. seqLast' # NoSeq /\ sess' # 0
    BY <1>1, <1>4, <1>13 DEF NoSeq
  <2>9. \A t \in 1 .. Len(streams') : \A i \in 1 .. Len(streams'[t]) :
            /\ streams'[t][i].sess = sess'
            /\ seqLast' < streams'[t][i].n /\ streams'[t][i].n <= pub'
            /\ \A j \in 1 .. i - 1 : streams'[t][j].n < streams'[t][i].n
    <3>1. sess' = sess /\ pub' = pub /\ Len(streams') = Len(streams)
      BY <1>1, <2>2
    <3>2. QED
      BY <2>6, <3>1, Zenon
  <2>10. \A t \in 1 .. Len(streams') - 1 : streams'[t] = <<>>
    BY <2>2, <2>4
  <2>11. QED
    BY <2>7, <2>8, <2>9, <2>10 DEF InOrder
<1>15. \A i \in 1 .. Len(log) :
           /\ log[i].row.n \in Nat /\ log[i].row.n < r.n
           /\ log[i].row.sess = sess /\ log[i].row.n <= pub /\ log[i].day <= openDay
           /\ \A j \in 1 .. i - 1 : log[j].row.n < log[i].row.n /\ log[j].day <= log[i].day
  <2>1. TAKE i \in 1 .. Len(log)
  <2>2. log[i].row.n \in 1 .. MaxPub
    BY <1>9, LoggedFields
  <2>3. log[i].row.n <= seqLast
    BY <1>4 DEF OneInv, NumberRight, Covers
  <2>4. log[i].row.n < r.n
    BY <1>6, <1>7, <2>2, <2>3, SMTT(60)
  <2>5. QED
    BY <2>2, <2>4 DEF OneInv, LogInOrder
<1>16. LogInOrder' /\ Covers(seqLast)'
  <2>1. openDay <= today
    BY DEF OneInv, LogInOrder
  <2>2. CASE log' = log
    <3>1. \A i \in 1 .. Len(log) : log[i].row.n <= r.n
      <4>1. TAKE i \in 1 .. Len(log)
      <4>2. log[i].row.n \in Nat /\ log[i].row.n < r.n
        BY <1>15
      <4>3. QED
        BY <1>7, <4>2, SMTT(60)
    <3>2. QED
      BY <1>1, <1>13, <1>15, <2>1, <2>2, <3>1 DEF LogInOrder, Covers
  <2>3. CASE log' = Append(log, [row |-> r, day |-> openDay])
    <3> DEFINE N == Len(log)
    <3>1. /\ N \in Nat /\ Len(log') = N + 1
          /\ \A i \in 1 .. N : log'[i] = log[i]
          /\ log'[N + 1].row = r /\ log'[N + 1].day = openDay
      BY <1>2, <1>9, <2>3, LogAppend
    <3> HIDE DEF N
    <3>2. ASSUME NEW i \in 1 .. N + 1
          PROVE  /\ log'[i].row.sess = sess /\ log'[i].row.n <= pub /\ log'[i].row.n <= r.n
                 /\ log'[i].day <= openDay
                 /\ \A j \in 1 .. i - 1 :
                        log'[j].row.n < log'[i].row.n /\ log'[j].day <= log'[i].day
      <4>1. CASE i \in 1 .. N
        <5>1. log'[i] = log[i] /\ \A j \in 1 .. i - 1 : log'[j] = log[j]
          BY <3>1, <4>1
        <5>2. /\ log[i].row.n \in Nat /\ log[i].row.n < r.n
              /\ log[i].row.sess = sess /\ log[i].row.n <= pub /\ log[i].day <= openDay
              /\ \A j \in 1 .. i - 1 : log[j].row.n < log[i].row.n /\ log[j].day <= log[i].day
          BY <1>15, <4>1 DEF N
        <5>3. log[i].row.n <= r.n
          BY <1>7, <5>2, SMTT(60)
        <5>4. QED
          BY <5>1, <5>2, <5>3
      <4>2. CASE i = N + 1
        <5>1. \A j \in 1 .. N : log'[j].row.n < r.n /\ log'[j].day <= openDay
          BY <1>15, <3>1 DEF N
        <5>2. \A j \in 1 .. i - 1 : j \in 1 .. N
          BY <3>1, <4>2
        <5>3. r.n <= r.n /\ openDay <= openDay
          BY <1>3, <1>7, SMTT(60)
        <5>4. QED
          BY <1>4, <1>6, <3>1, <4>2, <5>1, <5>2, <5>3
      <4>3. QED
        BY <3>1, <3>2, <4>1, <4>2
    <3>3. QED
      BY <1>1, <1>13, <2>1, <3>1, <3>2 DEF LogInOrder, Covers
  <2>4. QED
    BY <1>7, <2>2, <2>3
<1>17. NumberRight'
  <2>1. Right(sessId, seqLast)'
    BY <1>1, <1>4, <1>8, <1>11, <1>13 DEF Right, OneInv, NumberRight, NoSeq
  <2>2. QED
    BY <1>16, <2>1 DEF NumberRight
<1>18. FileRight'
  <2>1. Right(sessFile.id, sessFile.last)'
    BY <1>1, <1>7, <1>11 DEF OneInv, FileRight, Right
  <2>2. CASE log' = log
    BY <1>1, <2>1, <2>2 DEF OneInv, FileRight, NothingToday, Covers
  <2>3. CASE log' = Append(log, [row |-> r, day |-> openDay])
    <3>1. Len(log') = Len(log) + 1 /\ log'[Len(log) + 1].day = openDay
      BY <1>2, <1>9, <2>3, LogAppend
    <3>2. Len(log) + 1 \in 1 .. Len(log') /\ log'[Len(log) + 1].day = openDay'
      BY <1>1, <1>3, <3>1
    <3>3. ~NothingToday'
      BY <3>2 DEF NothingToday
    <3>4. QED
      BY <2>1, <3>3 DEF FileRight
  <2>4. QED
    BY <1>7, <2>2, <2>3
<1>19. QED
  BY <1>8, <1>11, <1>12, <1>14, <1>16, <1>17, <1>18 DEF OneInv

\* The tickerplant ends, in order or killed.
LEMMA OneDownStep ==
    ASSUME TypedInv, OneInv, TpKilled \/ TpExit
    PROVE  OneInv'
<1>1. /\ UNCHANGED <<sess, pub, seqLast, sessId, log, today, openDay, missed, refused>>
      /\ streams' = [s \in DOMAIN streams |-> <<>>]
      /\ conn' = IF conn = "live" THEN "dead" ELSE conn
      /\ sessFile' = sessFile \/ sessFile' = [id |-> sessId, last |-> seqLast]
  BY DEF TpKilled, TpExit, TpDown, dayVars, countVars
<1>2. StreamsEmpty' /\ Len(streams') = Len(streams) /\ StreamsTyped'
  BY <1>1, StreamsCleared DEF TypedInv
<1>3. /\ faults'["fileLost"] = faults["fileLost"]
      /\ faults'["updFail"] = faults["updFail"]
  BY FaultStep DEF TpKilled, TpExit, TypedInv, FaultKinds
<1>4. EarlierSettled' = EarlierSettled /\ RefusedByFault' = RefusedByFault /\ FileKept' = FileKept
      /\ SettledRows' = SettledRows /\ NothingToday' = NothingToday
  BY <1>1, <1>3 DEF EarlierSettled, RefusedByFault, FileKept, SettledRows, LoggedRows, NothingToday
<1>5. InOrder'
  <2>1. sess' = 0 => streams' = <<>> /\ log' = <<>> /\ pub' = 0
    <3>1. ASSUME sess' = 0
          PROVE  streams' = <<>>
      <4>1. streams = <<>>
        BY <1>1, <3>1 DEF OneInv, InOrder
      <4>2. QED
        BY <1>1, <4>1
    <3>2. QED
      BY <1>1, <3>1 DEF OneInv, InOrder
  <2>2. \A s \in 1 .. Len(streams') : streams'[s] = <<>>
    BY <1>2 DEF StreamsEmpty
  <2>3. \A s \in 1 .. Len(streams') - 1 : s \in 1 .. Len(streams')
    BY <1>2, Numbers
  <2>4. \A s \in 1 .. Len(streams') : 1 .. Len(streams'[s]) = {}
    BY <2>2
  <2>5. QED
    BY <1>2, <2>1, <2>2, <2>3, <2>4 DEF InOrder
<1>6. LogInOrder'
  BY <1>1 DEF OneInv, LogInOrder
<1>7. NumberRight'
  BY <1>1, <1>4 DEF OneInv, NumberRight, Right, Covers
<1>8. FileRight'
  <2>1. CASE sessFile' = sessFile
    BY <1>1, <1>4, <2>1 DEF OneInv, FileRight, Right, Covers
  <2>2. CASE sessFile' = [id |-> sessId, last |-> seqLast]
    <3>1. sessFile'.id = sessId' /\ sessFile'.last = seqLast'
      BY <1>1, <2>2
    <3>2. QED
      BY <1>7, <3>1 DEF NumberRight, FileRight, Right, Covers
  <2>3. QED
    BY <1>1, <2>1, <2>2
<1>9. QED
  BY <1>4, <1>5, <1>6, <1>7, <1>8 DEF OneInv

\* The tickerplant starts: the last row of today's log is the last row of the
\* log, or the session file is right.
LEMMA OneStartStep ==
    ASSUME StartsNextDay = FALSE, TypedInv, OneInv, TpStart
    PROVE  OneInv'
<1>1. /\ UNCHANGED <<sess, pub, conn, streams, sessFile, log, today, countVars, faults>>
      /\ ~tpUp /\ sessId' = sessFile.id /\ seqLast' = RecoveredLast /\ openDay' = today
      /\ openDay = today \/ sessFile = [id |-> sessId, last |-> seqLast]
  BY DEF TpStart, fhVars
<1>2. StreamsEmpty
  BY <1>1 DEF TypedInv, Linked
<1>3. EarlierSettled' = EarlierSettled /\ RefusedByFault' = RefusedByFault /\ FileKept' = FileKept
      /\ SettledRows' = SettledRows
  BY <1>1 DEF EarlierSettled, RefusedByFault, FileKept, SettledRows, LoggedRows, countVars
<1>4. sess \in Nat /\ pub \in Nat /\ sessFile.last \in Int /\ sessFile.id \in Nat
      /\ today \in Nat /\ openDay \in Nat /\ Len(log) \in Nat /\ Len(streams) \in Nat /\ LogTyped
  BY Numbers DEF TypedInv
<1>5. /\ \A i \in 1 .. Len(log) : log[i].day \in Nat /\ log[i].row.n \in Nat \ {0}
      /\ \A i \in 1 .. Len(log) : log[i].row = [sess |-> log[i].row.sess, n |-> log[i].row.n]
  <2>1. \A i \in 1 .. Len(log) : log[i].day \in 0 .. MaxDay /\ log[i].row.n \in 1 .. MaxPub
    BY <1>4, LoggedFields
  <2>2. \A i \in 1 .. Len(log) : log[i].row = [sess |-> log[i].row.sess, n |-> log[i].row.n]
    BY <1>4, LoggedFields
  <2>3. QED
    BY <2>1, <2>2
<1>6. LogInOrder'
  <2>1. openDay <= today
    BY DEF OneInv, LogInOrder
  <2>2. \A i \in 1 .. Len(log) : log[i].day <= today
    <3>1. TAKE i \in 1 .. Len(log)
    <3>2. log[i].day <= openDay /\ log[i].day \in Nat
      BY <1>5 DEF OneInv, LogInOrder
    <3>3. QED
      BY <1>4, <2>1, <3>2
  <2>3. today <= today
    BY <1>4
  <2>4. QED
    BY <1>1, <2>2, <2>3 DEF OneInv, LogInOrder
<1>7. TodaysRows = {} => (sessFile.last # NoSeq => Covers(sessFile.last))
  <2>1. SUFFICES ASSUME TodaysRows = {}, sessFile.last # NoSeq
                 PROVE  Covers(sessFile.last)
    OBVIOUS
  <2>2. CASE openDay = today
    <3>1. NothingToday
      BY <2>1, <2>2 DEF TodaysRows, NothingToday
    <3>2. QED
      BY <2>1, <3>1 DEF OneInv, FileRight
  <2>3. CASE sessFile = [id |-> sessId, last |-> seqLast]
    <3>1. sessFile.last = seqLast
      BY <2>3
    <3>2. QED
      BY <2>1, <3>1 DEF OneInv, NumberRight
  <2>4. QED
    BY <1>1, <2>2, <2>3
<1>8. TodaysRows # {} =>
          /\ openDay = today
          /\ RecoveredLast \in Nat /\ RecoveredLast <= pub /\ Covers(RecoveredLast)
          /\ FileKept => \A k \in 1 .. RecoveredLast : [sess |-> sess, n |-> k] \in SettledRows
  <2>1. SUFFICES ASSUME TodaysRows # {}
                 PROVE  /\ openDay = today
                        /\ RecoveredLast \in Nat /\ RecoveredLast <= pub /\ Covers(RecoveredLast)
                        /\ FileKept => \A k \in 1 .. RecoveredLast :
                                           [sess |-> sess, n |-> k] \in SettledRows
    OBVIOUS
  <2>2. PICK i \in TodaysRows : (\A j \in TodaysRows : j <= i) /\ RecoveredLast = log[i].row.n
    BY <1>4, <2>1, RecoveredRow DEF LogTyped
  <2>3. i \in 1 .. Len(log) /\ log[i].day = today
    BY <2>2 DEF TodaysRows
  <2>4. /\ log[i].row.sess = sess /\ log[i].row.n <= pub /\ log[i].day <= openDay
        /\ openDay <= today
        /\ \A j \in 1 .. i - 1 : log[j].row.n < log[i].row.n
    BY <2>3 DEF OneInv, LogInOrder
  <2>5. openDay = today
    BY <1>4, <2>3, <2>4
  <2>6. \A j \in 1 .. Len(log) : j <= i
    <3>1. SUFFICES ASSUME NEW j \in 1 .. Len(log), j > i
                   PROVE  FALSE
      BY <1>4, <2>3
    <3>2. i \in 1 .. j - 1
      BY <1>4, <2>3, <3>1
    <3>3. log[i].day <= log[j].day /\ log[j].day <= openDay /\ log[j].day \in Nat
      BY <1>5, <3>2 DEF OneInv, LogInOrder
    <3>4. log[j].day = today
      BY <1>4, <2>3, <2>5, <3>3
    <3>5. j \in TodaysRows
      BY <3>4 DEF TodaysRows
    <3>6. j <= i
      BY <2>2, <3>5
    <3>7. QED
      BY <1>4, <2>3, <3>1, <3>6
  <2>7. Covers(log[i].row.n)
    <3>1. SUFFICES ASSUME NEW j \in 1 .. Len(log)
                   PROVE  log[j].row.n <= log[i].row.n
      BY DEF Covers
    <3>2. log[i].row.n \in Nat /\ log[j].row.n \in Nat
      BY <1>5, <2>3
    <3>3. j = i \/ j \in 1 .. i - 1
      BY <1>4, <2>3, <2>6
    <3>4. QED
      BY <2>4, <3>2, <3>3
  <2>8. ASSUME FileKept, NEW k \in 1 .. log[i].row.n
        PROVE  [sess |-> sess, n |-> k] \in SettledRows
    <3>1. CASE k = log[i].row.n
      <4>1. log[i].row = [sess |-> sess, n |-> k]
        BY <1>5, <2>3, <2>4, <3>1
      <4>2. QED
        BY <2>3, <4>1 DEF SettledRows, LoggedRows
    <3>2. CASE k # log[i].row.n
      <4>1. log[i].row.n \in Nat
        BY <1>5, <2>3
      <4>2. k \in 1 .. log[i].row.n - 1
        BY <2>8, <3>2, <4>1
      <4>3. QED
        BY <2>3, <2>4, <2>8, <4>2 DEF OneInv, EarlierSettled
    <3>3. QED
      BY <3>1, <3>2
  <2>9. log[i].row.n \in Nat
    BY <1>5, <2>3
  <2>10. QED
    BY <2>2, <2>4, <2>5, <2>7, <2>8, <2>9
<1>9. TodaysRows = {} => RecoveredLast = sessFile.last
  BY DEF RecoveredLast
<1>10. Right(sessFile.id, sessFile.last)
  BY DEF OneInv, FileRight
<1>11. NumberRight'
  <2>1. CASE TodaysRows = {}
    <3>1. seqLast' = sessFile.last /\ sessId' = sessFile.id
      BY <1>1, <1>9, <2>1
    <3>2. Right(sessId, seqLast)'
      BY <1>1, <1>3, <1>10, <3>1 DEF Right
    <3>3. seqLast' # NoSeq => Covers(seqLast)'
      BY <1>1, <1>7, <2>1, <3>1 DEF Covers
    <3>4. QED
      BY <3>2, <3>3 DEF NumberRight
  <2>2. CASE TodaysRows # {}
    <3>1. /\ seqLast' \in Nat /\ seqLast' <= pub /\ Covers(seqLast')
          /\ FileKept => \A k \in 1 .. seqLast' : [sess |-> sess, n |-> k] \in SettledRows
      BY <1>1, <1>8, <2>2
    <3>2. Right(sessId, seqLast)'
      BY <1>1, <1>3, <1>10, <3>1 DEF Right, NoSeq
    <3>3. Covers(seqLast)'
      BY <1>1, <3>1 DEF Covers
    <3>4. QED
      BY <3>2, <3>3 DEF NumberRight
  <2>3. QED
    BY <2>1, <2>2
<1>12. FileRight'
  <2>1. Right(sessFile.id, sessFile.last)'
    BY <1>1, <1>3, <1>10 DEF Right
  <2>2. NothingToday' => TodaysRows = {}
    BY <1>1 DEF NothingToday, TodaysRows
  <2>3. sessFile'.last # NoSeq /\ NothingToday' => Covers(sessFile.last)'
    BY <1>1, <1>7, <2>2 DEF Covers
  <2>4. QED
    BY <2>1, <2>3 DEF FileRight
<1>13. InOrder'
  <2>1. sess' = 0 => streams' = <<>> /\ log' = <<>> /\ pub' = 0
    BY <1>1 DEF OneInv, InOrder
  <2>2. \A s \in 1 .. Len(streams') : streams'[s] = <<>>
    BY <1>1, <1>2 DEF StreamsEmpty
  <2>3. \A s \in 1 .. Len(streams') - 1 : s \in 1 .. Len(streams')
    BY <1>1, <1>4
  <2>4. \A s \in 1 .. Len(streams') : 1 .. Len(streams'[s]) = {}
    BY <2>2
  <2>5. StreamsEmpty'
    BY <2>2 DEF StreamsEmpty
  <2>6. QED
    BY <2>1, <2>2, <2>3, <2>4, <2>5 DEF InOrder
<1>14. QED
  BY <1>3, <1>6, <1>11, <1>12, <1>13 DEF OneInv

\* Days pass, the session file is written and lost.
LEMMA OneFileStep ==
    ASSUME TypedInv, OneInv,
           Midnight \/ EndOfDay \/ SaveForOthers \/ LoseSessionFile \/ UNCHANGED vars
    PROVE  OneInv'
<1>1. UNCHANGED <<fhVars, streams, tpUp, seqLast, sessId, log, countVars>>
  BY DEF Midnight, EndOfDay, SaveForOthers, LoseSessionFile, vars, tpVars
<1>2. sess \in Nat /\ pub \in Nat /\ today \in Nat /\ openDay \in Nat
  BY Numbers
<1>3. /\ EarlierSettled' = EarlierSettled /\ SettledRows' = SettledRows
      /\ InOrder' = InOrder
  BY <1>1 DEF EarlierSettled, SettledRows, LoggedRows, InOrder, StreamsEmpty, countVars, fhVars
<1>4. LogInOrder'
  <2>1. openDay <= openDay' /\ openDay' <= today' /\ openDay' \in Nat
    <3>1. openDay <= today
      BY DEF OneInv, LogInOrder
    <3>2. QED
      BY <1>2, <3>1 DEF Midnight, EndOfDay, SaveForOthers, LoseSessionFile, vars, dayVars
  <2>2. \A i \in 1 .. Len(log) : log[i].day <= openDay'
    <3>1. TAKE i \in 1 .. Len(log)
    <3>2. log[i].day \in 0 .. MaxDay
      BY LoggedFields DEF TypedInv
    <3>3. log[i].day <= openDay
      BY DEF OneInv, LogInOrder
    <3>4. QED
      BY <1>2, <2>1, <3>2, <3>3
  <2>3. QED
    BY <1>1, <2>1, <2>2 DEF OneInv, LogInOrder, fhVars
<1>5. CASE LoseSessionFile
  <2>1. faults'["fileLost"] = faults["fileLost"] + 1 /\ faults["fileLost"] \in Nat
        /\ faults'["updFail"] = faults["updFail"]
    BY <1>5, FaultStep DEF LoseSessionFile, TypedInv, FaultsOK, FaultKinds
  <2>2. ~FileKept'
    BY <2>1 DEF FileKept
  <2>3. RefusedByFault'
    BY <1>1, <2>1 DEF OneInv, RefusedByFault, countVars
  <2>4. NumberRight'
    BY <1>1, <2>2 DEF OneInv, NumberRight, Right, Covers, fhVars
  <2>5. sessFile'.id = 0 /\ sessFile'.last = NoSeq
    BY <1>5 DEF LoseSessionFile, NoFile
  <2>6. FileRight'
    BY <1>1, <1>2, <2>2, <2>5 DEF FileRight, Right, NoSeq, fhVars
  <2>7. QED
    BY <1>3, <1>4, <2>2, <2>3, <2>4, <2>6 DEF OneInv
<1>6. CASE ~LoseSessionFile
  <2>1. faults' = faults
    BY <1>6 DEF Midnight, EndOfDay, SaveForOthers, vars
  <2>2. FileKept' = FileKept /\ RefusedByFault' = RefusedByFault
    BY <1>1, <2>1 DEF FileKept, RefusedByFault, countVars
  <2>3. NumberRight'
    BY <1>1, <1>3, <2>2 DEF OneInv, NumberRight, Right, Covers, fhVars
  <2>4. FileRight'
    <3>1. CASE EndOfDay \/ SaveForOthers
      <4>1. sessFile' = [id |-> sessId, last |-> seqLast]
        BY <3>1 DEF EndOfDay, SaveForOthers
      <4>2. sessFile'.id = sessId' /\ sessFile'.last = seqLast'
        BY <1>1, <4>1
      <4>3. QED
        BY <2>3, <4>2 DEF NumberRight, FileRight, Right, Covers
    <3>2. CASE Midnight \/ UNCHANGED vars
      <4>1. sessFile' = sessFile /\ openDay' = openDay
        BY <3>2 DEF Midnight, vars, tpVars, dayVars
      <4>2. QED
        BY <1>1, <1>3, <2>2, <4>1 DEF OneInv, FileRight, Right, Covers, NothingToday, fhVars
    <3>3. QED
      BY <1>6, <3>1, <3>2
  <2>5. QED
    BY <1>3, <1>4, <2>2, <2>3, <2>4 DEF OneInv
<1>7. QED
  BY <1>5, <1>6

\* Every step of a single handler whose connections the network does not
\* break.
LEMMA OneNext ==
    ASSUME StartsNextDay = FALSE, TypedInv, OneToNow, [Next]_vars
    PROVE  OneToNow'
<1>1. SUFFICES ASSUME OneHandler'
               PROVE  OneInv'
  BY DEF OneToNow
<1>2. sess \in Nat /\ sess <= sess'
  <2>1. sess \in Nat
    BY Numbers
  <2>2. sess' = sess \/ sess' = sess + 1
    BY DEF Next, vars, fhVars, FhStart, FhStop, PublishLive, PublishDead, EventFindsDead, Connect,
           ConnectLost, Drop, Upd, UpdFails, TpKilled, TpExit, TpDown, TpStart, Midnight,
           EndOfDay, SaveForOthers, LoseSessionFile
  <2>3. QED
    BY <2>1, <2>2
<1>3. faults'["drop"] = 0 /\ faults["drop"] \in Nat /\ faults["drop"] <= faults'["drop"]
  BY <1>1, FaultsGrow DEF OneHandler, FaultKinds
<1>4. OneHandler
  <2>1. sess' \in Nat /\ sess' <= 1
    BY <1>1, NextTyped DEF OneHandler, TypedInv, HandlerTyped
  <2>2. QED
    BY <1>2, <1>3, <2>1 DEF OneHandler
<1>5. OneInv
  BY <1>4 DEF OneToNow
<1>6. ~ConnectLost /\ ~Drop
  <2>1. ConnectLost \/ Drop => faults'["drop"] = faults["drop"] + 1
    BY FaultStep DEF ConnectLost, Drop, TypedInv, FaultKinds
  <2>2. QED
    BY <1>3, <2>1
<1>7. QED
  BY <1>1, <1>4, <1>5, <1>6, OneHandlerStep, OnePublishStep, OneConnectStep, OneUpdStep,
     OneDownStep, OneStartStep, OneFileStep DEF Next

\* The initial state of a single handler.
LEMMA InitOne == Init => OneToNow
<1>1. SUFFICES ASSUME Init
               PROVE  OneInv
  BY DEF OneToNow
<1>2. InOrder
  BY <1>1 DEF Init, InOrder, StreamsEmpty
<1>3. LogInOrder /\ EarlierSettled /\ RefusedByFault
  BY <1>1 DEF Init, LogInOrder, EarlierSettled, RefusedByFault
<1>4. NumberRight
  BY <1>1 DEF Init, NumberRight, Right, Covers, NoSeq
<1>5. FileRight
  BY <1>1 DEF Init, FileRight, Right, Covers, NoSeq, NoFile
<1>6. QED
  BY <1>2, <1>3, <1>4, <1>5 DEF OneInv

\* One handler, whose connections break only when the tickerplant ends: the
\* tickerplant may be killed or exit and be started again at any step, upd
\* may fail, the ring may overflow, days may pass while it is up.  Its reply
\* splits the handler's rows exactly unless the session file was lost, no row
\* is logged twice even then, and with the file kept and no failed upd no row
\* is lost unnoticed (tp_publisher.hpp:8-19, tp.q:469-471).
THEOREM SafeForOneHandler ==
    ASSUME StartsNextDay = FALSE
    PROVE  Spec => [](OneHandler =>
               /\ ReplyIsExact
               /\ DuplicatesCounted
               /\ Duplicates = {}
               /\ faults["updFail"] = 0 /\ faults["fileLost"] = 0 => NoSilentLoss)
<1> DEFINE Safe == OneHandler =>
                       /\ ReplyIsExact
                       /\ DuplicatesCounted
                       /\ Duplicates = {}
                       /\ faults["updFail"] = 0 /\ faults["fileLost"] = 0 => NoSilentLoss
<1>1. TypedInv /\ OneToNow /\ [Next]_vars => TypedInv' /\ OneToNow'
  BY NextTyped, OneNext
<1>2. Spec => [](TypedInv /\ OneToNow)
  BY <1>1, InitTyped, InitOne, PTL DEF Spec
<1>3. TypedInv /\ OneToNow => Safe
  <2>1. SUFFICES ASSUME TypedInv, OneToNow, OneHandler
                 PROVE  /\ ReplyIsExact
                        /\ DuplicatesCounted
                        /\ Duplicates = {}
                        /\ faults["updFail"] = 0 /\ faults["fileLost"] = 0 => NoSilentLoss
    OBVIOUS
  <2>2. OneInv /\ LogTyped /\ pub \in Nat /\ seqLast \in Int /\ outOfOrder \in Nat
    BY <2>1, Numbers DEF OneToNow, TypedInv, CountsTyped
  <2>3. ReplyIsExact
    <3>1. CASE sessId = sess /\ sess # 0 /\ FileKept
      <4>1. \A k \in 1 .. seqLast : [sess |-> sess, n |-> k] \in SettledRows
        BY <2>2, <3>1 DEF OneInv, NumberRight, Right
      <4>2. \A i \in 1 .. Len(log) : log[i].row.n <= seqLast
        BY <2>2, <3>1 DEF OneInv, NumberRight, Right, Covers
      <4>3. QED
        BY <2>2, <4>1, <4>2, SplitIsExact
    <3>2. CASE ~(sessId = sess /\ sess # 0 /\ FileKept)
      BY <3>2 DEF ReplyIsExact, FileKept
    <3>3. QED
      BY <3>1, <3>2
  <2>4. Duplicates = {}
    <3>1. ASSUME NEW j \in 1 .. Len(log), NEW i \in 1 .. j - 1, log[i].row = log[j].row
          PROVE  FALSE
      <4>1. log[j].row.n \in 1 .. MaxPub /\ log[i].row.n < log[j].row.n
        BY <2>2, LoggedFields DEF OneInv, LogInOrder
      <4>2. QED
        BY <3>1, <4>1
    <3>2. QED
      BY <3>1 DEF Duplicates
  <2>5. DuplicatesCounted
    BY <2>2, <2>4, FS_EmptySet DEF DuplicatesCounted
  <2>6. ASSUME faults["updFail"] = 0, FileKept
        PROVE  NoSilentLoss
    <3>1. SUFFICES ASSUME NEW i \in 1 .. Len(log), NEW k \in 1 .. log[i].row.n - 1
                   PROVE  Accounted([sess |-> log[i].row.sess, n |-> k])
      BY DEF NoSilentLoss
    <3>2. [sess |-> log[i].row.sess, n |-> k] \in SettledRows /\ refused = {}
      BY <2>2, <2>6 DEF OneInv, EarlierSettled, RefusedByFault
    <3>3. QED
      BY <3>2 DEF SettledRows, LoggedRows, Accounted, Logged
  <2>7. QED
    BY <2>3, <2>4, <2>5, <2>6 DEF FileKept
<1>4. QED
  BY <1>2, <1>3, PTL

-----------------------------------------------------------------------------
(* The three properties, each with all the histories it is proved for *)

\* TP's reply splits the rows of the handler it serves exactly, as long as TP
\* has not ended, or there was one handler and no connection broke by itself.
THEOREM ReplyExact ==
    ASSUME OldSessionLingers = FALSE, StartsNextDay = FALSE
    PROVE  Spec => [](NeverDown \/ OneHandler => ReplyIsExact)
BY SafeWhileUp, SafeForOneHandler, PTL

\* For the same histories a row that is logged twice was counted as out of
\* order.
THEOREM TwiceIsCounted ==
    ASSUME OldSessionLingers = FALSE, StartsNextDay = FALSE
    PROVE  Spec => [](NeverDown \/ OneHandler => DuplicatesCounted)
BY SafeWhileUp, SafeForOneHandler, PTL

\* For the same histories, if upd has not failed and in the second case the
\* session file was not lost, no row goes missing unnoticed.
THEOREM NothingLostSilently ==
    ASSUME OldSessionLingers = FALSE, StartsNextDay = FALSE
    PROVE  Spec => [](/\ faults["updFail"] = 0
                      /\ NeverDown \/ (OneHandler /\ faults["fileLost"] = 0)
                      => NoSilentLoss)
BY SafeWhileUp, SafeForOneHandler, PTL

=============================================================================
