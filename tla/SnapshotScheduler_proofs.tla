---------------------- MODULE SnapshotScheduler_proofs ----------------------
(***************************************************************************)
(* Proofs about SnapshotScheduler, for every budget, delay and number of   *)
(* symbols: the weight granted stays within the promise, and no request is *)
(* made during a pause or before the symbol's backoff is over.             *)
(***************************************************************************)
EXTENDS SnapshotScheduler, NatLemmas, TLAPS

-----------------------------------------------------------------------------
(* The constants *)

\* A full bucket pays for a request.
LEMMA BudgetFacts ==
    /\ Budget \in Nat /\ Cost \in Nat /\ Minute \in Nat
    /\ Budget * Minute \in Nat
    /\ Cost <= Budget * Minute
<1> USE SchedulerConstants
<1>1. WeightLimit \div BudgetShare \in Nat /\ WeightPerRequest \in Nat /\ Minute \in Nat
  OBVIOUS
<1>2. Budget \in Nat /\ Budget >= WeightPerRequest
  BY <1>1, MaxOfTwo DEF Budget
<1>3. \A a, b, m \in Nat : a >= b => a * m \in Nat /\ b * m \in Nat /\ b * m <= a * m
  OBVIOUS
<1>4. QED
  BY <1>1, <1>2, <1>3 DEF Cost

-----------------------------------------------------------------------------
(* Delays *)

\* The recursive definition of Delay has a solution.
LEMMA DelayDef ==
    Delay = [n \in Nat |-> IF n <= 1 THEN Min({InitialBackoff, MaxBackoff})
                                     ELSE Min({2 * Delay[n - 1], MaxBackoff})]
<1> DEFINE c == Min({InitialBackoff, MaxBackoff})
           h == [x \in Nat |-> Min({2 * x, MaxBackoff})]
           Eq(d) == d = [n \in Nat |-> IF n <= 1 THEN c ELSE Min({2 * d[n - 1], MaxBackoff})]
<1>1. c \in Nat /\ h \in [Nat -> Nat]
  BY SchedulerConstants, MinOfTwo
<1>2. PICK f \in [Nat -> Nat] : f[0] = c /\ \A n \in Nat : f[n + 1] = h[f[n]]
  <2> HIDE DEF c, h
  <2>1. \E f : Iterates(f, Nat, c, h)
    BY <1>1, Iteration
  <2>2. QED
    BY <2>1 DEF Iterates
<1> DEFINE d == [n \in Nat |-> IF n <= 1 THEN c ELSE f[n - 1]]
<1>3. ASSUME NEW n \in Nat
      PROVE  d[n] = IF n <= 1 THEN c ELSE Min({2 * d[n - 1], MaxBackoff})
  <2>1. CASE n <= 1
    BY <2>1
  <2>2. CASE n > 1
    <3>1. n - 2 \in Nat /\ n - 2 + 1 = n - 1 /\ n - 1 \in Nat
      BY <2>2
    <3>2. f[n - 1] = h[f[n - 2]]
      BY <1>2, <3>1
    <3>3. f[n - 2] = d[n - 1]
      <4>1. CASE n = 2
        BY <1>2, <3>1, <4>1
      <4>2. CASE n # 2
        BY <2>2, <3>1, <4>2
      <4>3. QED
        BY <4>1, <4>2
    <3>4. d[n] = f[n - 1]
      BY <2>2
    <3>5. f[n - 2] \in Nat
      BY <1>2, <3>1
    <3>6. h[f[n - 2]] = Min({2 * f[n - 2], MaxBackoff})
      BY <3>5
    <3>7. QED
      BY <2>2, <3>2, <3>3, <3>4, <3>6
  <2>3. QED
    BY <2>1, <2>2
<1>4. Eq(d)
  <2>1. d = [n \in Nat |-> d[n]]
    OBVIOUS
  <2>2. QED
    BY <1>3, <2>1
<1>5. \E g : Eq(g)
  BY <1>4
<1>6. Delay = CHOOSE g : Eq(g)
  BY DEF Delay
<1>7. Eq(Delay)
  <2> HIDE DEF Eq
  <2>1. QED
    BY <1>5, <1>6
<1>8. QED
  BY <1>7

\* And so has that of PowerOf2.
LEMMA PowerDef ==
    /\ PowerOf2 \in [Nat -> Nat]
    /\ PowerOf2[0] = 1
    /\ \A n \in Nat : PowerOf2[n + 1] = 2 * PowerOf2[n]
<1> DEFINE h == [x \in Nat |-> 2 * x]
           Eq(d) == d = [n \in Nat |-> IF n = 0 THEN 1 ELSE 2 * d[n - 1]]
<1>1. h \in [Nat -> Nat] /\ 1 \in Nat
  OBVIOUS
<1>2. PICK f \in [Nat -> Nat] : f[0] = 1 /\ \A n \in Nat : f[n + 1] = h[f[n]]
  <2> HIDE DEF h
  <2>1. \E f : Iterates(f, Nat, 1, h)
    BY <1>1, Iteration
  <2>2. QED
    BY <2>1 DEF Iterates
<1>3. ASSUME NEW n \in Nat
      PROVE  f[n] = IF n = 0 THEN 1 ELSE 2 * f[n - 1]
  <2>1. CASE n # 0
    <3>1. n - 1 \in Nat /\ n - 1 + 1 = n
      BY <2>1
    <3>2. f[n] = h[f[n - 1]] /\ f[n - 1] \in Nat
      BY <1>2, <3>1
    <3>3. QED
      BY <2>1, <3>2
  <2>2. QED
    BY <1>2, <2>1
<1>4. Eq(f)
  <2>1. f = [n \in Nat |-> f[n]]
    OBVIOUS
  <2>2. QED
    BY <1>3, <2>1
<1>5. \E g : Eq(g)
  BY <1>4
<1>6. PowerOf2 = CHOOSE g : Eq(g)
  BY DEF PowerOf2
<1>7. Eq(PowerOf2)
  <2> HIDE DEF Eq
  <2>1. QED
    BY <1>5, <1>6
<1>8. \A n \in Nat : PowerOf2[n] = IF n = 0 THEN 1 ELSE 2 * PowerOf2[n - 1]
  BY <1>7
<1>9. \A n \in Nat : PowerOf2[n + 1] = 2 * PowerOf2[n]
  <2>1. TAKE n \in Nat
  <2>2. n + 1 \in Nat /\ n + 1 # 0 /\ n + 1 - 1 = n
    OBVIOUS
  <2>3. QED
    BY <1>8, <2>2
<1>10. PowerOf2[0] = 1
  BY <1>8
<1>11. \A n \in Nat : PowerOf2[n] \in Nat
  <2> DEFINE T == {n \in Nat : PowerOf2[n] \in Nat}
  <2>1. 0 \in T
    BY <1>10
  <2>2. \A n \in Nat : n \in T => n + 1 \in T
    BY <1>9
  <2> HIDE DEF T
  <2>3. Nat \subseteq T
    BY <2>1, <2>2, SetInduction
  <2>4. QED
    BY <2>3 DEF T
<1>12. QED
  BY <1>7, <1>9, <1>10, <1>11

\* The loop that doubles and caps computes the promised power of two.
LEMMA DelayIsPromised ==
    ASSUME NEW n \in Nat, n > 0
    PROVE  Delay[n] \in Nat /\ Delay[n] <= MaxBackoff /\ Delay[n] = Promised(n)
<1> DEFINE Ok(m) == /\ Delay[m + 1] \in Nat /\ Delay[m + 1] <= MaxBackoff
                    /\ Delay[m + 1] = Min({InitialBackoff * PowerOf2[m], MaxBackoff})
           T == {m \in Nat : Ok(m)}
<1>0. InitialBackoff \in Nat /\ MaxBackoff \in Nat
  BY SchedulerConstants
<1>1. 0 \in T
  <2>1. Delay[1] = Min({InitialBackoff, MaxBackoff})
    BY DelayDef
  <2>2. InitialBackoff * PowerOf2[0] = InitialBackoff
    BY <1>0, PowerDef
  <2>3. QED
    BY <1>0, <2>1, <2>2, MinOfTwo
<1>2. ASSUME NEW m \in Nat, m \in T
      PROVE  m + 1 \in T
  <2>1. Delay[m + 1 + 1] = Min({2 * Delay[m + 1], MaxBackoff})
    <3>1. m + 1 + 1 \in Nat /\ ~ (m + 1 + 1 <= 1) /\ m + 1 + 1 - 1 = m + 1
      OBVIOUS
    <3>2. \A k \in Nat : Delay[k] = IF k <= 1 THEN Min({InitialBackoff, MaxBackoff})
                                              ELSE Min({2 * Delay[k - 1], MaxBackoff})
      BY DelayDef
    <3>3. QED
      BY <3>1, <3>2
  <2>2. PICK q \in Nat : q = InitialBackoff * PowerOf2[m]
    <3>1. \A a, b \in Nat : a * b \in Nat
      OBVIOUS
    <3>2. QED
      BY <1>0, <3>1, PowerDef
  <2>3. InitialBackoff * PowerOf2[m + 1] = 2 * q
    <3>1. \A a, b \in Nat : a * (2 * b) = 2 * (a * b)
      OBVIOUS
    <3>2. QED
      BY <1>0, <2>2, <3>1, PowerDef
  <2>4. Delay[m + 1] = IF q <= MaxBackoff THEN q ELSE MaxBackoff
    BY <1>0, <1>2, <2>2, MinOfTwo
  <2>5. /\ Min({2 * Delay[m + 1], MaxBackoff})
             = IF 2 * Delay[m + 1] <= MaxBackoff THEN 2 * Delay[m + 1] ELSE MaxBackoff
        /\ Min({2 * q, MaxBackoff}) = IF 2 * q <= MaxBackoff THEN 2 * q ELSE MaxBackoff
    BY <1>0, <2>4, MinOfTwo
  <2>6. QED
    BY <1>0, <2>1, <2>3, <2>4, <2>5
<1> HIDE DEF T
<1>3. n - 1 \in T
  BY <1>1, <1>2, SetInduction
<1>4. n - 1 + 1 = n
  OBVIOUS
<1>5. QED
  BY <1>3, <1>4 DEF T, Promised

-----------------------------------------------------------------------------
(* The inductive invariant *)

\* Grants are remembered oldest first.
OldestFirst ==
    \A i, j \in 1 .. Len(grants) : i <= j => grants[i] >= grants[j]

\* What was granted since a grant, and what a refill would leave in the bucket,
\* come from one full bucket and the refills since.
Ledger ==
    \A i \in 1 .. Len(grants) :
        (Len(grants) - i + 1) * Cost + Refilled <= Budget * Minute + Budget * grants[i]

\* Every pause the exchange asked for ends no later than ours.
PauseCovers == bans \subseteq 1 .. pause

\* What is left of a backoff and what has passed of it are together as long as
\* it was.
BackoffRuns ==
    \A s \in Symbols : failures[s] > 0 => backoff[s] + since[s] >= Delay[failures[s]]

SchedulerInv ==
    /\ TypeOK
    /\ BudgetKept
    /\ OldestFirst
    /\ Ledger
    /\ PauseCovers
    /\ BackoffRuns

\* The level a refill of t tokens after the time a leads to.
Level(t, a) == Min({Budget * Minute, t + Budget * a})

\* It is a natural and at most a full bucket.
LEMMA LevelFacts ==
    ASSUME NEW t \in Nat, NEW a \in Nat
    PROVE  /\ Level(t, a) \in Nat
           /\ Level(t, a) <= Budget * Minute
           /\ t + Budget * a \in Nat
           /\ Level(t, a) = IF Budget * Minute <= t + Budget * a
                              THEN Budget * Minute ELSE t + Budget * a
<1>1. \A b \in Nat : t + b * a \in Nat
  OBVIOUS
<1>2. t + Budget * a \in Nat
  BY <1>1, BudgetFacts
<1>3. Level(t, a) = IF Budget * Minute <= t + Budget * a THEN Budget * Minute ELSE t + Budget * a
  BY <1>2, BudgetFacts, MinOfTwo DEF Level
<1>4. QED
  BY <1>2, <1>3, BudgetFacts

\* The bucket and its clock are naturals.
LEMMA TokensTyped ==
    ASSUME TypeOK
    PROVE  tokens \in Nat /\ age \in Nat /\ Refilled \in Nat /\ Refilled <= Budget * Minute
<1>1. tokens \in Nat /\ age \in Nat
  BY BudgetFacts DEF TypeOK
<1>2. Refilled = Level(tokens, age)
  BY DEF Refilled, Level
<1>3. QED
  BY <1>1, <1>2, LevelFacts

\* Lengths and ages of the remembered grants.
LEMMA GrantsTyped ==
    ASSUME TypeOK
    PROVE  /\ Len(grants) \in Nat
           /\ \A i \in 1 .. Len(grants) : grants[i] \in Nat /\ grants[i] <= Minute
<1>1. grants \in Seq(0 .. Minute)
  BY DEF TypeOK
<1>2. Len(grants) \in Nat /\ \A i \in 1 .. Len(grants) : grants[i] \in 0 .. Minute
  <2> DEFINE S == 0 .. Minute
  <2>1. grants \in Seq(S)
    BY <1>1
  <2> HIDE DEF S
  <2>2. Len(grants) \in Nat /\ \A i \in 1 .. Len(grants) : grants[i] \in S
    BY <2>1
  <2>3. QED
    BY <2>2 DEF S
<1>3. QED
  BY <1>2, BudgetFacts

\* The invariant holds initially.
LEMMA InitSchedulerInv == Init => SchedulerInv
<1> SUFFICES ASSUME Init
             PROVE  SchedulerInv
  OBVIOUS
<1>1. grants = <<>> /\ Len(grants) = 0 /\ grants \in Seq(0 .. Minute)
  BY DEF Init
<1>2. TypeOK
  <2>1. tokens \in 0 .. Budget * Minute /\ age \in 0 .. Minute
    BY BudgetFacts, SchedulerConstants DEF Init
  <2>2. left \in [failures : Nat, uses : Nat]
    BY SchedulerConstants DEF Init
  <2>3. QED
    BY <1>1, <2>1, <2>2 DEF Init, TypeOK
<1>3. BudgetKept /\ OldestFirst /\ Ledger
  BY <1>1 DEF BudgetKept, OldestFirst, Ledger
<1>4. PauseCovers /\ BackoffRuns
  BY DEF Init, PauseCovers, BackoffRuns
<1>5. QED
  BY <1>2, <1>3, <1>4 DEF SchedulerInv

\* A grant pays from the refilled bucket and starts a new entry.
LEMMA GrantKeepsInv ==
    ASSUME SchedulerInv, NEW s \in Symbols, Grant(s)
    PROVE  SchedulerInv'
<1> DEFINE n == Len(grants)
<1>1. /\ n \in Nat
      /\ grants \in Seq(0 .. Minute)
      /\ \A i \in 1 .. n : grants[i] \in Nat /\ grants[i] <= Minute
  BY GrantsTyped DEF SchedulerInv, TypeOK
<1>2. /\ grants' = Append(grants, 0) /\ Len(grants') = n + 1
      /\ grants' \in Seq(0 .. Minute)
      /\ \A i \in 1 .. n : grants'[i] = grants[i]
      /\ grants'[n + 1] = 0
  BY <1>1, SchedulerConstants DEF Grant
<1>3. \A i \in 1 .. Len(grants') : i \in 1 .. n \/ i = n + 1
  BY <1>1, <1>2
<1>4. /\ Budget \in Nat /\ Cost \in Nat /\ Budget * Minute \in Nat
      /\ Refilled \in Nat /\ Refilled <= Budget * Minute /\ Refilled >= Cost
  BY BudgetFacts, TokensTyped DEF SchedulerInv, Grant, Allowed
<1>5. tokens' = Refilled - Cost /\ age' = 0 /\ tokens' \in 0 .. Budget * Minute
  BY <1>4 DEF Grant
<1>6. TypeOK'
  <2>1. age' \in 0 .. Minute
    BY <1>5, BudgetFacts
  <2>2. use' \in [Symbols -> {"none", "asks", "waits", "fetched"}]
    BY DEF Grant, SchedulerInv, TypeOK
  <2>3. QED
    BY <1>2, <1>5, <2>1, <2>2 DEF Grant, SchedulerInv, TypeOK
<1>7. OldestFirst'
  <2>1. SUFFICES ASSUME NEW i \in 1 .. Len(grants'), NEW j \in 1 .. Len(grants'), i <= j
                 PROVE  grants'[i] >= grants'[j]
    BY DEF OldestFirst
  <2>2. CASE j \in 1 .. n
    BY <1>1, <1>2, <1>3, <2>1, <2>2 DEF SchedulerInv, OldestFirst
  <2>3. CASE j = n + 1
    BY <1>1, <1>2, <1>3, <2>3
  <2>4. QED
    BY <1>3, <2>2, <2>3
<1>8. Refilled' = Refilled - Cost
  <2>1. Refilled' = Level(tokens', age')
    BY DEF Refilled, Level
  <2>2. tokens' \in Nat /\ age' \in Nat /\ tokens' + Budget * age' = Refilled - Cost
    BY <1>4, <1>5
  <2>3. Level(tokens', age') = IF Budget * Minute <= tokens' + Budget * age'
                                 THEN Budget * Minute ELSE tokens' + Budget * age'
    BY <2>2, LevelFacts
  <2>4. \A cap, r, c \in Nat : c <= r /\ r <= cap => (IF cap <= r - c THEN cap ELSE r - c) = r - c
    OBVIOUS
  <2>5. QED
    BY <1>4, <2>1, <2>2, <2>3, <2>4
<1>9. \A i \in 1 .. n :
        /\ (n + 1 - i + 1) * Cost = (n - i + 1) * Cost + Cost
        /\ (n - i + 1) * Cost \in Nat
        /\ Budget * grants[i] \in Nat
        /\ (n - i + 1) * Cost + Refilled <= Budget * Minute + Budget * grants[i]
  <2>1. \A k, c \in Nat : (k + 1) * c = k * c + c /\ k * c \in Nat
    OBVIOUS
  <2>2. TAKE i \in 1 .. n
  <2>3. n - i + 1 \in Nat /\ n + 1 - i + 1 = n - i + 1 + 1
    BY <1>1
  <2>4. (n - i + 1 + 1) * Cost = (n - i + 1) * Cost + Cost /\ (n - i + 1) * Cost \in Nat
    BY <1>4, <2>1, <2>3
  <2>5. Budget * grants[i] \in Nat
    BY <1>1, <1>4, <2>1
  <2>6. QED
    BY <2>3, <2>4, <2>5 DEF SchedulerInv, Ledger
<1>10. Ledger'
  <2>1. SUFFICES ASSUME NEW i \in 1 .. n + 1
                 PROVE  (n + 1 - i + 1) * Cost + (Refilled - Cost)
                          <= Budget * Minute + Budget * grants'[i]
    BY <1>2, <1>8 DEF Ledger
  <2>2. CASE i \in 1 .. n
    BY <1>2, <1>4, <1>9, <2>2
  <2>3. CASE i = n + 1
    <3>1. (n + 1 - i + 1) * Cost = Cost /\ Budget * grants'[i] = 0
      BY <1>1, <1>2, <1>4, <2>3
    <3>2. QED
      BY <1>4, <3>1
  <2>4. QED
    BY <1>2, <1>3, <2>2, <2>3
<1>11. BudgetKept'
  <2>1. SUFFICES ASSUME NEW i \in 1 .. n + 1, NEW j \in i .. n + 1
                 PROVE  (j - i + 1) * Cost
                          <= Budget * Minute + Budget * (grants'[i] - grants'[j])
    BY <1>2 DEF BudgetKept, Cost, Budget
  <2>2. CASE j \in 1 .. n
    <3>1. i \in 1 .. n /\ j \in i .. n
      BY <1>1, <2>2
    <3>2. (j - i + 1) * Cost <= Budget * Minute + Budget * (grants[i] - grants[j])
      BY <3>1 DEF SchedulerInv, BudgetKept
    <3>3. QED
      BY <1>2, <3>1, <3>2
  <2>3. CASE j = n + 1 /\ i \in 1 .. n
    <3>1. grants'[i] - grants'[j] = grants[i]
      BY <1>1, <1>2, <2>3
    <3>2. (j - i + 1) * Cost = (n - i + 1) * Cost + Cost
      BY <1>9, <2>3
    <3>3. QED
      BY <1>4, <1>9, <2>3, <3>1, <3>2, SMTT(60)
  <2>4. CASE j = n + 1 /\ i = n + 1
    <3>1. (j - i + 1) * Cost = Cost /\ Budget * (grants'[i] - grants'[j]) = 0
      BY <1>1, <1>2, <1>4, <2>4
    <3>2. QED
      BY <3>1, BudgetFacts
  <2>5. QED
    BY <1>1, <2>1, <2>2, <2>3, <2>4
<1>12. PauseCovers' /\ BackoffRuns'
  BY DEF Grant, SchedulerInv, PauseCovers, BackoffRuns
<1>13. QED
  BY <1>6, <1>7, <1>10, <1>11, <1>12 DEF SchedulerInv

\* A refusal only moves the refill's clock into the bucket.
LEMMA RefuseKeepsInv ==
    ASSUME SchedulerInv, NEW s \in Symbols, Refuse(s)
    PROVE  SchedulerInv'
<1>1. Refilled \in Nat /\ Refilled <= Budget * Minute /\ Budget * Minute \in Nat /\ Minute \in Nat
  BY BudgetFacts, TokensTyped DEF SchedulerInv
<1>2. /\ tokens' = Refilled /\ age' = 0
      /\ UNCHANGED <<pause, failures, backoff, use, grants, bans, since, left>>
  BY DEF Refuse, history
<1>3. TypeOK'
  BY <1>1, <1>2 DEF SchedulerInv, TypeOK
<1>4. Refilled' = Refilled
  <2>1. Refilled' = Level(tokens', age')
    BY DEF Refilled, Level
  <2>2. tokens' \in Nat /\ age' \in Nat /\ tokens' + Budget * age' = Refilled
    BY <1>1, <1>2, BudgetFacts
  <2>3. Level(tokens', age') = IF Budget * Minute <= tokens' + Budget * age'
                                 THEN Budget * Minute ELSE tokens' + Budget * age'
    BY <2>2, LevelFacts
  <2>4. QED
    BY <1>1, <2>1, <2>2, <2>3
<1>5. Ledger'
  BY <1>2, <1>4 DEF SchedulerInv, Ledger
<1>6. QED
  BY <1>2, <1>3, <1>5
     DEF SchedulerInv, BudgetKept, OldestFirst, PauseCovers, BackoffRuns

\* What an answer, a failure or a success leaves alone.
LEMMA BucketUntouched ==
    ASSUME SchedulerInv, UNCHANGED <<tokens, age, grants>>
    PROVE  BudgetKept' /\ OldestFirst' /\ Ledger'
BY DEF SchedulerInv, BudgetKept, OldestFirst, Ledger, Refilled

\* A longer pause covers what the shorter one did, and the one it was set for.
LEMMA PauseLonger ==
    ASSUME NEW p \in Nat, NEW q \in Nat, NEW m \in Nat \ {0}, NEW B, B \subseteq 1 .. p,
           q = Max({p, m})
    PROVE  B \cup {m} \subseteq 1 .. q /\ B \subseteq 1 .. q
<1>1. q >= p /\ q >= m
  BY MaxOfTwo
<1>2. QED
  BY <1>1

\* An answer is reported, with the used weight it shows.
LEMMA FetchOkKeepsInv ==
    ASSUME SchedulerInv, NEW s \in Symbols, NEW used \in {"low", "high"}, FetchOk(s, used)
    PROVE  SchedulerInv'
<1>1. UsedWeightPause \in Nat \ {0} /\ pause \in Nat
  BY SchedulerConstants DEF SchedulerInv, TypeOK
<1>2. pause' \in Nat /\ PauseCovers'
  <2>1. CASE used = "high"
    <3>1. pause' = Max({pause, UsedWeightPause}) /\ bans' = bans \cup {UsedWeightPause}
      BY <2>1 DEF FetchOk, UsedWeight
    <3>2. pause' \in Nat
      BY <1>1, <3>1, MaxOfTwo
    <3>3. bans \subseteq 1 .. pause
      BY DEF SchedulerInv, PauseCovers
    <3>4. bans \cup {UsedWeightPause} \subseteq 1 .. pause'
      BY <1>1, <3>1, <3>2, <3>3, PauseLonger
    <3>5. QED
      BY <3>1, <3>2, <3>4 DEF PauseCovers
  <2>2. CASE used = "low"
    BY <1>1, <2>2 DEF FetchOk, UsedWeight, SchedulerInv, PauseCovers
  <2>3. QED
    BY <2>1, <2>2
<1>3. TypeOK'
  <2>1. bans' \subseteq Nat
    BY <1>2 DEF PauseCovers
  <2>2. use' \in [Symbols -> {"none", "asks", "waits", "fetched"}]
    BY DEF FetchOk, Answered, SchedulerInv, TypeOK
  <2>3. QED
    BY <1>2, <2>1, <2>2 DEF FetchOk, SchedulerInv, TypeOK
<1>4. BackoffRuns'
  BY DEF FetchOk, SchedulerInv, BackoffRuns
<1>5. BudgetKept' /\ OldestFirst' /\ Ledger'
  BY BucketUntouched DEF FetchOk
<1>6. QED
  BY <1>2, <1>3, <1>4, <1>5 DEF SchedulerInv

\* A success ends the symbol's own backoff and nothing else.
LEMMA SyncedKeepsInv ==
    ASSUME SchedulerInv, NEW s \in Symbols, Synced(s)
    PROVE  SchedulerInv'
<1>1. TypeOK'
  <2>1. use' \in [Symbols -> {"none", "asks", "waits", "fetched"}]
    BY DEF Synced, Answered, SchedulerInv, TypeOK
  <2>2. failures' \in [Symbols -> Nat] /\ backoff' \in [Symbols -> Nat]
    BY DEF Synced, SchedulerInv, TypeOK
  <2>3. QED
    BY <2>1, <2>2 DEF Synced, history, SchedulerInv, TypeOK
<1>2. BackoffRuns'
  <2>1. SUFFICES ASSUME NEW u \in Symbols, failures'[u] > 0
                 PROVE  backoff'[u] + since'[u] >= Delay[failures'[u]]
    BY DEF BackoffRuns
  <2>2. u # s
    BY <2>1 DEF Synced, SchedulerInv, TypeOK
  <2>3. failures'[u] = failures[u] /\ backoff'[u] = backoff[u] /\ since' = since
    BY <2>2 DEF Synced, history, SchedulerInv, TypeOK
  <2>4. QED
    BY <2>1, <2>3 DEF SchedulerInv, BackoffRuns
<1>3. PauseCovers'
  BY DEF Synced, history, SchedulerInv, PauseCovers
<1>4. BudgetKept' /\ OldestFirst' /\ Ledger'
  BY BucketUntouched DEF Synced, history
<1>5. QED
  BY <1>1, <1>2, <1>3, <1>4 DEF SchedulerInv

\* A symbol that comes to need a request.
LEMMA NeedsKeepsInv ==
    ASSUME SchedulerInv, NEW s \in Symbols, Needs(s)
    PROVE  SchedulerInv'
<1>1. TypeOK'
  <2>1. use' \in [Symbols -> {"none", "asks", "waits", "fetched"}]
    BY DEF Needs, Answered, SchedulerInv, TypeOK
  <2>2. left' \in [failures : Nat, uses : Nat]
    <3>1. left \in [failures : Nat, uses : Nat] /\ left.uses > 0
      BY DEF Needs, SchedulerInv, TypeOK
    <3>2. left.uses - 1 \in Nat
      BY <3>1
    <3>3. left' = [left EXCEPT !.uses = left.uses - 1]
      BY DEF Needs
    <3>4. QED
      BY <3>1, <3>2, <3>3
  <2>3. QED
    BY <2>1, <2>2 DEF Needs, history, scheduler, SchedulerInv, TypeOK
<1>2. BackoffRuns' /\ PauseCovers'
  BY DEF Needs, history, scheduler, SchedulerInv, BackoffRuns, PauseCovers
<1>3. BudgetKept' /\ OldestFirst' /\ Ledger'
  BY BucketUntouched DEF Needs, history, scheduler
<1>4. QED
  BY <1>1, <1>2, <1>3 DEF SchedulerInv

\* A failure sets the symbol's backoff and, when the exchange says so, a pause.
LEMMA FailureKeepsInv ==
    ASSUME SchedulerInv, NEW s \in Symbols, NEW status \in {0, 429, 418},
           NEW retryAfter \in RetryAfters, NEW used \in {"low", "high"},
           NEW jitter \in Nat, Failure(s, status, retryAfter, used, jitter)
    PROVE  SchedulerInv'
<1> DEFINE limited == status \in {429, 418}
           ms == Max({Floor(status), retryAfter})
           B == bans \cup (IF limited THEN {ms} ELSE {})
           p == IF limited THEN Max({pause, ms}) ELSE pause
<1>1. /\ UsedWeightPause \in Nat \ {0} /\ pause \in Nat
      /\ Floor(status) \in Nat \ {0} /\ retryAfter \in Nat
  BY SchedulerConstants DEF SchedulerInv, TypeOK, Floor
<1>2. ms \in Nat \ {0}
  BY <1>1, MaxOfTwo
<1>3. p \in Nat /\ B \subseteq 1 .. p
  <2> HIDE DEF ms
  <2>1. Max({pause, ms}) \in Nat
    BY <1>1, <1>2, MaxOfTwo
  <2>2. CASE limited
    <3>1. bans \subseteq 1 .. pause
      BY DEF SchedulerInv, PauseCovers
    <3>2. bans \cup {ms} \subseteq 1 .. Max({pause, ms})
      BY <1>1, <1>2, <2>1, <3>1, PauseLonger
    <3>3. QED
      BY <2>1, <2>2, <3>2
  <2>3. CASE ~limited
    BY <1>1, <2>3 DEF SchedulerInv, PauseCovers
  <2>4. QED
    BY <2>2, <2>3
<1>4. /\ pause' = UsedWeight(used, p)
      /\ bans' = B \cup (IF used = "high" THEN {UsedWeightPause} ELSE {})
  BY DEF Failure, PauseAll
<1> HIDE DEF B, p, ms, limited
<1>5. pause' \in Nat /\ PauseCovers'
  <2>1. Max({p, UsedWeightPause}) \in Nat
    BY <1>1, <1>3, MaxOfTwo
  <2>2. CASE used = "high"
    <3>1. pause' = Max({p, UsedWeightPause}) /\ bans' = B \cup {UsedWeightPause}
      BY <1>4, <2>2 DEF UsedWeight
    <3>2. pause' \in Nat
      BY <2>1, <3>1
    <3>3. B \cup {UsedWeightPause} \subseteq 1 .. pause'
      <4>1. pause' >= p /\ pause' >= UsedWeightPause
        BY <1>1, <1>3, <3>1, MaxOfTwo
      <4>2. QED
        BY <1>1, <1>3, <3>2, <4>1
    <3>4. QED
      BY <3>1, <3>2, <3>3 DEF PauseCovers
  <2>3. CASE used = "low"
    BY <1>3, <1>4, <2>3 DEF UsedWeight, PauseCovers
  <2>4. QED
    BY <2>2, <2>3
<1>6. /\ failures[s] \in Nat /\ failures[s] + 1 > 0 /\ failures[s] + 1 \in Nat
      /\ Delay[failures[s] + 1] \in Nat
  <2>1. failures[s] \in Nat
    BY DEF SchedulerInv, TypeOK
  <2>2. QED
    BY <2>1, DelayIsPromised
<1>7. /\ failures' = [failures EXCEPT ![s] = failures[s] + 1]
      /\ backoff' = [backoff EXCEPT ![s] = Delay[failures[s] + 1] + jitter]
      /\ since' = [since EXCEPT ![s] = 0]
  BY DEF Failure
<1>8. TypeOK'
  <2>1. bans' \subseteq Nat
    BY <1>5 DEF PauseCovers
  <2>2. use' \in [Symbols -> {"none", "asks", "waits", "fetched"}]
    BY DEF Failure, Answered, SchedulerInv, TypeOK
  <2>3. failures' \in [Symbols -> Nat] /\ backoff' \in [Symbols -> Nat] /\ since' \in [Symbols -> Nat]
    BY <1>6, <1>7, SMTT(60) DEF SchedulerInv, TypeOK
  <2>4. left' \in [failures : Nat, uses : Nat]
    <3>1. left \in [failures : Nat, uses : Nat] /\ left.failures > 0
      BY DEF Failure, SchedulerInv, TypeOK
    <3>2. left.failures - 1 \in Nat
      BY <3>1
    <3>3. left' = [left EXCEPT !.failures = left.failures - 1]
      BY DEF Failure
    <3>4. QED
      BY <3>1, <3>2, <3>3
  <2>5. UNCHANGED <<tokens, age, grants>>
    BY DEF Failure
  <2>6. QED
    BY <1>5, <2>1, <2>2, <2>3, <2>4, <2>5 DEF SchedulerInv, TypeOK
<1>9. BackoffRuns'
  <2>1. SUFFICES ASSUME NEW u \in Symbols, failures'[u] > 0
                 PROVE  backoff'[u] + since'[u] >= Delay[failures'[u]]
    BY DEF BackoffRuns
  <2>2. CASE u = s
    <3>1. failures'[u] = failures[s] + 1 /\ backoff'[u] = Delay[failures[s] + 1] + jitter /\ since'[u] = 0
      BY <1>7, <2>2 DEF SchedulerInv, TypeOK
    <3>2. QED
      BY <1>6, <3>1
  <2>3. CASE u # s
    <3>1. failures'[u] = failures[u] /\ backoff'[u] = backoff[u] /\ since'[u] = since[u]
      BY <1>7, <2>3 DEF SchedulerInv, TypeOK
    <3>2. QED
      BY <2>1, <3>1 DEF SchedulerInv, BackoffRuns
  <2>4. QED
    BY <2>2, <2>3
<1>10. BudgetKept' /\ OldestFirst' /\ Ledger'
  BY BucketUntouched DEF Failure
<1>11. QED
  BY <1>5, <1>8, <1>9, <1>10 DEF SchedulerInv

\* Time: every grant gets older by one, and the bucket fills by at most Budget.
LEMMA TickKeepsInv ==
    ASSUME SchedulerInv, Tick
    PROVE  SchedulerInv'
<1>1. PICK n \in 0 .. Len(grants) :
        /\ \A i \in 1 .. Len(grants) : i <= n <=> grants[i] = Minute
        /\ grants' = [i \in 1 .. (Len(grants) - n) |-> grants[n + i] + 1]
  BY DEF Tick
<1> DEFINE m == Len(grants) - n
<1>2. /\ Len(grants) \in Nat /\ n \in Nat /\ m \in Nat
      /\ \A i \in 1 .. Len(grants) : grants[i] \in Nat /\ grants[i] <= Minute
  BY <1>1, GrantsTyped DEF SchedulerInv
<1>3. /\ Budget \in Nat /\ Cost \in Nat /\ Minute \in Nat /\ Budget * Minute \in Nat
      /\ tokens \in Nat /\ age \in Nat /\ Refilled \in Nat
  BY BudgetFacts, TokensTyped DEF SchedulerInv
<1>4. \A i \in 1 .. m : n + i \in 1 .. Len(grants) /\ grants[n + i] < Minute /\ grants'[i] = grants[n + i] + 1
  <2>1. TAKE i \in 1 .. m
  <2>2. n + i \in 1 .. Len(grants) /\ ~ (n + i <= n)
    BY <1>1, <1>2
  <2>3. grants[n + i] # Minute /\ grants[n + i] \in Nat /\ grants[n + i] <= Minute
    BY <1>1, <1>2, <2>2
  <2>4. QED
    BY <1>1, <1>3, <2>2, <2>3
<1>5. grants' \in Seq(0 .. Minute) /\ Len(grants') = m
  <2>1. \A i \in 1 .. m : grants'[i] \in 0 .. Minute
    BY <1>2, <1>3, <1>4
  <2>2. grants' \in [1 .. m -> 0 .. Minute]
    BY <1>1, <2>1
  <2> DEFINE S == 0 .. Minute
  <2>3. grants' \in [1 .. m -> S]
    BY <2>2
  <2> HIDE DEF S
  <2>4. grants' \in Seq(S) /\ Len(grants') = m
    BY <1>2, <2>3
  <2>5. QED
    BY <2>4 DEF S
<1>6. age' \in Nat /\ age' <= age + 1 /\ age' <= Minute
  BY <1>3, MinOfTwo, SMTT(60) DEF Tick
<1>7. TypeOK'
  <2>1. pause' \in Nat /\ backoff' \in [Symbols -> Nat]
    BY DEF Tick, Less, SchedulerInv, TypeOK
  <2>2. bans' \subseteq Nat
    <3>1. bans \subseteq 1 .. pause /\ bans' = {b - 1 : b \in bans} \ {0} /\ pause \in Nat
      BY DEF Tick, SchedulerInv, PauseCovers, TypeOK
    <3>2. QED
      BY <3>1
  <2>3. since' \in [Symbols -> Nat]
    <3>1. MaxBackoff \in Nat
      BY SchedulerConstants
    <3>2. \A x \in Nat : Min({x + 1, MaxBackoff}) \in Nat
      BY <3>1, MinOfTwo
    <3>3. \A u \in Symbols : since[u] \in Nat
      BY DEF SchedulerInv, TypeOK
    <3>4. QED
      BY <3>2, <3>3 DEF Tick
  <2>4. age' \in 0 .. Minute /\ tokens' \in 0 .. Budget * Minute
    BY <1>3, <1>6 DEF Tick, SchedulerInv, TypeOK
  <2>5. QED
    BY <1>5, <2>1, <2>2, <2>3, <2>4 DEF Tick, SchedulerInv, TypeOK
<1>8. OldestFirst'
  <2>1. SUFFICES ASSUME NEW i \in 1 .. m, NEW j \in 1 .. m, i <= j
                 PROVE  grants'[i] >= grants'[j]
    BY <1>5 DEF OldestFirst
  <2>2. grants[n + i] >= grants[n + j]
    BY <1>2, <1>4, <2>1 DEF SchedulerInv, OldestFirst
  <2>3. QED
    BY <1>2, <1>4, <2>2
<1>9. BudgetKept'
  <2>1. SUFFICES ASSUME NEW i \in 1 .. m, NEW j \in i .. m
                 PROVE  (j - i + 1) * Cost
                          <= Budget * Minute + Budget * (grants'[i] - grants'[j])
    BY <1>5 DEF BudgetKept, Cost, Budget
  <2>2. j \in 1 .. m /\ n + j \in (n + i) .. Len(grants) /\ (n + j) - (n + i) + 1 = j - i + 1
    BY <1>2
  <2>3. ((n + j) - (n + i) + 1) * Cost <= Budget * Minute + Budget * (grants[n + i] - grants[n + j])
    BY <1>4, <2>2 DEF SchedulerInv, BudgetKept
  <2>4. grants'[i] - grants'[j] = grants[n + i] - grants[n + j]
    BY <1>2, <1>4, <2>2, SMTT(60)
  <2>5. QED
    BY <2>2, <2>3, <2>4
<1>10. Refilled' \in Nat /\ Refilled' <= Refilled + Budget
  <2>1. Refilled = Level(tokens, age) /\ Refilled' = Level(tokens, age')
    BY DEF Refilled, Level, Tick
  <2>2. PICK x \in Nat : x = tokens + Budget * age
    BY <1>3, LevelFacts
  <2>3. PICK y \in Nat : y = tokens + Budget * age'
    BY <1>3, <1>6, LevelFacts
  <2>4. PICK cap \in Nat : cap = Budget * Minute
    BY <1>3
  <2>5. Refilled = (IF cap <= x THEN cap ELSE x) /\ Refilled' = (IF cap <= y THEN cap ELSE y)
    BY <1>3, <1>6, <2>1, <2>2, <2>3, <2>4, LevelFacts
  <2>6. y <= x + Budget
    <3>1. \A b, a, c \in Nat : c <= a + 1 => b * c <= b * a + b
      OBVIOUS
    <3>2. Budget * age' <= Budget * age + Budget
      BY <1>3, <1>6, <3>1
    <3>3. \A t, p, q, b \in Int : q <= p + b => t + q <= t + p + b
      OBVIOUS
    <3>4. Budget * age \in Int /\ Budget * age' \in Int
      BY <1>3, <1>6
    <3>5. QED
      BY <1>3, <2>2, <2>3, <3>2, <3>3, <3>4
  <2>7. QED
    BY <1>3, <2>5, <2>6
<1>11. Ledger'
  <2>1. SUFFICES ASSUME NEW i \in 1 .. m
                 PROVE  (m - i + 1) * Cost + Refilled' <= Budget * Minute + Budget * grants'[i]
    BY <1>5 DEF Ledger
  <2>2. (Len(grants) - (n + i) + 1) * Cost + Refilled <= Budget * Minute + Budget * grants[n + i]
    BY <1>4, <2>1 DEF SchedulerInv, Ledger
  <2>3. Len(grants) - (n + i) + 1 = m - i + 1 /\ m - i + 1 \in Nat
    BY <1>2
  <2>4. Budget * grants'[i] = Budget * grants[n + i] + Budget /\ Budget * grants[n + i] \in Nat
    <3>1. \A b, g \in Nat : b * (g + 1) = b * g + b /\ b * g \in Nat
      OBVIOUS
    <3>2. QED
      BY <1>2, <1>3, <1>4, <3>1
  <2>5. PICK w \in Nat : w = (m - i + 1) * Cost
    <3>1. \A a, b \in Nat : a * b \in Nat
      OBVIOUS
    <3>2. QED
      BY <1>3, <2>3, <3>1
  <2>6. w + Refilled <= Budget * Minute + Budget * grants[n + i]
    BY <2>2, <2>3, <2>5
  <2>7. \A r, s, b, c, g \in Nat : w + r <= c + g /\ s <= r + b => w + s <= c + (g + b)
    OBVIOUS
  <2>8. QED
    BY <1>3, <1>10, <2>4, <2>5, <2>6, <2>7
<1>12. PauseCovers'
  <2>1. bans \subseteq 1 .. pause /\ bans' = {b - 1 : b \in bans} \ {0} /\ pause \in Nat
        /\ pause' = IF pause = 0 THEN 0 ELSE pause - 1
    BY DEF Tick, Less, SchedulerInv, PauseCovers, TypeOK
  <2>2. QED
    BY <2>1 DEF PauseCovers
<1>13. BackoffRuns'
  <2>1. SUFFICES ASSUME NEW u \in Symbols, failures[u] > 0
                 PROVE  backoff'[u] + since'[u] >= Delay[failures[u]]
    BY DEF BackoffRuns, Tick
  <2>2. failures[u] \in Nat /\ backoff[u] \in Nat /\ since[u] \in Nat /\ MaxBackoff \in Nat
    BY SchedulerConstants DEF SchedulerInv, TypeOK
  <2>3. Delay[failures[u]] \in Nat /\ Delay[failures[u]] <= MaxBackoff
    BY <2>1, <2>2, DelayIsPromised
  <2>4. backoff[u] + since[u] >= Delay[failures[u]]
    BY <2>1 DEF SchedulerInv, BackoffRuns
  <2>5. backoff'[u] = IF backoff[u] = 0 THEN 0 ELSE backoff[u] - 1
    BY DEF Tick, Less
  <2>6. since'[u] = IF since[u] + 1 <= MaxBackoff THEN since[u] + 1 ELSE MaxBackoff
    <3>1. since'[u] = Min({since[u] + 1, MaxBackoff})
      BY DEF Tick
    <3>2. QED
      BY <2>2, <3>1, MinOfTwo
  <2>7. \A b, t, d, x \in Nat :
          d <= x /\ b + t >= d =>
            (IF b = 0 THEN 0 ELSE b - 1) + (IF t + 1 <= x THEN t + 1 ELSE x) >= d
    OBVIOUS
  <2>8. QED
    BY <2>2, <2>3, <2>4, <2>5, <2>6, <2>7
<1>14. QED
  BY <1>7, <1>8, <1>9, <1>11, <1>12, <1>13 DEF SchedulerInv

\* Every step preserves the invariant.
LEMMA NextSchedulerInv ==
    ASSUME SchedulerInv, [Next]_vars
    PROVE  SchedulerInv'
<1>1. ASSUME NEW s \in Symbols, Grant(s) \/ Refuse(s) \/ Needs(s) \/ Synced(s)
      PROVE  SchedulerInv'
  BY <1>1, GrantKeepsInv, RefuseKeepsInv, NeedsKeepsInv, SyncedKeepsInv
<1>2. ASSUME NEW s \in Symbols, NEW used \in {"low", "high"}, FetchOk(s, used)
      PROVE  SchedulerInv'
  BY <1>2, FetchOkKeepsInv
<1>3. ASSUME NEW s \in Symbols, NEW status \in {0, 429, 418}, NEW retryAfter \in RetryAfters,
             NEW used \in {"low", "high"}, NEW jitter \in 0 .. (MaxBackoff \div JitterShare),
             Failure(s, status, retryAfter, used, jitter)
      PROVE  SchedulerInv'
  <2>1. jitter \in Nat
    BY SchedulerConstants
  <2>2. QED
    BY <1>3, <2>1, FailureKeepsInv
<1>4. CASE Tick
  BY <1>4, TickKeepsInv
<1>5. CASE UNCHANGED vars
  <2>1. UNCHANGED <<tokens, age, grants, pause, failures, backoff, use, bans, since, left>>
    BY <1>5 DEF vars, scheduler, history
  <2>2. TypeOK' /\ PauseCovers' /\ BackoffRuns'
    BY <2>1 DEF SchedulerInv, TypeOK, PauseCovers, BackoffRuns
  <2>3. QED
    BY <2>1, <2>2, BucketUntouched DEF SchedulerInv
<1>6. QED
  BY <1>1, <1>2, <1>3, <1>4, <1>5 DEF Next

\* The inductive invariant holds in every reachable state.
THEOREM SchedulerSafe == Spec => []SchedulerInv
<1>1. SchedulerInv /\ [Next]_vars => SchedulerInv'
  BY NextSchedulerInv
<1>2. QED
  BY <1>1, InitSchedulerInv, PTL DEF Spec

\* The bucket is never overdrawn or above its size.
THEOREM SchedulerTyped == Spec => []TypeOK
<1>1. SchedulerInv => TypeOK
  BY DEF SchedulerInv
<1>2. QED
  BY <1>1, SchedulerSafe, PTL

\* In any stretch of up to a minute the weight granted is at most the budget for
\* that time plus one full bucket (snapshot_scheduler.hpp:12-16), for every
\* budget, weight and number of symbols.
THEOREM WeightWithinBudget == Spec => []BudgetKept
<1>1. SchedulerInv => BudgetKept
  BY DEF SchedulerInv
<1>2. QED
  BY <1>1, SchedulerSafe, PTL

\* No request is granted during a pause the exchange asked for or before 2^(n-1)
\* times the first delay, capped, has passed since the symbol's n-th failure in a
\* row: the loop of snapshot_scheduler.hpp that doubles and caps computes that.
THEOREM RequestsWait == Spec => NoEarlyRequest
<1> DEFINE Waited ==
        \A s \in Symbols :
            (use[s] = "asks" /\ use'[s] = "waits") =>
                /\ bans = {}
                /\ failures[s] > 0 => since[s] >= Promised(failures[s])
<1>1. ASSUME SchedulerInv, [Next]_vars
      PROVE  [Waited]_vars
  <2>1. SUFFICES ASSUME NEW s \in Symbols, use[s] = "asks", use'[s] = "waits"
                 PROVE  bans = {} /\ (failures[s] > 0 => since[s] >= Promised(failures[s]))
    OBVIOUS
  <2>2. use \in [Symbols -> {"none", "asks", "waits", "fetched"}]
    BY <1>1 DEF SchedulerInv, TypeOK
  <2>3. Grant(s)
    <3>1. use' # use
      BY <2>1
    <3>2. ASSUME NEW u \in Symbols, NEW then, use' = [use EXCEPT ![u] = then], then # "waits"
          PROVE  FALSE
      BY <2>1, <2>2, <3>2
    <3>3. ASSUME NEW u \in Symbols, Grant(u)
          PROVE  u = s
      BY <2>1, <2>2, <3>3 DEF Grant
    <3>4. ~ Tick /\ ~ UNCHANGED vars
      BY <3>1 DEF Tick, vars
    <3>5. PICK u \in Symbols :
            \/ Grant(u) \/ Refuse(u) \/ Needs(u) \/ Synced(u)
            \/ \E used \in {"low", "high"} : FetchOk(u, used)
            \/ \E status \in {0, 429, 418}, retryAfter \in RetryAfters,
                  used \in {"low", "high"}, jitter \in 0 .. (MaxBackoff \div JitterShare) :
                    Failure(u, status, retryAfter, used, jitter)
      BY <1>1, <3>4 DEF Next
    <3>6. ~ Refuse(u)
      BY <3>1 DEF Refuse
    <3>7. ~ Needs(u) /\ ~ Synced(u)
      BY <3>2 DEF Needs, Synced, Answered
    <3>8. \A used : ~ FetchOk(u, used)
      BY <3>2 DEF FetchOk, Answered
    <3>9. \A status, retryAfter, used, jitter : ~ Failure(u, status, retryAfter, used, jitter)
      BY <3>2, ZenonT(30) DEF Failure, Answered
    <3>10. QED
      BY <3>3, <3>5, <3>6, <3>7, <3>8, <3>9
  <2>4. bans = {}
    BY <1>1, <2>3 DEF Grant, Allowed, SchedulerInv, PauseCovers
  <2>5. ASSUME failures[s] > 0
        PROVE  since[s] >= Promised(failures[s])
    <3>1. failures[s] \in Nat /\ since[s] \in Nat /\ backoff[s] = 0
      BY <1>1, <2>3 DEF Grant, Allowed, SchedulerInv, TypeOK
    <3>2. backoff[s] + since[s] >= Delay[failures[s]]
      BY <1>1, <2>5 DEF SchedulerInv, BackoffRuns
    <3>3. QED
      BY <2>5, <3>1, <3>2, DelayIsPromised
  <2>6. QED
    BY <2>4, <2>5
<1>2. QED
  BY <1>1, SchedulerSafe, PTL DEF Spec, NoEarlyRequest

=============================================================================
