-------------------------- MODULE OrderBook_proofs --------------------------
(***************************************************************************)
(* What the order book's operators compute: the best prices of a set, a    *)
(* side that is exact inside its horizon, and its updates, for every set   *)
(* of prices and every limit.                                              *)
(***************************************************************************)
EXTENDS OrderBook, NatLemmas

-----------------------------------------------------------------------------
(* The best prices *)

\* A finite, non-empty set of naturals has a greatest element.
LEMMA GreatestOfFinite ==
    ASSUME NEW S, S \subseteq Nat, IsFiniteSet(S), S # {}
    PROVE  \E m \in S : \A n \in S : n <= m
<1> DEFINE pick == [s \in SUBSET S |-> CHOOSE x : x \in s]
           P == {s \in SUBSET S : \E b \in Nat : \A n \in s : n <= b}
<1>1. \A s \in SUBSET S : s # {} => pick[s] \in s
  OBVIOUS
<1>b. Picks(pick, S)
  BY <1>1 DEF Picks
<1>2. {} \in P
  OBVIOUS
<1>3. ASSUME NEW s \in SUBSET S, s # {}, s \ {pick[s]} \in P
      PROVE  s \in P
  <2>1. PICK b \in Nat : \A n \in s \ {pick[s]} : n <= b
    BY <1>3
  <2>2. pick[s] \in Nat
    BY <1>1, <1>3
  <2>3. \A n \in s : n \in Nat /\ n <= b + pick[s]
    <3> HIDE DEF pick
    <3>1. TAKE n \in s
    <3>2. n \in Nat
      OBVIOUS
    <3>3. CASE n = pick[s]
      BY <2>2, <3>3
    <3>4. CASE n # pick[s]
      <4>1. n <= b
        BY <2>1, <3>4
      <4>2. QED
        BY <2>2, <3>2, <4>1
    <3>5. QED
      BY <3>3, <3>4
  <2>4. b + pick[s] \in Nat
    <3> HIDE DEF pick
    <3>1. QED
      BY <2>2
  <2> HIDE DEF pick
  <2>5. QED
    BY <2>3, <2>4
<1> HIDE DEF pick, P
<1>a. Grows(P, pick, S)
  BY <1>2, <1>3 DEF Grows
<1>4. \A s \in SUBSET S : s \in P
  BY <1>a, <1>b, SubsetInduction
<1>5. PICK b \in Nat : \A n \in S : n <= b
  BY <1>4 DEF P
<1>6. QED
  BY <1>5, GreatestNatural

\* The best prices are some of the prices, and at least one.
LEMMA BestSome ==
    ASSUME NEW S, S \subseteq Nat, IsFiniteSet(S), NEW n \in Nat \ {0}
    PROVE  /\ Best(S, n) \subseteq S
           /\ IsFiniteSet(Best(S, n))
           /\ S # {} => Best(S, n) # {}
<1>1. Best(S, n) \subseteq S
  BY DEF Best
<1>2. IsFiniteSet(Best(S, n))
  BY <1>1, FS_Subset
<1>3. ASSUME S # {}
      PROVE  Best(S, n) # {}
  <2>1. PICK m \in S : \A p \in S : p <= m
    BY <1>3, GreatestOfFinite
  <2>b. ASSUME NEW q \in S
        PROVE  ~ (q > m)
    <3>1. q \in Nat /\ m \in Nat /\ q <= m
      BY <2>1
    <3>2. QED
      BY <3>1
  <2>2. {q \in S : q > m} = {}
    BY <2>b
  <2>a. Cardinality({q \in S : q > m}) = 0
    BY <2>2, FS_EmptySet
  <2>3. Cardinality({q \in S : q > m}) < n
    BY <2>a
  <2>4. QED
    BY <2>3 DEF Best
<1>4. QED
  BY <1>1, <1>2, <1>3

\* A price better than one of the best is one of the best.
LEMMA BestUpwards ==
    ASSUME NEW S, S \subseteq Nat, IsFiniteSet(S), NEW n \in Nat \ {0},
           NEW p \in Best(S, n), NEW q \in S, q >= p
    PROVE  q \in Best(S, n)
<1>1. p \in S /\ Cardinality({r \in S : r > p}) < n
  BY DEF Best
<1>2. {r \in S : r > q} \subseteq {r \in S : r > p}
  <2>1. ASSUME NEW r \in S, r > q
        PROVE  r > p
    <3>1. r \in Nat /\ q \in Nat /\ p \in Nat
      BY <1>1
    <3>2. QED
      BY <2>1, <3>1
  <2>2. QED
    BY <2>1
<1>3. IsFiniteSet({r \in S : r > p})
  BY FS_Subset
<1>4. /\ IsFiniteSet({r \in S : r > q})
      /\ Cardinality({r \in S : r > q}) <= Cardinality({r \in S : r > p})
  BY <1>2, <1>3, FS_Subset
<1>5. Cardinality({r \in S : r > q}) \in Nat /\ Cardinality({r \in S : r > p}) \in Nat
  BY <1>3, <1>4, FS_CardinalityType
<1>6. Cardinality({r \in S : r > q}) < n
  BY <1>1, <1>4, <1>5
<1>7. QED
  BY <1>6 DEF Best

\* The best prices are those from the worst of them on.
LEMMA BestFrom ==
    ASSUME NEW S, S \subseteq Nat, IsFiniteSet(S), NEW n \in Nat \ {0}, S # {}
    PROVE  /\ Min(Best(S, n)) \in S
           /\ Best(S, n) = {p \in S : p >= Min(Best(S, n))}
<1>1. Best(S, n) \subseteq S /\ Best(S, n) # {}
  BY BestSome
<1>2. Best(S, n) \subseteq Nat
  BY <1>1
<1>3. /\ Min(Best(S, n)) \in Best(S, n)
      /\ \A p \in Best(S, n) : Min(Best(S, n)) <= p
  BY <1>1, <1>2, MinOfSet
<1>4. ASSUME NEW p \in S, p >= Min(Best(S, n))
      PROVE  p \in Best(S, n)
  BY <1>3, <1>4, BestUpwards
<1>5. ASSUME NEW p \in Best(S, n)
      PROVE  p >= Min(Best(S, n))
  BY <1>2, <1>3
<1>6. QED
  BY <1>1, <1>3, <1>4, <1>5

\* Fewer than n best prices are all there are.
LEMMA BestShort ==
    ASSUME NEW S, S \subseteq Nat, IsFiniteSet(S), NEW n \in Nat \ {0},
           Cardinality(Best(S, n)) < n
    PROVE  Best(S, n) = S
<1> DEFINE Rest == S \ Best(S, n)
<1>1. Best(S, n) \subseteq S /\ IsFiniteSet(Best(S, n))
  BY BestSome
<1>2. SUFFICES ASSUME Rest # {}
               PROVE  FALSE
  BY <1>1
<1>3. Rest \subseteq Nat /\ IsFiniteSet(Rest)
  BY FS_Subset
<1>4. PICK m \in Rest : \A p \in Rest : p <= m
  BY <1>2, <1>3, GreatestOfFinite
<1> DEFINE Above == {q \in S : q > m}
<1>5. Above \subseteq Best(S, n)
  BY <1>3, <1>4
<1>6. IsFiniteSet(Above) /\ Cardinality(Above) <= Cardinality(Best(S, n))
  BY <1>1, <1>5, FS_Subset
<1>7. Cardinality(Above) \in Nat /\ Cardinality(Best(S, n)) \in Nat
  BY <1>1, <1>6, FS_CardinalityType
<1>8. ~ (Cardinality(Above) < n)
  BY <1>4 DEF Best
<1> HIDE DEF Above, Rest
<1>9. QED
  BY <1>6, <1>7, <1>8

\* When at least n prices are at or above h, the n best are among them.
LEMMA BestOfTop ==
    ASSUME NEW T, T \subseteq Nat, IsFiniteSet(T), NEW n \in Nat \ {0},
           NEW h \in Nat, NEW L, L = {p \in T : p >= h}, ~ (Cardinality(L) < n)
    PROVE  Best(L, n) = Best(T, n)
<1>1. L \subseteq T /\ IsFiniteSet(L)
  BY FS_Subset
<1>2. ASSUME NEW p \in L
      PROVE  p \in Best(L, n) <=> p \in Best(T, n)
  <2>1. {q \in L : q > p} = {q \in T : q > p}
    <3>1. ASSUME NEW q \in T, q > p
          PROVE  q \in L
      <4>1. q \in Nat /\ p \in Nat /\ p >= h
        OBVIOUS
      <4>2. q >= h
        BY <3>1, <4>1
      <4>3. QED
        BY <4>2
    <3>2. QED
      BY <1>1, <3>1
  <2>2. QED
    BY <1>1, <2>1 DEF Best
<1>3. ASSUME NEW p \in T, p \notin L
      PROVE  p \notin Best(T, n)
  <2> DEFINE Above == {q \in T : q > p}
  <2>1. L \subseteq Above
    <3>1. ASSUME NEW q \in L
          PROVE  q > p
      <4>1. q \in Nat /\ p \in Nat /\ q >= h /\ ~ (p >= h)
        BY <1>3
      <4>2. QED
        BY <4>1
    <3>2. QED
      BY <3>1
  <2>2. IsFiniteSet(Above)
    BY FS_Subset
  <2>3. Cardinality(L) <= Cardinality(Above)
    BY <2>1, <2>2, FS_Subset
  <2>4. Cardinality(L) \in Nat /\ Cardinality(Above) \in Nat
    BY <1>1, <2>2, FS_CardinalityType
  <2>5. ~ (Cardinality(Above) < n)
    <3> HIDE DEF Above
    <3>1. QED
      BY <2>3, <2>4
  <2>6. QED
    BY <2>5 DEF Best
<1>4. Best(L, n) \subseteq L /\ Best(T, n) \subseteq T
  BY DEF Best
<1>5. QED
  BY <1>1, <1>2, <1>3, <1>4

-----------------------------------------------------------------------------
(* A side *)

Sides == [levels : SUBSET Prices, horizon : Prices \cup {NoHorizon}]

\* The side is the exchange's side T from the horizon on; every price is
\* beyond NoHorizon.
Exact(s, T) == s.levels = {p \in T : p >= s.horizon}

\* The exchange's side after the changes of delta d.
After(T, d) == (T \ (d.gone \cup d.there)) \cup (d.there \ d.gone)

\* The prices of a side are finitely many naturals.
LEMMA FinitePrices ==
    ASSUME NEW S \in SUBSET Prices
    PROVE  S \subseteq Nat /\ IsFiniteSet(S) /\ Cardinality(S) \in Nat
<1>1. IsFiniteSet(S)
  BY BookAssumption, FS_Subset DEF BookAssumption
<1>2. QED
  BY <1>1, BookAssumption, FS_CardinalityType DEF BookAssumption

\* Trimming keeps a side a side.
LEMMA TrimTyped ==
    ASSUME NEW s \in Sides
    PROVE  Trim(s) \in Sides
<1>1. CASE Cardinality(s.levels) <= MaxLevels
  BY <1>1 DEF Trim
<1>2. CASE ~ (Cardinality(s.levels) <= MaxLevels)
  <2>1. s.levels \in SUBSET Prices /\ MaxLevels \in Nat \ {0}
    BY BookAssumption DEF Sides, BookAssumption
  <2>2. s.levels # {}
    <3>1. Cardinality({}) = 0
      BY FS_EmptySet
    <3>2. 0 <= MaxLevels
      BY <2>1
    <3>3. QED
      BY <1>2, <3>1, <3>2
  <2>3. s.levels \subseteq Nat /\ IsFiniteSet(s.levels)
    BY <2>1, FinitePrices
  <2>4. Min(Best(s.levels, MaxLevels)) \in s.levels
    BY <2>1, <2>2, <2>3, BestFrom
  <2>5. Best(s.levels, MaxLevels) \subseteq s.levels
    BY DEF Best
  <2>6. QED
    BY <1>2, <2>1, <2>4, <2>5 DEF Trim, Sides
<1>3. QED
  BY <1>1, <1>2

\* Trimming moves the horizon with the levels: an exact side stays exact.
LEMMA TrimExact ==
    ASSUME NEW s \in Sides, NEW T \in SUBSET Prices, Exact(s, T)
    PROVE  Exact(Trim(s), T)
<1>1. CASE Cardinality(s.levels) <= MaxLevels
  BY <1>1 DEF Trim
<1>2. CASE ~ (Cardinality(s.levels) <= MaxLevels)
  <2> DEFINE kept == Best(s.levels, MaxLevels)
             h == Min(kept)
  <2>1. s.levels \in SUBSET Prices /\ MaxLevels \in Nat \ {0}
    BY BookAssumption DEF Sides, BookAssumption
  <2>2. s.levels # {}
    <3>1. Cardinality({}) = 0
      BY FS_EmptySet
    <3>2. 0 <= MaxLevels
      BY <2>1
    <3>3. QED
      BY <1>2, <3>1, <3>2
  <2>3. s.levels \subseteq Nat /\ IsFiniteSet(s.levels)
    BY <2>1, FinitePrices
  <2>4. h \in s.levels /\ kept = {p \in s.levels : p >= h}
    BY <2>1, <2>2, <2>3, BestFrom
  <2>5. Trim(s) = [levels |-> kept, horizon |-> h]
    BY <1>2 DEF Trim
  <2> HIDE DEF kept, h
  <2>6. s.horizon \in Nat /\ T \subseteq Nat
    <3>1. s.horizon \in Prices \cup {0}
      BY DEF Sides, NoHorizon
    <3>2. Prices \subseteq Nat
      BY BookAssumption DEF BookAssumption
    <3>3. s.horizon \in Nat
      <4>1. CASE s.horizon \in Prices
        BY <3>2, <4>1, Zenon
      <4>2. CASE s.horizon = 0
        BY <4>2
      <4>3. QED
        BY <3>1, <4>1, <4>2
    <3>4. T \subseteq Nat
      BY <3>2
    <3>5. QED
      BY <3>3, <3>4
  <2>7. h \in Nat /\ h >= s.horizon
    BY <2>3, <2>4 DEF Exact
  <2>8. ASSUME NEW p \in T, p >= h
        PROVE  p \in s.levels
    <3>1. p \in Nat
      BY <2>6
    <3>2. p >= s.horizon
      BY <2>6, <2>7, <2>8, <3>1
    <3>3. QED
      BY <3>2 DEF Exact
  <2>9. s.levels \subseteq T
    BY DEF Exact
  <2>10. kept = {p \in T : p >= h}
    BY <2>4, <2>8, <2>9
  <2>11. QED
    BY <2>5, <2>10 DEF Exact
<1>3. QED
  BY <1>1, <1>2

\* One price of a delta keeps a side a side.
LEMMA UpdateTyped ==
    ASSUME NEW s \in Sides, NEW d, NEW p \in Prices
    PROVE  Update(s, d, p) \in Sides
<1>1. [s EXCEPT !.levels = @ \ {p}] \in Sides
  BY DEF Sides
<1>2. [s EXCEPT !.levels = @ \cup {p}] \in Sides
  BY DEF Sides
<1>3. Trim([s EXCEPT !.levels = @ \cup {p}]) \in Sides
  BY <1>2, TrimTyped
<1>4. QED
  BY <1>1, <1>3 DEF Update

\* One price of a delta takes a side that is exact for T to one that is
\* exact for T with that price changed.
LEMMA UpdateExact ==
    ASSUME NEW s \in Sides, NEW T \in SUBSET Prices, Exact(s, T), NEW d, NEW p \in Prices
    PROVE  Exact(Update(s, d, p), IF p \in d.gone THEN T \ {p} ELSE T \cup {p})
<1>1. CASE p \in d.gone
  <2>1. Update(s, d, p) = [s EXCEPT !.levels = @ \ {p}]
    BY <1>1 DEF Update
  <2>2. Update(s, d, p).levels = s.levels \ {p} /\ Update(s, d, p).horizon = s.horizon
    BY <2>1 DEF Sides
  <2>3. QED
    BY <1>1, <2>2 DEF Exact
<1>2. CASE p \notin d.gone /\ (p \in s.levels \/ ~ InHorizon(s, p))
  <2>1. Update(s, d, p) = s
    BY <1>2 DEF Update
  <2>2. {q \in T \cup {p} : q >= s.horizon} = {q \in T : q >= s.horizon}
    BY <1>2 DEF Exact, InHorizon
  <2>3. QED
    BY <1>2, <2>1, <2>2 DEF Exact
<1>3. CASE p \notin d.gone /\ ~ (p \in s.levels \/ ~ InHorizon(s, p))
  <2> DEFINE t == [s EXCEPT !.levels = @ \cup {p}]
  <2>1. t \in Sides /\ t.levels = s.levels \cup {p} /\ t.horizon = s.horizon
    BY DEF Sides
  <2>2. Update(s, d, p) = Trim(t)
    BY <1>3 DEF Update
  <2> HIDE DEF t
  <2>3. Exact(t, T \cup {p})
    BY <1>3, <2>1 DEF Exact, InHorizon
  <2>4. T \cup {p} \in SUBSET Prices
    OBVIOUS
  <2>5. Exact(Trim(t), T \cup {p})
    BY <2>1, <2>3, <2>4, TrimExact
  <2>6. QED
    BY <1>3, <2>2, <2>5
<1>4. QED
  BY <1>1, <1>2, <1>3

\* The sides that applyLevels goes through, by the set of prices that have
\* been taken.
LevelsFold(g, s, d, D) ==
    /\ g \in [SUBSET D -> Sides]
    /\ g[{}] = s
    /\ \A t \in SUBSET D : t # {} => /\ Min(t) \in t
                                     /\ g[t] = Update(g[t \ {Min(t)}], d, Min(t))
    /\ ApplyLevels(s, d) = g[D]

\* applyLevels is a fold.
LEMMA ApplyLevelsFold ==
    ASSUME NEW s \in Sides, NEW d, d.gone \in SUBSET Prices, d.there \in SUBSET Prices
    PROVE  \E g : LevelsFold(g, s, d, d.gone \cup d.there)
<1> SUFFICES ASSUME NEW D, D = d.gone \cup d.there, D \subseteq Prices
             PROVE  \E g : LevelsFold(g, s, d, D)
  OBVIOUS
<1> DEFINE pick == [t \in SUBSET D |-> Min(t)]
           h == [p \in D |-> [x \in Sides |-> Update(x, d, p)]]
           Is(g) == g = [t \in SUBSET D |->
                           IF t = {} THEN s ELSE Update(g[t \ {Min(t)}], d, Min(t))]
<1>1. IsFiniteSet(D) /\ D \subseteq Nat
  BY FinitePrices
<1>2. ASSUME NEW t \in SUBSET D, t # {}
      PROVE  Min(t) \in t
  BY <1>1, <1>2, MinOfSet
<1>3. Picks(pick, D)
  BY <1>2 DEF Picks
<1>4. h \in [D -> [Sides -> Sides]]
  BY UpdateTyped
<1>5. PICK g \in [SUBSET D -> Sides] : Folds(g, D, pick, s, h)
  <2> HIDE DEF pick, h
  <2>1. QED
    BY <1>1, <1>3, <1>4, FoldExists
<1>6. ASSUME NEW t \in SUBSET D, t # {}
      PROVE  g[t] = Update(g[t \ {Min(t)}], d, Min(t))
  <2>1. g[t] = h[pick[t]][g[t \ {pick[t]}]]
    <3> HIDE DEF pick, h
    <3>1. QED
      BY <1>5, <1>6 DEF Folds
  <2>2. pick[t] = Min(t) /\ Min(t) \in D /\ t \ {Min(t)} \in SUBSET D
    BY <1>2, <1>6
  <2>3. g[t \ {Min(t)}] \in Sides
    BY <2>2
  <2> HIDE DEF pick
  <2>4. QED
    BY <2>1, <2>2, <2>3
<1>7. g[{}] = s
  <2> HIDE DEF pick, h
  <2>1. QED
    BY <1>5 DEF Folds
<1>8. Is(g)
  BY <1>6, <1>7
<1>9. Is(CHOOSE f : Is(f))
  <2> HIDE DEF Is
  <2>1. QED
    BY <1>8
<1> DEFINE f == CHOOSE f : Is(f)
<1>10. ApplyLevels(s, d) = f[D]
  BY DEF ApplyLevels, MapThenFoldSet
<1>11. \A t \in SUBSET D : t \in {u \in SUBSET D : f[u] = g[u]}
  <2> DEFINE P == {u \in SUBSET D : f[u] = g[u]}
  <2> HIDE DEF f
  <2>1. {} \in P
    BY <1>7, <1>9 DEF f
  <2>2. ASSUME NEW t \in SUBSET D, t # {}, t \ {pick[t]} \in P
        PROVE  t \in P
    <3>1. f[t] = Update(f[t \ {Min(t)}], d, Min(t))
      BY <1>9, <2>2 DEF f
    <3>2. f[t \ {Min(t)}] = g[t \ {Min(t)}]
      BY <2>2
    <3>3. QED
      BY <1>6, <2>2, <3>1, <3>2
  <2>3. Grows(P, pick, D)
    <3> HIDE DEF pick, P
    <3>1. QED
      BY <2>1, <2>2 DEF Grows
  <2>6. IsFiniteSet(D)
    BY <1>1
  <2> HIDE DEF pick, P, h, Is
  <2>4. \A t \in SUBSET D : t \in P
    BY <2>6, <1>3, <2>3, SubsetInduction
  <2>5. QED
    BY <2>4 DEF P
<1>12. f[D] = g[D]
  <2> HIDE DEF f
  <2>1. QED
    BY <1>11
<1>13. QED
  <2> HIDE DEF f
  <2>1. ApplyLevels(s, d) = g[D]
    BY <1>10, <1>12
  <2>2. LevelsFold(g, s, d, D)
    BY <1>2, <1>6, <1>7, <2>1 DEF LevelsFold
  <2>3. QED
    BY <2>2

\* A delta keeps a side a side.
LEMMA ApplyLevelsTyped ==
    ASSUME NEW s \in Sides, NEW d, d.gone \in SUBSET Prices, d.there \in SUBSET Prices
    PROVE  ApplyLevels(s, d) \in Sides
<1> DEFINE D == d.gone \cup d.there
<1>1. D \subseteq Prices /\ D \in SUBSET D
  OBVIOUS
<1> HIDE DEF D
<1>2. PICK g : LevelsFold(g, s, d, D)
  BY ApplyLevelsFold DEF D
<1>3. QED
  BY <1>1, <1>2 DEF LevelsFold

\* A delta takes a side that is exact for T to one that is exact for the
\* exchange's side after it, whatever it trims on the way.
LEMMA ApplyLevelsExact ==
    ASSUME NEW s \in Sides, NEW T \in SUBSET Prices, Exact(s, T),
           NEW d, d.gone \in SUBSET Prices, d.there \in SUBSET Prices
    PROVE  Exact(ApplyLevels(s, d), After(T, d))
<1> DEFINE D == d.gone \cup d.there
           Now(t) == (T \ t) \cup (t \ d.gone)
<1>1. D \subseteq Prices /\ D \in SUBSET D
  OBVIOUS
<1>a. PICK g : LevelsFold(g, s, d, D)
  BY ApplyLevelsFold
<1>2. /\ g \in [SUBSET D -> Sides]
      /\ g[{}] = s
      /\ \A t \in SUBSET D : t # {} => /\ Min(t) \in t
                                       /\ g[t] = Update(g[t \ {Min(t)}], d, Min(t))
      /\ ApplyLevels(s, d) = g[D]
  BY <1>a DEF LevelsFold
<1> DEFINE pick == [t \in SUBSET D |-> Min(t)]
           P == {t \in SUBSET D : Exact(g[t], Now(t))}
<1>3. Picks(pick, D)
  BY <1>2 DEF Picks
<1>4. {} \in P
  <2>1. Now({}) = T
    OBVIOUS
  <2> HIDE DEF Now
  <2>2. QED
    BY <1>2, <2>1
<1>5. ASSUME NEW t \in SUBSET D, t # {}, t \ {pick[t]} \in P
      PROVE  t \in P
  <2> DEFINE p == Min(t)
             r == t \ {p}
  <2>1. p \in t /\ g[t] = Update(g[r], d, p)
    BY <1>2, <1>5
  <2>2. r \in SUBSET D /\ p \in Prices /\ p \notin r /\ t = r \cup {p}
    BY <1>1, <2>1
  <2>3. Exact(g[r], Now(r))
    BY <1>5
  <2> HIDE DEF p, r, D
  <2>4. g[r] \in Sides
    BY <1>2, <2>2
  <2>5. Now(r) \in SUBSET Prices
    BY <1>1, <2>2
  <2>6. Exact(g[t], IF p \in d.gone THEN Now(r) \ {p} ELSE Now(r) \cup {p})
    <3> DEFINE x == g[r]
               N == Now(r)
    <3>1. x \in Sides /\ N \in SUBSET Prices /\ Exact(x, N) /\ p \in Prices
      BY <2>2, <2>3, <2>4, <2>5
    <3>2. g[t] = Update(x, d, p)
      BY <2>1
    <3> HIDE DEF x, N
    <3>3. Exact(Update(x, d, p), IF p \in d.gone THEN N \ {p} ELSE N \cup {p})
      BY <3>1, UpdateExact
    <3>4. Exact(g[t], IF p \in d.gone THEN N \ {p} ELSE N \cup {p})
      BY <3>2, <3>3
    <3>5. QED
      BY <3>4 DEF N
  <2>7. Now(t) = IF p \in d.gone THEN Now(r) \ {p} ELSE Now(r) \cup {p}
    BY <2>2
  <2> HIDE DEF Now
  <2>8. QED
    BY <2>6, <2>7
<1>6. Grows(P, pick, D)
  <2> HIDE DEF pick, P, D
  <2>1. QED
    BY <1>4, <1>5 DEF Grows
<1>7. IsFiniteSet(D)
  BY <1>1, FinitePrices
<1>8. D \in P
  <2> HIDE DEF pick, P, D, Now
  <2>1. \A t \in SUBSET D : t \in P
    BY <1>3, <1>6, <1>7, SubsetInduction
  <2>2. QED
    BY <1>1, <2>1
<1>9. Exact(g[D], Now(D))
  <2> HIDE DEF D, Now
  <2>1. QED
    BY <1>8
<1>10. Now(D) = After(T, d)
  BY DEF After
<1> HIDE DEF D, Now
<1>11. QED
  BY <1>2, <1>9, <1>10

\* A snapshot is a side.
LEMMA LoadTyped ==
    ASSUME NEW snap, snap.levels \in SUBSET Prices
    PROVE  Load(snap) \in Sides
<1> DEFINE L == snap.levels
           h == IF Cardinality(L) >= SnapshotLimit THEN Min(L) ELSE NoHorizon
<1>1. L \subseteq Nat /\ IsFiniteSet(L)
  BY FinitePrices
<1>2. h \in Prices \cup {NoHorizon}
  <2>1. CASE Cardinality(L) >= SnapshotLimit
    <3>1. L # {}
      <4>1. Cardinality({}) = 0 /\ ~ (0 >= SnapshotLimit)
        BY FS_EmptySet, BookAssumption DEF BookAssumption
      <4>2. QED
        BY <2>1, <4>1
    <3>2. Min(L) \in L
      BY <1>1, <3>1, MinOfSet
    <3>3. QED
      BY <2>1, <3>2
  <2>2. CASE ~ (Cardinality(L) >= SnapshotLimit)
    BY <2>2
  <2>3. QED
    BY <2>1, <2>2
<1>3. [levels |-> L, horizon |-> h] \in Sides
  <2> HIDE DEF h
  <2>1. QED
    BY <1>2 DEF Sides
<1>4. Load(snap) = Trim([levels |-> L, horizon |-> h])
  BY DEF Load
<1> HIDE DEF L, h
<1>5. QED
  BY <1>3, <1>4, TrimTyped

\* A snapshot with all the levels the exchange answers with is exact: when
\* it is too short to be truncated it is the whole side.
LEMMA LoadExact ==
    ASSUME NEW T \in SUBSET Prices, NEW snap, snap.levels = Best(T, SnapshotLimit)
    PROVE  Load(snap) \in Sides /\ Exact(Load(snap), T)
<1> DEFINE L == snap.levels
           h == IF Cardinality(L) >= SnapshotLimit THEN Min(L) ELSE NoHorizon
           s == [levels |-> L, horizon |-> h]
<1>1. SnapshotLimit \in Nat \ {0}
  BY BookAssumption DEF BookAssumption
<1>2. T \subseteq Nat /\ IsFiniteSet(T)
  BY FinitePrices
<1>3. L \subseteq T /\ L \in SUBSET Prices
  BY <1>1, <1>2, BestSome
<1>4. Cardinality(L) \in Nat
  BY <1>3, FinitePrices
<1>5. L = {p \in T : p >= h}
  <2>1. CASE Cardinality(L) >= SnapshotLimit
    <3>1. T # {}
      <4>1. Cardinality({}) = 0 /\ ~ (0 >= SnapshotLimit)
        <5>1. Cardinality({}) = 0
          BY FS_EmptySet
        <5>2. QED
          BY <1>1, <5>1
      <4>2. L # {}
        BY <2>1, <4>1
      <4>3. QED
        BY <1>3, <4>2
    <3>2. Best(T, SnapshotLimit) = {p \in T : p >= Min(Best(T, SnapshotLimit))}
      BY <1>1, <1>2, <3>1, BestFrom
    <3>3. QED
      BY <2>1, <3>2
  <2>2. CASE ~ (Cardinality(L) >= SnapshotLimit)
    <3>1. Cardinality(Best(T, SnapshotLimit)) < SnapshotLimit
      BY <1>1, <1>4, <2>2
    <3>2. L = T
      BY <1>1, <1>2, <3>1, BestShort
    <3>3. \A p \in T : p >= 0
      BY <1>2
    <3>4. QED
      BY <2>2, <3>2, <3>3 DEF NoHorizon
  <2>3. QED
    BY <2>1, <2>2
<1>6. h \in Prices \cup {NoHorizon}
  <2>1. CASE Cardinality(L) >= SnapshotLimit
    <3>1. L # {}
      <4>1. Cardinality({}) = 0 /\ ~ (0 >= SnapshotLimit)
        <5>1. Cardinality({}) = 0
          BY FS_EmptySet
        <5>2. QED
          BY <1>1, <5>1
      <4>2. QED
        BY <2>1, <4>1
    <3>2. L \subseteq Nat
      BY <1>2, <1>3
    <3>3. Min(L) \in L
      BY <3>1, <3>2, MinOfSet
    <3>4. QED
      BY <1>3, <2>1, <3>3
  <2>2. CASE ~ (Cardinality(L) >= SnapshotLimit)
    BY <2>2
  <2>3. QED
    BY <2>1, <2>2
<1>7. Load(snap) = Trim(s)
  BY DEF Load
<1> HIDE DEF L, h
<1>8. s \in Sides
  BY <1>3, <1>6 DEF Sides
<1>9. Exact(s, T)
  BY <1>5 DEF Exact
<1> HIDE DEF s
<1>10. QED
  BY <1>7, <1>8, <1>9, TrimTyped, TrimExact

\* The quote of an exact side that has not run out shows the exchange's best
\* Depth levels.
LEMMA TopExact ==
    ASSUME NEW s \in Sides, NEW T \in SUBSET Prices, Exact(s, T), ~ Below(s, Depth)
    PROVE  Best(s.levels, Depth) = Best(T, Depth)
<1>1. Depth \in Nat \ {0}
  BY BookAssumption DEF BookAssumption
<1>2. T \subseteq Nat /\ IsFiniteSet(T)
  BY FinitePrices
<1>3. CASE s.horizon = NoHorizon
  <2>1. \A p \in T : p >= s.horizon
    BY <1>2, <1>3 DEF NoHorizon
  <2>2. s.levels = T
    BY <2>1 DEF Exact
  <2>3. QED
    BY <2>2
<1>4. CASE s.horizon # NoHorizon
  <2>1. s.horizon \in Nat
    <3>1. s.horizon \in Prices
      BY <1>4 DEF Sides
    <3>2. Prices \subseteq Nat
      BY BookAssumption DEF BookAssumption
    <3>3. QED
      BY <3>1, <3>2, Zenon
  <2>2. ~ (Cardinality(s.levels) < Depth)
    BY <1>4 DEF Below
  <2>3. s.levels = {p \in T : p >= s.horizon}
    BY DEF Exact
  <2>4. QED
    BY <1>1, <1>2, <2>1, <2>2, <2>3, BestOfTop
<1>5. QED
  BY <1>3, <1>4

-----------------------------------------------------------------------------
(* Sequencing *)

\* checkSequence accepts an event only when it starts at or before the update
\* after the book's and ends at or after the book's; for futures in sequence,
\* only the very next event.
LEMMA CheckSequenceApplies ==
    ASSUME NEW q, NEW d, NEW at \in Nat, at = IF q.needBridge THEN q.snapshotId ELSE q.lastId,
           d.U \in Nat, d.u \in Nat, CheckSequence(q, d) = "apply"
    PROVE  /\ Sync = "futures" => d.pu = at \/ (q.needBridge /\ d.U <= at /\ at <= d.u)
           /\ Sync = "spot" => d.U <= at + 1 /\ at <= d.u
<1>1. CASE Sync = "futures"
  BY <1>1 DEF CheckSequence
<1>2. CASE Sync = "spot"
  BY <1>2 DEF CheckSequence
<1>3. QED
  BY <1>1, <1>2, BookAssumption DEF BookAssumption

=============================================================================
