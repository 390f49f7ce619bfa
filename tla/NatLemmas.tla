----------------------------- MODULE NatLemmas ------------------------------
(***************************************************************************)
(* Facts that the proofs of several modules share: least and greatest      *)
(* naturals, Max and Min of two numbers, induction without an operator     *)
(* parameter, iteration of a function, folds, and sequences of a type.     *)
(***************************************************************************)
EXTENDS Integers, Sequences, FiniteSets, FiniteSetsExt, TLAPS, WellFoundedInduction, FiniteSetTheorems

-----------------------------------------------------------------------------
(* Least and greatest *)

\* A non-empty set of naturals has a least element.
LEMMA LeastNatural ==
    ASSUME NEW T, T \subseteq Nat, T # {}
    PROVE  \E x \in T : \A y \in T : x <= y
<1>1. \E x \in T : \A y \in T : ~ (<<y, x>> \in OpToRel(<, Nat))
  BY NatLessThanWellFounded, WFMin
<1>2. PICK x \in T : \A y \in T : ~ (<<y, x>> \in OpToRel(<, Nat))
  BY <1>1
<1>3. \A y \in T : ~ (y < x)
  BY <1>2 DEF OpToRel
<1>4. QED
  BY <1>3

\* A bounded, non-empty set of naturals has a greatest element.
LEMMA GreatestNatural ==
    ASSUME NEW S, S \subseteq Nat, S # {}, NEW b \in Nat, \A n \in S : n <= b
    PROVE  \E m \in S : \A n \in S : n <= m
<1> DEFINE Bounds == {u \in Nat : \A n \in S : n <= u}
<1>1. PICK u \in Bounds : \A v \in Bounds : u <= v
  <2>1. Bounds \subseteq Nat /\ b \in Bounds
    OBVIOUS
  <2>2. QED
    BY <2>1, LeastNatural
<1>2. u \in S
  <2>1. SUFFICES ASSUME u \notin S
                 PROVE  FALSE
    OBVIOUS
  <2>2. \A n \in S : n < u
    BY <2>1
  <2>3. u - 1 \in Nat
    <3>1. PICK n \in S : TRUE
      OBVIOUS
    <3>2. n \in Nat /\ u \in Nat /\ n < u
      BY <2>2, <3>1
    <3>3. QED
      BY <3>2
  <2>4. u - 1 \in Bounds
    BY <2>2, <2>3
  <2>5. QED
    BY <2>4, <1>1
<1>3. QED
  BY <1>1, <1>2

\* Max of a bounded, non-empty set of naturals is its greatest element.
LEMMA MaxOfSet ==
    ASSUME NEW S, S \subseteq Nat, S # {}, NEW b \in Nat, \A n \in S : n <= b
    PROVE  Max(S) \in S /\ \A n \in S : n <= Max(S)
<1>1. \E m \in S : \A n \in S : m >= n
  BY GreatestNatural
<1>2. Max(S) \in S /\ \A n \in S : Max(S) >= n
  BY <1>1 DEF Max
<1>3. QED
  BY <1>2

\* Min of a non-empty set of naturals is its least element.
LEMMA MinOfSet ==
    ASSUME NEW S, S \subseteq Nat, S # {}
    PROVE  Min(S) \in S /\ \A n \in S : Min(S) <= n
<1>1. \E m \in S : \A n \in S : m <= n
  BY LeastNatural
<1>2. QED
  BY <1>1 DEF Min

\* The greater of two integers.
LEMMA MaxOfTwo ==
    ASSUME NEW a \in Int, NEW b \in Int
    PROVE  Max({a, b}) = IF a >= b THEN a ELSE b
<1>1. \E m \in {a, b} : \A n \in {a, b} : m >= n
  OBVIOUS
<1>2. Max({a, b}) \in {a, b} /\ \A n \in {a, b} : Max({a, b}) >= n
  BY <1>1 DEF Max
<1>3. QED
  BY <1>2

\* The smaller of two integers.
LEMMA MinOfTwo ==
    ASSUME NEW a \in Int, NEW b \in Int
    PROVE  Min({a, b}) = IF a <= b THEN a ELSE b
<1>1. \E m \in {a, b} : \A n \in {a, b} : m <= n
  OBVIOUS
<1>2. Min({a, b}) \in {a, b} /\ \A n \in {a, b} : Min({a, b}) <= n
  BY <1>1 DEF Min
<1>3. QED
  BY <1>2

-----------------------------------------------------------------------------
(* Induction and iteration *)

\* Induction, on the set of naturals that have the property.
LEMMA SetInduction ==
    ASSUME NEW S, 0 \in S, \A n \in Nat : n \in S => n + 1 \in S
    PROVE  Nat \subseteq S
<1> DEFINE T == Nat \ S
<1>1. SUFFICES ASSUME T # {}
               PROVE  FALSE
  OBVIOUS
<1>2. PICK x \in T : \A y \in T : x <= y
  BY <1>1, LeastNatural
<1>3. x \in Nat /\ x # 0 /\ x \notin S
  BY <1>2
<1>4. x - 1 \in Nat /\ x - 1 \notin T
  BY <1>2, <1>3
<1>5. x - 1 \in S
  BY <1>4
<1>6. x - 1 + 1 \in S
  BY <1>4, <1>5
<1>7. QED
  BY <1>3, <1>6

\* f is the sequence c, h[c], h[h[c]], ...
Iterates(f, S, c, h) ==
    f \in [Nat -> S] /\ f[0] = c /\ \A n \in Nat : f[n + 1] = h[f[n]]

\* A function from a set to itself can be iterated.
LEMMA Iteration ==
    ASSUME NEW S, NEW c \in S, NEW h \in [S -> S]
    PROVE  \E f : Iterates(f, S, c, h)
<1> DEFINE Partial(n) == {g \in [0 .. n -> S] :
                            g[0] = c /\ \A i \in 0 .. n - 1 : g[i + 1] = h[g[i]]}
<1>1. \A n \in Nat : Partial(n) # {}
  <2> DEFINE Ok == {n \in Nat : Partial(n) # {}}
  <2>1. 0 \in Ok
    <3>1. [i \in 0 .. 0 |-> c] \in Partial(0)
      OBVIOUS
    <3>2. QED
      BY <3>1
  <2>2. ASSUME NEW n \in Nat, n \in Ok
        PROVE  n + 1 \in Ok
    <3>1. PICK g : g \in Partial(n)
      BY <2>2
    <3> DEFINE e == [i \in 0 .. n + 1 |-> IF i = n + 1 THEN h[g[n]] ELSE g[i]]
    <3>2. \A i \in 0 .. n : e[i] = g[i] /\ g[i] \in S
      BY <3>1
    <3>3. e[n + 1] = h[g[n]] /\ h[g[n]] \in S
      BY <3>2
    <3>4. e \in [0 .. n + 1 -> S]
      BY <3>2, <3>3
    <3>5. \A i \in 0 .. n : e[i + 1] = h[e[i]]
      <4>1. TAKE i \in 0 .. n
      <4>2. CASE i = n
        BY <3>2, <3>3, <4>2
      <4>3. CASE i # n
        <5>1. i \in 0 .. n - 1 /\ i + 1 \in 0 .. n
          BY <4>3
        <5>2. QED
          BY <3>1, <3>2, <5>1
      <4>4. QED
        BY <4>2, <4>3
    <3>6. e[0] = c
      BY <3>1, <3>2
    <3>7. 0 .. n + 1 - 1 = 0 .. n
      OBVIOUS
    <3>8. e \in Partial(n + 1)
      BY <3>4, <3>5, <3>6, <3>7
    <3> HIDE DEF e
    <3>9. QED
      BY <3>8
  <2> HIDE DEF Ok
  <2>3. Nat \subseteq Ok
    BY <2>1, <2>2, SetInduction
  <2>4. QED
    BY <2>3 DEF Ok
<1>2. ASSUME NEW m \in Nat, NEW n \in Nat, m <= n,
             NEW g \in Partial(m), NEW e \in Partial(n)
      PROVE  g[m] = e[m]
  <2> DEFINE Same == {i \in Nat : i <= m => g[i] = e[i]}
  <2>1. 0 \in Same
    OBVIOUS
  <2>2. ASSUME NEW i \in Nat, i \in Same
        PROVE  i + 1 \in Same
    <3>1. SUFFICES ASSUME i + 1 <= m
                   PROVE  g[i + 1] = e[i + 1]
      OBVIOUS
    <3>2. i \in 0 .. m - 1 /\ i \in 0 .. n - 1 /\ g[i] = e[i]
      BY <1>2, <2>2, <3>1
    <3>3. QED
      BY <3>2
  <2> HIDE DEF Same
  <2>3. m \in Same
    BY <2>1, <2>2, SetInduction
  <2>4. QED
    BY <2>3 DEF Same
<1>3. PICK at : \A n \in Nat : at[n] \in Partial(n)
  <2> DEFINE a == [n \in Nat |-> CHOOSE g : g \in Partial(n)]
  <2> HIDE DEF Partial
  <2>1. \A n \in Nat : a[n] \in Partial(n)
    BY <1>1
  <2>2. QED
    BY <2>1
<1> DEFINE f == [n \in Nat |-> at[n][n]]
<1>4. f \in [Nat -> S]
  <2>1. \A n \in Nat : at[n][n] \in S
    BY <1>3
  <2>2. QED
    BY <2>1
<1>5. f[0] = c
  BY <1>3
<1>6. ASSUME NEW n \in Nat
      PROVE  f[n + 1] = h[f[n]]
  <2>1. at[n + 1] \in Partial(n + 1) /\ at[n] \in Partial(n)
    BY <1>3
  <2>2. at[n][n] = at[n + 1][n]
    <3> HIDE DEF Partial
    <3>1. QED
      BY <1>2, <2>1
  <2>3. n \in 0 .. n + 1 - 1
    OBVIOUS
  <2>4. at[n + 1][n + 1] = h[at[n + 1][n]]
    BY <2>1, <2>3
  <2>5. QED
    BY <2>2, <2>4
<1>7. QED
  BY <1>4, <1>5, <1>6 DEF Iterates

-----------------------------------------------------------------------------
(* Folds *)

\* A subset of a finite set without one of its elements is a smaller set.
LEMMA SubsetWithout ==
    ASSUME NEW D, IsFiniteSet(D), NEW s \in SUBSET D, NEW x \in s
    PROVE  /\ s \ {x} \in SUBSET D
           /\ Cardinality(s) \in Nat /\ Cardinality(s \ {x}) \in Nat
           /\ Cardinality(s) = Cardinality(s \ {x}) + 1
<1>1. IsFiniteSet(s)
  BY FS_Subset
<1>2. Cardinality(s) \in Nat
  BY <1>1, FS_CardinalityType
<1>3. Cardinality(s \ {x}) = Cardinality(s) - 1 /\ IsFiniteSet(s \ {x})
  BY <1>1, FS_RemoveElement
<1>4. Cardinality(s \ {x}) \in Nat
  BY <1>3, FS_CardinalityType
<1>5. QED
  BY <1>2, <1>3, <1>4

\* pick takes an element of every non-empty subset of D.
Picks(pick, D) == \A s \in SUBSET D : s # {} => pick[s] \in s

\* P holds of the empty set and passes from a set without the element that
\* pick takes to the set.
Grows(P, pick, D) ==
    /\ {} \in P
    /\ \A s \in SUBSET D : s # {} /\ s \ {pick[s]} \in P => s \in P

\* Induction on the subsets of a finite set, in the order in which pick
\* takes their elements.
LEMMA SubsetInduction ==
    ASSUME NEW D, IsFiniteSet(D), NEW pick, NEW P, Picks(pick, D), Grows(P, pick, D)
    PROVE  \A s \in SUBSET D : s \in P
<1> USE DEF Picks, Grows
<1> DEFINE Ok == {n \in Nat : \A s \in SUBSET D : Cardinality(s) = n => s \in P}
<1>1. 0 \in Ok
  <2>1. ASSUME NEW s \in SUBSET D, Cardinality(s) = 0
        PROVE  s \in P
    <3>1. IsFiniteSet(s)
      BY FS_Subset
    <3>2. s = {}
      BY <2>1, <3>1, FS_EmptySet
    <3>3. QED
      BY <3>2
  <2>2. QED
    BY <2>1
<1>2. ASSUME NEW n \in Nat, n \in Ok
      PROVE  n + 1 \in Ok
  <2>1. SUFFICES ASSUME NEW s \in SUBSET D, Cardinality(s) = n + 1
                 PROVE  s \in P
    OBVIOUS
  <2>2. s # {}
    <3>1. Cardinality({}) = 0 /\ n + 1 # 0
      BY FS_EmptySet
    <3>2. QED
      BY <2>1, <3>1
  <2>3. pick[s] \in s
    BY <2>2
  <2>4. /\ s \ {pick[s]} \in SUBSET D
        /\ Cardinality(s \ {pick[s]}) \in Nat
        /\ Cardinality(s) = Cardinality(s \ {pick[s]}) + 1
    BY <2>3, SubsetWithout
  <2>5. Cardinality(s \ {pick[s]}) = n
    BY <2>1, <2>4
  <2>6. s \ {pick[s]} \in P
    BY <1>2, <2>4, <2>5
  <2>7. QED
    BY <2>2, <2>6
<1> HIDE DEF Ok
<1>3. Nat \subseteq Ok
  BY <1>1, <1>2, SetInduction
<1>4. TAKE s \in SUBSET D
<1>5. IsFiniteSet(s)
  BY FS_Subset
<1>6. Cardinality(s) \in Nat
  BY <1>5, FS_CardinalityType
<1>7. QED
  BY <1>3, <1>6 DEF Ok

\* g folds the functions h[x] over the subsets of D, from c on.
Folds(g, D, pick, c, h) ==
    \A s \in SUBSET D : g[s] = IF s = {} THEN c ELSE h[pick[s]][g[s \ {pick[s]}]]

\* The function that a fold over a finite set iterates exists, when every
\* step stays in the set S.
LEMMA FoldExists ==
    ASSUME NEW D, IsFiniteSet(D), NEW pick, Picks(pick, D),
           NEW S, NEW c \in S, NEW h \in [D -> [S -> S]]
    PROVE  \E g \in [SUBSET D -> S] : Folds(g, D, pick, c, h)
<1> USE DEF Picks, Folds
<1> DEFINE Part(n) == {s \in SUBSET D : Cardinality(s) <= n}
           Made(g, s) == IF s = {} THEN c ELSE h[pick[s]][g[s \ {pick[s]}]]
           Ok == {n \in Nat : \E g \in [Part(n) -> S] : \A s \in Part(n) : g[s] = Made(g, s)}
<1>1. 0 \in Ok
  <2>1. ASSUME NEW s \in Part(0)
        PROVE  s = {}
    <3>1. s \in SUBSET D /\ Cardinality(s) <= 0
      BY <2>1
    <3>2. IsFiniteSet(s)
      BY <3>1, FS_Subset
    <3>3. Cardinality(s) \in Nat
      BY <3>2, FS_CardinalityType
    <3>4. Cardinality(s) = 0
      BY <3>1, <3>3
    <3>5. QED
      BY <3>2, <3>4, FS_EmptySet
  <2> DEFINE g == [s \in Part(0) |-> c]
  <2>2. g \in [Part(0) -> S] /\ \A s \in Part(0) : g[s] = Made(g, s)
    <3> HIDE DEF Part
    <3>1. QED
      BY <2>1
  <2> HIDE DEF g, Part, Made
  <2>3. QED
    BY <2>2
<1>2. ASSUME NEW n \in Nat, n \in Ok
      PROVE  n + 1 \in Ok
  <2>1. PICK g \in [Part(n) -> S] : \A s \in Part(n) : g[s] = Made(g, s)
    BY <1>2
  <2> DEFINE e == [s \in Part(n + 1) |-> Made(g, s)]
  <2>2. ASSUME NEW s \in Part(n + 1), s # {}
        PROVE  s \ {pick[s]} \in Part(n) /\ pick[s] \in D
    <3>1. s \in SUBSET D /\ Cardinality(s) <= n + 1
      OBVIOUS
    <3>2. pick[s] \in s
      BY <2>2, <3>1
    <3>3. /\ s \ {pick[s]} \in SUBSET D
          /\ Cardinality(s) \in Nat /\ Cardinality(s \ {pick[s]}) \in Nat
          /\ Cardinality(s) = Cardinality(s \ {pick[s]}) + 1
      BY <3>1, <3>2, SubsetWithout
    <3>4. Cardinality(s \ {pick[s]}) <= n
      BY <3>1, <3>3
    <3>5. QED
      BY <3>1, <3>2, <3>3, <3>4
  <2>3. Part(n) \subseteq Part(n + 1)
    <3>1. ASSUME NEW s \in Part(n)
          PROVE  s \in Part(n + 1)
      <4>1. s \in SUBSET D /\ Cardinality(s) <= n
        OBVIOUS
      <4>2. IsFiniteSet(s)
        BY <4>1, FS_Subset
      <4>3. Cardinality(s) \in Nat
        BY <4>2, FS_CardinalityType
      <4>4. Cardinality(s) <= n + 1
        BY <4>1, <4>3
      <4>5. QED
        BY <4>1, <4>4
    <3> HIDE DEF Part
    <3>2. QED
      BY <3>1
  <2> HIDE DEF Part
  <2>4. e \in [Part(n + 1) -> S]
    <3>1. ASSUME NEW s \in Part(n + 1)
          PROVE  Made(g, s) \in S
      <4>1. CASE s = {}
        BY <4>1
      <4>2. CASE s # {}
        <5>1. s \ {pick[s]} \in Part(n) /\ pick[s] \in D
          BY <2>2, <4>2
        <5>2. g[s \ {pick[s]}] \in S
          BY <5>1
        <5>3. QED
          BY <4>2, <5>1, <5>2
      <4>3. QED
        BY <4>1, <4>2
    <3> HIDE DEF Made
    <3>2. QED
      BY <3>1
  <2>5. \A s \in Part(n + 1) : e[s] = Made(e, s)
    <3>1. TAKE s \in Part(n + 1)
    <3>2. CASE s = {}
      BY <3>2
    <3>3. CASE s # {}
      <4>1. s \ {pick[s]} \in Part(n) /\ s \ {pick[s]} \in Part(n + 1)
        BY <2>2, <2>3, <3>3
      <4>2. e[s \ {pick[s]}] = g[s \ {pick[s]}]
        <5> HIDE DEF Made
        <5>1. QED
          BY <2>1, <4>1
      <4>3. QED
        BY <3>3, <4>2
    <3>4. QED
      BY <3>2, <3>3
  <2> HIDE DEF e, Made
  <2>6. QED
    BY <2>4, <2>5
<1>3. Nat \subseteq Ok
  <2> HIDE DEF Ok
  <2>1. QED
    BY <1>1, <1>2, SetInduction
<1>4. Cardinality(D) \in Nat
  BY FS_CardinalityType
<1>5. Part(Cardinality(D)) = SUBSET D
  <2>1. ASSUME NEW s \in SUBSET D
        PROVE  Cardinality(s) <= Cardinality(D)
    BY FS_Subset
  <2>2. QED
    BY <2>1
<1>6. Cardinality(D) \in Ok
  <2> HIDE DEF Ok
  <2>1. QED
    BY <1>3, <1>4
<1>7. QED
  <2> HIDE DEF Part
  <2>1. QED
    BY <1>5, <1>6

\* Max, as a function on the subsets of 1..n.
LastOf(n) == [s \in SUBSET (1 .. n) |-> Max(s)]

\* The last of the first k numbers, and what is left without it.
LEMMA LastOfInterval ==
    ASSUME NEW k \in Nat \ {0}
    PROVE  Max(1 .. k) = k /\ (1 .. k) \ {k} = 1 .. k - 1
<1>1. \E m \in 1 .. k : \A n \in 1 .. k : m >= n
  OBVIOUS
<1>2. Max(1 .. k) \in 1 .. k /\ \A n \in 1 .. k : Max(1 .. k) >= n
  BY <1>1 DEF Max
<1>3. Max(1 .. k) = k
  <2>1. k \in 1 .. k
    OBVIOUS
  <2>2. Max(1 .. k) >= k
    BY <1>2, <2>1
  <2>3. QED
    BY <1>2, <2>2
<1>4. QED
  BY <1>3

\* LastOf takes an element of every non-empty subset.
LEMMA LastOfPicks ==
    ASSUME NEW n \in Nat
    PROVE  Picks(LastOf(n), 1 .. n) /\ IsFiniteSet(1 .. n)
<1>1. ASSUME NEW s \in SUBSET (1 .. n), s # {}
      PROVE  LastOf(n)[s] \in s
  <2>1. s \subseteq Nat /\ \A i \in s : i <= n
    OBVIOUS
  <2>2. Max(s) \in s
    BY <1>1, <2>1, MaxOfSet
  <2>3. QED
    BY <2>2 DEF LastOf
<1>2. Picks(LastOf(n), 1 .. n)
  BY <1>1 DEF Picks
<1>3. IsFiniteSet(1 .. n)
  BY FS_Interval
<1>4. QED
  BY <1>2, <1>3

\* f folds the functions h[x] over the subsets of 1..n as long as it stays in S.
FoldsIn(f, n, c, h, S) ==
    /\ f[{}] = c
    /\ \A s \in SUBSET (1 .. n) :
           s # {} /\ f[s \ {Max(s)}] \in S => f[s] = h[Max(s)][f[s \ {Max(s)}]]

\* r is the sequence of results of n steps h[1] to h[n] from c on.
StepsThrough(r, n, c, h, S) ==
    /\ r \in [0 .. n -> S]
    /\ r[0] = c
    /\ \A k \in 1 .. n : r[k] = h[k][r[k - 1]]

\* g folds the steps h[1] to h[n] over the subsets of 1..n.
FoldsSteps(g, n, c, h) ==
    \A s \in SUBSET (1 .. n) :
        /\ s = {} => g[s] = c
        /\ s # {} => /\ Max(s) \in 1 .. n
                     /\ s \ {Max(s)} \in SUBSET (1 .. n)
                     /\ g[s] = h[Max(s)][g[s \ {Max(s)}]]

\* The steps of a fold over 1..n can be taken.
LEMMA StepsFold ==
    ASSUME NEW n \in Nat, NEW S, NEW c \in S, NEW h \in [1 .. n -> [S -> S]]
    PROVE  \E g \in [SUBSET (1 .. n) -> S] : FoldsSteps(g, n, c, h)
<1>1. Picks(LastOf(n), 1 .. n) /\ IsFiniteSet(1 .. n)
  BY LastOfPicks
<1>2. PICK g \in [SUBSET (1 .. n) -> S] : Folds(g, 1 .. n, LastOf(n), c, h)
  BY <1>1, FoldExists
<1>3. ASSUME NEW s \in SUBSET (1 .. n), s # {}
      PROVE  /\ Max(s) \in 1 .. n
             /\ s \ {Max(s)} \in SUBSET (1 .. n)
             /\ g[s] = h[Max(s)][g[s \ {Max(s)}]]
  <2>1. LastOf(n)[s] = Max(s)
    BY DEF LastOf
  <2>2. Max(s) \in s
    BY <1>1, <1>3, <2>1 DEF Picks
  <2>3. g[s] = h[Max(s)][g[s \ {Max(s)}]]
    BY <1>2, <1>3, <2>1 DEF Folds
  <2>4. QED
    BY <2>2, <2>3
<1>4. g[{}] = c
  BY <1>2 DEF Folds
<1>5. FoldsSteps(g, n, c, h)
  BY <1>3, <1>4 DEF FoldsSteps
<1>6. QED
  BY <1>5

\* A fold over 1..n takes the steps one after the other.
LEMMA RunOfFold ==
    ASSUME NEW n \in Nat, NEW S, NEW c \in S, NEW h \in [1 .. n -> [S -> S]], NEW f,
           FoldsIn(f, n, c, h, S)
    PROVE  \E r : StepsThrough(r, n, c, h, S) /\ f[1 .. n] = r[n]
<1> DEFINE r == [k \in 0 .. n |-> f[1 .. k]]
           P == {k \in Nat : k <= n => f[1 .. k] \in S}
<1>1. f[1 .. 0] = c
  <2>1. 1 .. 0 = {}
    OBVIOUS
  <2>2. QED
    BY <2>1 DEF FoldsIn
<1>2. ASSUME NEW k \in 1 .. n, f[1 .. k - 1] \in S
      PROVE  f[1 .. k] = h[k][f[1 .. k - 1]] /\ h[k][f[1 .. k - 1]] \in S
  <2>1. Max(1 .. k) = k /\ (1 .. k) \ {k} = 1 .. k - 1
    BY LastOfInterval
  <2>2. 1 .. k \in SUBSET (1 .. n) /\ 1 .. k # {}
    OBVIOUS
  <2>3. f[(1 .. k) \ {Max(1 .. k)}] \in S
    BY <1>2, <2>1
  <2>4. f[1 .. k] = h[Max(1 .. k)][f[(1 .. k) \ {Max(1 .. k)}]]
    BY <2>2, <2>3 DEF FoldsIn
  <2>5. f[1 .. k] = h[k][f[1 .. k - 1]]
    BY <2>1, <2>4
  <2>6. QED
    BY <1>2, <2>5
<1>3. 0 \in P
  BY <1>1
<1>4. ASSUME NEW k \in Nat, k \in P
      PROVE  k + 1 \in P
  <2>1. SUFFICES ASSUME k + 1 <= n
                 PROVE  f[1 .. k + 1] \in S
    OBVIOUS
  <2>2. k + 1 \in 1 .. n /\ f[1 .. k] \in S /\ k + 1 - 1 = k
    BY <1>4, <2>1
  <2>3. QED
    BY <1>2, <2>2
<1>5. Nat \subseteq P
  <2> HIDE DEF P
  <2>1. QED
    BY <1>3, <1>4, SetInduction
<1>6. \A k \in 0 .. n : f[1 .. k] \in S
  BY <1>5
<1>7. StepsThrough(r, n, c, h, S)
  <2>1. r \in [0 .. n -> S]
    BY <1>6
  <2>2. r[0] = c
    BY <1>1
  <2>3. ASSUME NEW k \in 1 .. n
        PROVE  r[k] = h[k][r[k - 1]]
    <3>1. k \in 0 .. n /\ k - 1 \in 0 .. n
      OBVIOUS
    <3>2. f[1 .. k - 1] \in S
      BY <1>6, <3>1
    <3>3. f[1 .. k] = h[k][f[1 .. k - 1]]
      BY <1>2, <3>2
    <3>4. QED
      BY <3>1, <3>3
  <2> HIDE DEF r
  <2>4. QED
    BY <2>1, <2>2, <2>3 DEF StepsThrough
<1>8. f[1 .. n] = r[n]
  OBVIOUS
<1> HIDE DEF r
<1>9. QED
  BY <1>7, <1>8

\* What the first result has and every step passes on, the last result has.
LEMMA RunInvariant ==
    ASSUME NEW n \in Nat, NEW r, NEW P, r[0] \in P[0],
           \A k \in 1 .. n : r[k - 1] \in P[k - 1] => r[k] \in P[k]
    PROVE  r[n] \in P[n]
<1> DEFINE T == {k \in Nat : k <= n => r[k] \in P[k]}
<1>1. 0 \in T
  OBVIOUS
<1>2. ASSUME NEW k \in Nat, k \in T
      PROVE  k + 1 \in T
  <2>1. CASE k + 1 <= n
    <3>1. k + 1 \in 1 .. n /\ (k + 1) - 1 = k
      BY <2>1
    <3>2. r[k] \in P[k]
      BY <1>2, <2>1
    <3>3. r[k + 1] \in P[k + 1]
      BY <3>1, <3>2
    <3>4. QED
      BY <3>3
  <2>2. QED
    BY <2>1
<1> HIDE DEF T
<1>3. Nat \subseteq T
  BY <1>1, <1>2, SetInduction
<1>4. QED
  BY <1>3 DEF T

-----------------------------------------------------------------------------
(* Sequences of a type *)

\* An element has the type.
LEMMA ElementSeq ==
    ASSUME NEW T, NEW q \in Seq(T), NEW i \in 1 .. Len(q)
    PROVE  q[i] \in T
OBVIOUS

\* Append adds one element behind the others.
LEMMA AppendSeq ==
    ASSUME NEW T, NEW q \in Seq(T), NEW x \in T
    PROVE  /\ Append(q, x) \in Seq(T)
           /\ Len(Append(q, x)) = Len(q) + 1
           /\ \A i \in 1 .. Len(q) : Append(q, x)[i] = q[i]
           /\ Append(q, x)[Len(q) + 1] = x
OBVIOUS

\* EXCEPT replaces one element.
LEMMA ReplaceSeq ==
    ASSUME NEW T, NEW q \in Seq(T), NEW j \in 1 .. Len(q), NEW x \in T
    PROVE  /\ [q EXCEPT ![j] = x] \in Seq(T)
           /\ Len([q EXCEPT ![j] = x]) = Len(q)
           /\ [q EXCEPT ![j] = x][j] = x
           /\ \A i \in 1 .. Len(q) : i # j => [q EXCEPT ![j] = x][i] = q[i]
OBVIOUS

\* A non-empty sequence is its head and its tail.
LEMMA TailSeq ==
    ASSUME NEW T, NEW q \in Seq(T), q # <<>>
    PROVE  /\ Head(q) \in T /\ Head(q) = q[1] /\ Len(q) >= 1
           /\ Tail(q) \in Seq(T) /\ Len(Tail(q)) = Len(q) - 1
           /\ \A i \in 1 .. Len(q) - 1 : Tail(q)[i] = q[i + 1]
OBVIOUS

\* The first k elements.
LEMMA PrefixSeq ==
    ASSUME NEW T, NEW q \in Seq(T), NEW k \in 0 .. Len(q)
    PROVE  /\ SubSeq(q, 1, k) \in Seq(T)
           /\ Len(SubSeq(q, 1, k)) = k
           /\ \A i \in 1 .. k : SubSeq(q, 1, k)[i] = q[i]
OBVIOUS

\* What is left without the first k elements.
LEMMA SuffixSeq ==
    ASSUME NEW T, NEW q \in Seq(T), NEW k \in 0 .. Len(q)
    PROVE  /\ SubSeq(q, k + 1, Len(q)) \in Seq(T)
           /\ Len(SubSeq(q, k + 1, Len(q))) = Len(q) - k
           /\ \A i \in 1 .. Len(q) - k : SubSeq(q, k + 1, Len(q))[i] = q[k + i]
OBVIOUS

=============================================================================
