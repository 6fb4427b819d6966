----------------------------- MODULE FiniteLemmas -----------------------------
(***************************************************************************)
(* Lemmas about finite sets and numbers that the proofs of more than one   *)
(* component need: the smallest of a family of sets, the least of a set of *)
(* numbers, and what a fold over a finite set computes.                    *)
(***************************************************************************)
EXTENDS Integers, FiniteSetsExt, FiniteSetTheorems, TLAPS

(* Among sets of subsets of a finite set there is a smallest one.           *)
LEMMA SmallestSubset ==
  ASSUME NEW S, IsFiniteSet(S), NEW Bad, Bad \subseteq SUBSET S, Bad # {}
  PROVE  \E s \in Bad : \A t \in Bad : ~(t \subseteq s /\ t # s)
<1>1. IsWellFoundedOn(StrictSubsetOrdering(S), FiniteSubsetsOf(S)) /\ FiniteSubsetsOf(S) = SUBSET S
  BY FS_StrictSubsetOrderingWellFounded, FS_FiniteSubsetsOfFinite
<1>2. PICK s \in Bad : \A t \in Bad : <<t, s>> \notin StrictSubsetOrdering(S)
  BY <1>1, WFMin
<1>3. QED
  BY <1>2 DEF StrictSubsetOrdering

(* What a function makes of a finite set. *)
LEMMA ImageIsFinite ==
  ASSUME NEW D, IsFiniteSet(D), NEW g, DOMAIN g = D
  PROVE  IsFiniteSet({g[x] : x \in D})
<1> DEFINE T == {g[x] : x \in D}
           h == [x \in D |-> g[x]]
<1>1. h \in Surjection(D, T)
  BY DEF Surjection
<1> HIDE DEF T, h
<1>2. IsFiniteSet(T)
  BY <1>1, FS_Surjection
<1>3. QED
  BY <1>2 DEF T

LEMMA ListIsFinite ==
  ASSUME NEW n \in Nat, NEW s, DOMAIN s = 1..n
  PROVE  IsFiniteSet({s[i] : i \in 1..n})
<1>1. IsFiniteSet(1..n)
  BY FS_Interval
<1>2. QED
  BY <1>1, ImageIsFinite

LEMMA LeastNat ==
  ASSUME NEW S, S \subseteq Nat, S # {}
  PROVE  \E m \in S : \A n \in S : m <= n
<1>1. PICK x \in S : TRUE
  OBVIOUS
<1> DEFINE D == 0..x
           Bad == {T \in SUBSET D : \E m \in S : m <= x /\ T = 0..m}
<1>2. Bad \subseteq SUBSET D /\ D \in Bad /\ IsFiniteSet(D)
  BY <1>1, FS_Interval
<1> HIDE DEF Bad, D
<1>3. PICK T \in Bad : \A t \in Bad : ~(t \subseteq T /\ t # T)
  BY <1>2, SmallestSubset
<1>4. PICK m \in S : m <= x /\ T = 0..m
  BY <1>3 DEF Bad
<1>5. ASSUME NEW n \in S, n < m PROVE FALSE
  <2>1. 0..n \subseteq 0..m /\ 0..n # 0..m /\ 0..n \in SUBSET D /\ n <= x
    BY <1>4, <1>5 DEF D
  <2>2. 0..n \in Bad
    BY <2>1 DEF Bad
  <2>3. QED
    BY <1>3, <1>4, <2>1, <2>2
<1>6. \A n \in S : n \in Nat /\ m \in Nat
  OBVIOUS
<1>7. QED
  BY <1>5, <1>6

LEMMA MaxIsLargest ==
  ASSUME NEW n \in Nat, NEW s \in SUBSET (0..n), s # {}
  PROVE  Max(s) \in s /\ \A i \in s : i <= Max(s)
<1> DEFINE Above == {k \in Nat : \A i \in s : i <= k}
<1>1. n \in Above
  OBVIOUS
<1>2. PICK m \in Above : \A k \in Above : m <= k
  <2>1. Above \subseteq Nat /\ Above # {}
    BY <1>1
  <2> HIDE DEF Above
  <2>2. QED
    BY <2>1, LeastNat
<1>3. m \in s
  <2>1. SUFFICES ASSUME m \notin s PROVE FALSE
    OBVIOUS
  <2>2. PICK i \in s : TRUE
    OBVIOUS
  <2>3. m \in Nat /\ \A j \in s : j \in Nat /\ j <= m /\ j # m
    BY <1>2, <2>1
  <2>4. m - 1 \in Nat /\ \A j \in s : j <= m - 1
    BY <2>2, <2>3
  <2>5. m - 1 \in Above
    BY <2>4
  <2>6. QED
    BY <1>2, <2>3, <2>5
<1>4. QED
  BY <1>2, <1>3 DEF Max

LEMMA TwoNumbers ==
  ASSUME NEW a \in Nat, NEW b \in Nat
  PROVE  /\ Max({a, b}) = IF a >= b THEN a ELSE b
         /\ Min({a, b}) = IF a <= b THEN a ELSE b
BY DEF Max, Min

LEMMA CapGrows ==
  ASSUME NEW cap \in Nat, NEW x \in Nat, NEW y \in Nat, x <= y
  PROVE  /\ Min({cap, x}) \in Nat /\ Min({cap, y}) \in Nat
         /\ Min({cap, x}) <= Min({cap, y}) /\ Min({cap, y}) <= cap
         /\ Min({cap, x}) <= cap
<1>1. PICK v, w : v = Min({cap, x}) /\ w = Min({cap, y})
  OBVIOUS
<1>2. v = IF cap <= x THEN cap ELSE x
  BY <1>1, TwoNumbers
<1>3. w = IF cap <= y THEN cap ELSE y
  BY <1>1, TwoNumbers
<1>4. v \in Nat /\ w \in Nat /\ v <= w /\ w <= cap /\ v <= cap
  BY <1>2, <1>3
<1>5. QED
  BY <1>1, <1>4

-------------------------------------------------------------------------------
(* Products, and parts in hundredths: what k percent leave of a number.    *)
LEMMA Products ==
  ASSUME NEW d \in Nat, NEW k \in Nat, NEW n \in Nat, k <= n
  PROVE  d * k \in Nat /\ d * k <= d * n
<1>1. PICK j \in Nat : n = k + j
  <2>1. n - k \in Nat /\ n = k + (n - k)
    OBVIOUS
  <2>2. QED
    BY <2>1
<1>2. d * k \in Nat /\ d * j \in Nat
  OBVIOUS
<1>3. d * n = d * k + d * j
  BY <1>1
<1>4. d * n \in Nat
  OBVIOUS
<1>5. \A x, y, z \in Nat : x = y + z => y <= x
  OBVIOUS
<1>6. QED
  BY <1>2, <1>3, <1>4, <1>5

LEMMA Hundredths ==
  ASSUME NEW x \in Nat, NEW y \in Nat, x <= y
  PROVE  x \div 100 \in Nat /\ x \div 100 <= y \div 100
OBVIOUS

LEMMA WholeHundredths ==
  ASSUME NEW d \in Nat
  PROVE  (d * 100) \div 100 = d
OBVIOUS

LEMMA PartOf ==
  ASSUME NEW d \in Nat, NEW k \in Nat, k <= 100
  PROVE  (d * k) \div 100 \in Nat /\ (d * k) \div 100 <= d
<1>1. d * k \in Nat /\ d * 100 \in Nat /\ d * k <= d * 100
  BY Products
<1>2. QED
  BY <1>1, Hundredths, WholeHundredths

LEMMA PartGrows ==
  ASSUME NEW d \in Nat, NEW e \in Nat, e <= d, NEW k \in Nat
  PROVE  (e * k) \div 100 <= (d * k) \div 100
<1>1. k * e \in Nat /\ k * d \in Nat /\ k * e <= k * d
  BY Products
<1>2. k * e = e * k /\ k * d = d * k
  OBVIOUS
<1>3. QED
  BY <1>1, <1>2, Hundredths

-------------------------------------------------------------------------------
(* Folding over a finite set.  f[s] is what the elements of s make of base, *)
(* one after another, when element e makes G[e][t] of t and pick[s] is the  *)
(* last of s.                                                               *)

Folds(f, G, base, pick, S) ==
  f = [s \in SUBSET S |-> IF s = {} THEN base ELSE G[pick[s]][f[s \ {pick[s]}]]]

Picks(pick, S) == IsFiniteSet(S) /\ \A s \in SUBSET S : s # {} => pick[s] \in s

LEMMA FoldsUnique ==
  ASSUME NEW S, NEW U, NEW G, NEW base, NEW pick, NEW f, NEW g,
         U \subseteq S, Picks(pick, S), Folds(f, G, base, pick, S), Folds(g, G, base, pick, U)
  PROVE  f[U] = g[U]
<1> DEFINE Bad == {u \in SUBSET U : f[u] # g[u]}
<1>1. SUFFICES ASSUME Bad # {} PROVE FALSE
  OBVIOUS
<1> HIDE DEF Bad
<1>2. PICK u \in Bad : \A t \in Bad : ~(t \subseteq u /\ t # u)
  <2>1. Bad \subseteq SUBSET U /\ IsFiniteSet(U)
    BY FS_Subset DEF Bad, Picks
  <2>2. QED
    BY <1>1, <2>1, SmallestSubset
<1>3. u \in SUBSET U /\ f[u] # g[u] /\ \A t \in SUBSET u : t # u => f[t] = g[t]
  BY <1>2 DEF Bad
<1>4. /\ f[u] = IF u = {} THEN base ELSE G[pick[u]][f[u \ {pick[u]}]]
      /\ g[u] = IF u = {} THEN base ELSE G[pick[u]][g[u \ {pick[u]}]]
  BY <1>3 DEF Folds
<1>5. u # {} => f[u \ {pick[u]}] = g[u \ {pick[u]}]
  BY <1>3 DEF Picks
<1>6. QED
  BY <1>3, <1>4, <1>5

Folder(G, base, pick, S) == CHOOSE f : Folds(f, G, base, pick, S)

LEMMA FolderFolds ==
  ASSUME NEW S, NEW G, NEW base, NEW pick, Picks(pick, S)
  PROVE  Folds(Folder(G, base, pick, S), G, base, pick, S)
<1> DEFINE Fold(s) == Folder(G, base, pick, s)
           Bad == {s \in SUBSET S : ~\E f : Folds(f, G, base, pick, s)}
<1>1. SUFFICES ASSUME Bad # {} PROVE FALSE
  BY DEF Folder
<1> HIDE DEF Bad
<1>2. PICK s \in Bad : \A t \in Bad : ~(t \subseteq s /\ t # s)
  <2>1. Bad \subseteq SUBSET S /\ IsFiniteSet(S)
    BY DEF Bad, Picks
  <2>2. QED
    BY <1>1, <2>1, SmallestSubset
<1>3. s \in SUBSET S
  BY <1>2 DEF Bad
<1>4. ASSUME NEW t \in SUBSET s, t # s PROVE Folds(Fold(t), G, base, pick, t)
  <2>1. t \notin Bad /\ t \in SUBSET S
    BY <1>2, <1>3, <1>4
  <2>2. QED
    BY <2>1 DEF Folder, Bad
<1> DEFINE f == [t \in SUBSET s |-> IF t = {} THEN base
                                    ELSE G[pick[t]][Fold(t \ {pick[t]})[t \ {pick[t]}]]]
<1>5. ASSUME NEW t \in SUBSET s, t # {} PROVE f[t \ {pick[t]}] = Fold(t \ {pick[t]})[t \ {pick[t]}]
  <2> DEFINE u == t \ {pick[t]}
  <2>1. u \in SUBSET s /\ u # s /\ u \in SUBSET S
    BY <1>3, <1>5 DEF Picks
  <2>2. Folds(Fold(u), G, base, pick, u)
    BY <1>4, <2>1
  <2>3. Fold(u)[u] = IF u = {} THEN base ELSE G[pick[u]][Fold(u)[u \ {pick[u]}]]
    BY <2>2 DEF Folds
  <2>4. u # {} => Fold(u)[u \ {pick[u]}] = Fold(u \ {pick[u]})[u \ {pick[u]}]
    <3> DEFINE v == u \ {pick[u]}
    <3> SUFFICES ASSUME u # {} PROVE Fold(u)[v] = Fold(v)[v]
      OBVIOUS
    <3>1. v \in SUBSET s /\ v # s /\ v \subseteq u
      BY <2>1 DEF Picks
    <3>2. Folds(Fold(v), G, base, pick, v)
      BY <1>4, <3>1
    <3> HIDE DEF v, u, Fold
    <3>3. Picks(pick, u)
      BY <2>1, FS_Subset DEF Picks
    <3>4. PICK h, k, D, V : h = Fold(u) /\ k = Fold(v) /\ D = u /\ V = v
      OBVIOUS
    <3>5. /\ Folds(h, G, base, pick, D) /\ Folds(k, G, base, pick, V)
          /\ V \subseteq D /\ Picks(pick, D)
      BY <2>2, <3>1, <3>2, <3>3, <3>4
    <3>6. h[V] = k[V]
      BY <3>5, FoldsUnique
    <3>7. QED
      BY <3>4, <3>6
  <2>5. QED
    BY <2>1, <2>3, <2>4
<1>6. Folds(f, G, base, pick, s)
  BY <1>5 DEF Folds
<1> HIDE DEF f
<1>7. QED
  BY <1>2, <1>6 DEF Bad

LEMMA FoldsTyped ==
  ASSUME NEW T, NEW S, NEW G \in [S -> [T -> T]], NEW base \in T, NEW pick, Picks(pick, S),
         NEW f, Folds(f, G, base, pick, S)
  PROVE  \A s \in SUBSET S : f[s] \in T
<1> DEFINE Bad == {s \in SUBSET S : f[s] \notin T}
<1>1. SUFFICES ASSUME Bad # {} PROVE FALSE
  OBVIOUS
<1>2. Bad \subseteq SUBSET S /\ IsFiniteSet(S)
  BY DEF Picks
<1> HIDE DEF Bad
<1>3. PICK s \in Bad : \A t \in Bad : ~(t \subseteq s /\ t # s)
  BY <1>1, <1>2, SmallestSubset
<1>4. s \in SUBSET S /\ f[s] \notin T
  BY <1>3 DEF Bad
<1>5. f[s] = IF s = {} THEN base ELSE G[pick[s]][f[s \ {pick[s]}]]
  BY <1>4 DEF Folds
<1>6. CASE s # {}
  <2>1. pick[s] \in s
    BY <1>4, <1>6 DEF Picks
  <2>2. f[s \ {pick[s]}] \in T
    BY <1>3, <1>4, <2>1 DEF Bad
  <2>3. QED
    BY <1>4, <1>5, <1>6, <2>1, <2>2
<1>7. QED
  BY <1>4, <1>5, <1>6
===============================================================================
