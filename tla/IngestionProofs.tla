---------------------------- MODULE IngestionProofs ----------------------------
(***************************************************************************)
(* Proofs about Ingestion and Identities, for every set of workers, events *)
(* and containers, every order of delivery and every parent and container  *)
(* the events report.                                                      *)
(***************************************************************************)
EXTENDS Ingestion, FiniteLemmas

-------------------------------------------------------------------------------
(* The order the events of a batch are stored in. *)

Place(x) == SelectInSeq(IdOrder, LAMBDA z : z = x)

LEMMA PlaceOfId ==
  ASSUME NEW x \in Execs
  PROVE  Place(x) \in 1..Len(IdOrder) /\ IdOrder[Place(x)] = x
<1> DEFINE I == {i \in 1..Len(IdOrder) : IdOrder[i] = x}
<1>1. Place(x) = IF I # {} THEN Min(I) ELSE 0
  BY DEF Place, SelectInSeq
<1>2. PICK i \in 1..Len(IdOrder) : IdOrder[i] = x
  BY IngestionAssumption DEF IngestionAssumption, Range
<1>3. Len(IdOrder) \in Nat
  BY IngestionAssumption DEF IngestionAssumption
<1>4. \A j \in I : j = i
  <2>1. IdOrder \in Seq(Execs) /\ DOMAIN IdOrder = 1..Len(IdOrder)
    BY IngestionAssumption DEF IngestionAssumption
  <2>2. QED
    BY <1>2, <2>1, IngestionAssumption DEF IngestionAssumption, IsInjective
<1>5. i \in I /\ \A j \in I : i <= j
  BY <1>2, <1>3, <1>4
<1>6. Min(I) \in I
  BY <1>5 DEF Min
<1>7. QED
  BY <1>1, <1>2, <1>5, <1>6

LEMMA BeforeIs ==
  ASSUME NEW x \in Execs, NEW y \in Execs
  PROVE  Before(x, y) <=> \/ ExecOf[x].at < ExecOf[y].at
                          \/ (ExecOf[x].at = ExecOf[y].at /\ Place(x) < Place(y))
BY DEF Before, Place

LEMMA TimesAreNat == \A x \in Execs : ExecOf[x].at \in Nat
BY IngestionAssumption DEF IngestionAssumption

(* (time_nano, event_id) orders all events, and strictly.                   *)
LEMMA BeforeIsOrder ==
  ASSUME NEW x \in Execs, NEW y \in Execs, NEW z \in Execs
  PROVE  /\ ~Before(x, x)
         /\ ~(Before(x, y) /\ Before(y, x))
         /\ x # y => Before(x, y) \/ Before(y, x)
         /\ Before(x, y) /\ Before(y, z) => Before(x, z)
<1>1. PICK a, b, c \in Nat : a = ExecOf[x].at /\ b = ExecOf[y].at /\ c = ExecOf[z].at
  BY TimesAreNat
<1>2. Len(IdOrder) \in Nat
  BY IngestionAssumption DEF IngestionAssumption
<1>3. PICK i, j, k \in 1..Len(IdOrder) : i = Place(x) /\ j = Place(y) /\ k = Place(z)
  BY PlaceOfId
<1>4. x # y => i # j
  BY <1>3, PlaceOfId
<1>5. /\ Before(x, y) <=> a < b \/ (a = b /\ i < j)
      /\ Before(y, x) <=> b < a \/ (b = a /\ j < i)
      /\ Before(y, z) <=> b < c \/ (b = c /\ j < k)
      /\ Before(x, z) <=> a < c \/ (a = c /\ i < k)
      /\ Before(x, x) <=> a < a \/ (a = a /\ i < i)
  BY <1>1, <1>3, BeforeIs
<1>6. i \in Nat /\ j \in Nat /\ k \in Nat
  BY <1>2
<1>7. a \in Nat /\ b \in Nat /\ c \in Nat
  OBVIOUS
<1>8. ~Before(x, x) /\ ~(Before(x, y) /\ Before(y, x))
  BY <1>5, <1>6, <1>7
<1>9. x # y => Before(x, y) \/ Before(y, x)
  BY <1>4, <1>5, <1>6, <1>7
<1>10. Before(x, y) /\ Before(y, z) => Before(x, z)
  BY <1>5, <1>6, <1>7
<1>11. QED
  BY <1>8, <1>9, <1>10

LEMMA ExecsAreFinite == IsFiniteSet(Execs)
<1>1. Len(IdOrder) \in Nat /\ IdOrder \in [1..Len(IdOrder) -> Execs] /\ Range(IdOrder) = Execs
  BY IngestionAssumption DEF IngestionAssumption
<1>2. IsFiniteSet(1..Len(IdOrder))
  BY <1>1, FS_Interval
<1>3. IdOrder \in Surjection(1..Len(IdOrder), Execs)
  BY <1>1 DEF Surjection, Range
<1>4. QED
  BY <1>2, <1>3, FS_Surjection

LastOf(T) == CHOOSE m \in T : \A x \in T : x = m \/ Before(x, m)

LEMMA LastExists ==
  ASSUME NEW T \in SUBSET Execs, T # {}
  PROVE  LastOf(T) \in T /\ \A x \in T : x = LastOf(T) \/ Before(x, LastOf(T))
<1> DEFINE HasLast(U) == \E m \in U : \A x \in U : x = m \/ Before(x, m)
           Bad == {U \in SUBSET Execs : U # {} /\ ~HasLast(U)}
<1>1. ASSUME Bad # {} PROVE FALSE
  <2>1. Bad \subseteq SUBSET Execs
    OBVIOUS
  <2> HIDE DEF Bad
  <2>2. PICK U \in Bad : \A t \in Bad : ~(t \subseteq U /\ t # U)
    BY <1>1, <2>1, ExecsAreFinite, SmallestSubset
  <2>3. U \in SUBSET Execs /\ U # {} /\ ~HasLast(U)
    BY <2>2 DEF Bad
  <2>4. PICK a \in U : TRUE
    BY <2>3
  <2>5. CASE U \ {a} = {}
    BY <2>3, <2>4, <2>5
  <2>6. CASE U \ {a} # {}
    <3>1. HasLast(U \ {a})
      <4>1. U \ {a} \in SUBSET Execs /\ U \ {a} \notin Bad
        BY <2>2, <2>3, <2>4
      <4>2. QED
        BY <2>6, <4>1 DEF Bad
    <3>2. PICK m \in U \ {a} : \A x \in U \ {a} : x = m \/ Before(x, m)
      BY <3>1
    <3>3. CASE Before(a, m)
      BY <2>3, <3>2, <3>3
    <3>4. CASE Before(m, a)
      BY <2>3, <2>4, <3>2, <3>4, BeforeIsOrder
    <3>5. QED
      BY <2>3, <2>4, <3>2, <3>3, <3>4, BeforeIsOrder
  <2>7. QED
    BY <2>5, <2>6
<1>2. HasLast(T)
  BY <1>1
<1>3. QED
  BY <1>2 DEF LastOf

IsOrdered(s) == \A i, j \in DOMAIN s : i < j => Before(s[i], s[j])

(* Every batch can be sorted.                                               *)
LEMMA OrderedExists ==
  ASSUME NEW T \in SUBSET Execs
  PROVE  Ordered(T) \in SetToSeqs(T) /\ IsOrdered(Ordered(T))
<1> DEFINE CanOrder(U) == \E s \in SetToSeqs(U) : IsOrdered(s)
           Bad == {U \in SUBSET Execs : ~CanOrder(U)}
<1>1. ASSUME Bad # {} PROVE FALSE
  <2>1. Bad \subseteq SUBSET Execs
    OBVIOUS
  <2> HIDE DEF Bad
  <2>2. PICK U \in Bad : \A t \in Bad : ~(t \subseteq U /\ t # U)
    BY <1>1, <2>1, ExecsAreFinite, SmallestSubset
  <2>3. U \in SUBSET Execs /\ ~CanOrder(U)
    BY <2>2 DEF Bad
  <2>4. CASE U = {}
    <3>1. Cardinality(U) = 0
      BY <2>4, FS_EmptySet
    <3>2. <<>> \in [1..0 -> U] /\ DOMAIN <<>> = {}
      BY <2>4
    <3>3. <<>> \in SetToSeqs(U) /\ IsOrdered(<<>>)
      BY <3>1, <3>2 DEF SetToSeqs, IsOrdered
    <3>4. QED
      BY <2>3, <3>3
  <2>5. CASE U # {}
    <3>1. PICK m \in U : \A x \in U : x = m \/ Before(x, m)
      BY <2>3, <2>5, LastExists
    <3> DEFINE V == U \ {m}
               n == Cardinality(V)
    <3>2. IsFiniteSet(V) /\ n \in Nat /\ Cardinality(U) = n + 1
      <4>1. IsFiniteSet(U)
        BY <2>3, ExecsAreFinite, FS_Subset
      <4>2. QED
        BY <3>1, <4>1, FS_RemoveElement, FS_CardinalityType, FS_Subset
    <3>3. CanOrder(V)
      BY <2>2, <2>3, <3>1 DEF Bad
    <3>4. PICK s \in SetToSeqs(V) : IsOrdered(s)
      BY <3>3
    <3>5. s \in [1..n -> V] /\ \A i, j \in 1..n : i # j => s[i] # s[j]
      BY <3>4 DEF SetToSeqs
    <3> HIDE DEF V, n
    <3>6. V = U \ {m}
      BY DEF V
    <3> DEFINE r == [i \in 1..n + 1 |-> IF i = n + 1 THEN m ELSE s[i]]
    <3>7. r \in [1..n + 1 -> U] /\ \A i, j \in 1..n + 1 : i # j => r[i] # r[j]
      BY <3>1, <3>2, <3>5, <3>6
    <3>8. r \in SetToSeqs(U)
      BY <3>2, <3>7 DEF SetToSeqs
    <3>9. IsOrdered(r)
      <4> SUFFICES ASSUME NEW i \in 1..n + 1, NEW j \in 1..n + 1, i < j
                   PROVE  Before(r[i], r[j])
        BY DEF IsOrdered
      <4>1. i \in 1..n /\ r[i] = s[i] /\ s[i] \in V
        BY <3>2, <3>5
      <4>2. CASE j = n + 1
        BY <3>1, <3>6, <4>1, <4>2
      <4>3. CASE j \in 1..n
        BY <3>2, <3>4, <3>5, <4>1, <4>3 DEF IsOrdered
      <4>4. QED
        BY <3>2, <4>2, <4>3
    <3>10. QED
      BY <2>3, <3>8, <3>9
  <2>6. QED
    BY <2>4, <2>5
<1>2. CanOrder(T)
  BY <1>1
<1>3. QED
  BY <1>2 DEF Ordered, IsOrdered

-------------------------------------------------------------------------------
(* Folding over a batch. *)

(* The last of a set of places. *)
LastPlace(n) == [s \in SUBSET (1..n) |-> Max(s)]

LEMMA LastOfPlaces ==
  ASSUME NEW n \in Nat, NEW s \in SUBSET (1..n), s # {}
  PROVE  /\ Max(s) \in s /\ Max(s) \in 1..n /\ \A i \in s : i <= Max(s)
         /\ LastPlace(n)[s] = Max(s)
<1>1. s \in SUBSET (0..n)
  OBVIOUS
<1>2. Max(s) \in s /\ \A i \in s : i <= Max(s)
  BY <1>1, MaxIsLargest
<1>3. QED
  BY <1>2 DEF LastPlace

LEMMA PlacesPick == ASSUME NEW n \in Nat PROVE Picks(LastPlace(n), 1..n)
<1>1. IsFiniteSet(1..n)
  BY FS_Interval
<1>2. QED
  BY <1>1, LastOfPlaces DEF Picks

(* The largest place of the first k is k.                                   *)
LEMMA MaxOfPlaces ==
  ASSUME NEW n \in Nat, NEW k \in 1..n
  PROVE  /\ 1..k \in SUBSET (1..n) /\ Max(1..k) = k
         /\ (1..k) \ {k} = 1..(k - 1)
<1>1. \A i \in 1..k : i \in 1..n
  OBVIOUS
<1>2. (1..k) \ {k} = 1..(k - 1)
  OBVIOUS
<1>3. Max(1..k) = k
  <2> DEFINE s == 1..k
  <2>1. s \in SUBSET (1..n)
    BY <1>1
  <2>2. k \in s /\ k \in Nat /\ \A i \in s : i \in Nat /\ i <= k
    OBVIOUS
  <2> HIDE DEF s
  <2>3. s # {}
    BY <2>2
  <2>4. Max(s) \in s /\ \A i \in s : i <= Max(s)
    BY <2>1, <2>3, LastOfPlaces
  <2>5. PICK m : m = Max(s)
    OBVIOUS
  <2>6. m \in Nat /\ m <= k /\ k <= m
    BY <2>2, <2>4, <2>5
  <2>7. m = k
    BY <2>2, <2>6
  <2>8. QED
    BY <2>5, <2>7 DEF s
<1>4. QED
  BY <1>1, <1>2, <1>3

LEMMA AlongTheBatch ==
  ASSUME NEW n \in Nat, NEW Good, 0 \in Good, \A k \in 1..n : k - 1 \in Good => k \in Good
  PROVE  n \in Good
<1> DEFINE S == {k \in 0..n : k \notin Good}
<1>1. SUFFICES ASSUME S # {} PROVE FALSE
  OBVIOUS
<1>2. PICK m \in S : \A k \in S : m <= k
  <2>1. S \subseteq Nat
    OBVIOUS
  <2> HIDE DEF S
  <2>2. QED
    BY <1>1, <2>1, LeastNat
<1>3. m \in 1..n /\ m - 1 \in 0..n /\ ~(m <= m - 1)
  BY <1>2
<1>4. QED
  BY <1>2, <1>3

-------------------------------------------------------------------------------
(* One event. *)

ContainerTable == [Containers -> ContainerRows \cup {None}]
ImageTable     == [Images -> ImageRows \cup {None}]

(* A snapshot says of its digest what Docker said when it was taken.        *)
Faithful(snapshot, c) ==
  /\ snapshot \in Snapshots
  /\ snapshot.digest = IF snapshot.status = "resolved" THEN ImageOf[c] ELSE None

CollectorInv ==
  /\ payload \in [RuntimeEvents -> Snapshots \cup {None, Empty}]
  /\ cache \in [Containers -> Snapshots \cup {None}]
  /\ \A e \in RuntimeEvents : payload[e] \in {None, Empty} \/ Faithful(payload[e], ContainerOf[e])
  /\ \A c \in Containers : cache[c] = None \/ Faithful(cache[c], c)

LEMMA EventFields ==
  ASSUME CollectorInv, NEW e \in Captured
  PROVE  /\ e \in RuntimeEvents /\ ContainerOf[e] \in Containers /\ SeenAt[e] \in Nat
         /\ ImageOf[ContainerOf[e]] \in Images
         /\ Snapshot(e) \in Snapshots \cup {None}
         /\ Image(e) = IF Snapshot(e) = None THEN None ELSE ImageOf[ContainerOf[e]]
         /\ Digest(e) \in Images \cup {None} /\ Status(e) \in DigestStatus
         /\ Status(e) = "resolved" => Snapshot(e) # None /\ Digest(e) = ImageOf[ContainerOf[e]]
         /\ Status(e) # "resolved" => Digest(e) = None
<1>1. e \in RuntimeEvents /\ payload[e] # None
  BY DEF Captured
<1>2. ContainerOf[e] \in Containers /\ SeenAt[e] \in Nat /\ ImageOf[ContainerOf[e]] \in Images
  BY <1>1, IdentitiesAssumption DEF IdentitiesAssumption
<1>3. CASE payload[e] = Empty
  BY <1>1, <1>2, <1>3 DEF Snapshot, Image, Digest, Status, DigestStatus
<1>4. CASE payload[e] # Empty
  <2>1. Faithful(payload[e], ContainerOf[e]) /\ Snapshot(e) = payload[e]
    BY <1>1, <1>4 DEF CollectorInv, Snapshot
  <2>2. PICK s \in Snapshots : s = payload[e]
    BY <2>1 DEF Faithful
  <2>3. s.digest \in Images \cup {None} /\ s.status \in DigestStatus /\ s # None
    BY IdentitiesAssumption DEF Snapshots, IdentitiesAssumption
  <2>4. QED
    BY <1>1, <1>2, <2>1, <2>2, <2>3 DEF Faithful, Image, Digest, Status
<1>5. QED
  BY <1>3, <1>4

(* What the conflict clause makes of a row, column by column.               *)
LEMMA MergedRow ==
  ASSUME CollectorInv, NEW e \in Captured, NEW row \in ContainerRows
  PROVE  LET new == Span(IF NewerOrEqual(e, row) THEN MergeContainer(row, e) ELSE row, e) IN
         /\ new \in ContainerRows
         /\ new.first = IF row.first <= SeenAt[e] THEN row.first ELSE SeenAt[e]
         /\ new.last = IF row.last >= SeenAt[e] THEN row.last ELSE SeenAt[e]
         /\ new.snapshot = IF SeenAt[e] >= row.last THEN Coalesce(Snapshot(e), row.snapshot)
                           ELSE row.snapshot
         /\ new.digest = IF SeenAt[e] >= row.last THEN Coalesce(Digest(e), row.digest)
                         ELSE row.digest
         /\ new.status = IF SeenAt[e] >= row.last /\ Status(e) # "inspection_failed"
                         THEN Status(e) ELSE row.status
<1>1. /\ row.first \in Nat /\ row.last \in Nat /\ SeenAt[e] \in Nat
      /\ row.snapshot \in Snapshots \cup {None} /\ Snapshot(e) \in Snapshots \cup {None}
      /\ row.image \in Images \cup {None} /\ Image(e) \in Images \cup {None}
      /\ row.digest \in Images \cup {None} /\ Digest(e) \in Images \cup {None}
      /\ row.status \in DigestStatus /\ Status(e) \in DigestStatus
  BY EventFields DEF ContainerRows
<1> DEFINE merged == IF NewerOrEqual(e, row) THEN MergeContainer(row, e) ELSE row
<1>2. /\ merged \in ContainerRows
      /\ merged.first = row.first /\ merged.last = row.last
      /\ merged.snapshot = IF SeenAt[e] >= row.last THEN Coalesce(Snapshot(e), row.snapshot)
                           ELSE row.snapshot
      /\ merged.digest = IF SeenAt[e] >= row.last THEN Coalesce(Digest(e), row.digest)
                         ELSE row.digest
      /\ merged.status = IF SeenAt[e] >= row.last /\ Status(e) # "inspection_failed"
                         THEN Status(e) ELSE row.status
  BY <1>1 DEF NewerOrEqual, MergeContainer, Coalesce, ContainerRows
<1> HIDE DEF merged
<1>3. /\ Min({merged.first, SeenAt[e]}) = IF row.first <= SeenAt[e] THEN row.first ELSE SeenAt[e]
      /\ Max({merged.last, SeenAt[e]}) = IF row.last >= SeenAt[e] THEN row.last ELSE SeenAt[e]
  BY <1>1, <1>2, TwoNumbers
<1>4. QED
  BY <1>1, <1>2, <1>3 DEF Span, ContainerRows, merged

(* What a row says of the events of D that are about container c.           *)
AboutIt(D, c) == {e \in D : ContainerOf[e] = c}

RowFits(row, c, D) ==
  /\ row \in ContainerRows \cup {None}
  /\ row = None <=> AboutIt(D, c) = {}
  /\ row # None =>
       /\ \E e \in AboutIt(D, c) : SeenAt[e] = row.last
       /\ \E e \in AboutIt(D, c) : SeenAt[e] = row.first
       /\ \A e \in AboutIt(D, c) : row.first <= SeenAt[e] /\ SeenAt[e] <= row.last
       /\ \A e \in AboutIt(D, c) : SeenAt[e] = row.last /\ Digest(e) # None =>
            \E f \in AboutIt(D, c) : SeenAt[f] = row.last /\ Digest(f) # None /\ Digest(f) = row.digest
       /\ \A e \in AboutIt(D, c) : SeenAt[e] = row.last /\ Snapshot(e) # None =>
            \E f \in AboutIt(D, c) :
              SeenAt[f] = row.last /\ Snapshot(f) # None /\ Snapshot(f) = row.snapshot
       /\ row.digest # None => \E e \in AboutIt(D, c) : Digest(e) = row.digest
       /\ row.status = "resolved" => row.digest # None

(* One more event, whether the row has seen it before or not.               *)
LEMMA FirstEvent ==
  ASSUME CollectorInv, NEW e \in Captured, NEW D \in SUBSET Captured, NEW c,
         ContainerOf[e] = c, AboutIt(D, c) = {}
  PROVE  RowFits(FirstContainerRow(e), c, D \cup {e})
<1> DEFINE new == FirstContainerRow(e)
<1>1. AboutIt(D \cup {e}, c) = {e}
  BY DEF AboutIt
<1>2. /\ new.snapshot = Snapshot(e) /\ new.digest = Digest(e) /\ new.status = Status(e)
      /\ new.first = SeenAt[e] /\ new.last = SeenAt[e] /\ SeenAt[e] \in Nat
      /\ new.status = "resolved" => new.digest # None
  BY EventFields, IdentitiesAssumption DEF FirstContainerRow, IdentitiesAssumption
<1>3. new \in ContainerRows
  BY EventFields DEF FirstContainerRow, ContainerRows
<1>4. new # None
  BY <1>3, IdentitiesAssumption DEF IdentitiesAssumption
<1> HIDE DEF new
<1>5. QED
  BY <1>1, <1>2, <1>3, <1>4 DEF RowFits, new

LEMMA NextEvent ==
  ASSUME CollectorInv, NEW e \in Captured, NEW D \in SUBSET Captured, NEW c,
         NEW row \in ContainerRows, ContainerOf[e] = c, RowFits(row, c, D)
  PROVE  RowFits(Span(IF NewerOrEqual(e, row) THEN MergeContainer(row, e) ELSE row, e),
                 c, D \cup {e})
<1> DEFINE A == AboutIt(D, c)
           new == Span(IF NewerOrEqual(e, row) THEN MergeContainer(row, e) ELSE row, e)
<1>1. AboutIt(D \cup {e}, c) = A \cup {e}
  BY DEF AboutIt
<1>2. /\ row # None /\ None \notin ContainerRows /\ None \notin Images \cup Snapshots
  BY IdentitiesAssumption DEF IdentitiesAssumption
<1>3. /\ \E f \in A : SeenAt[f] = row.last
      /\ \E f \in A : SeenAt[f] = row.first
      /\ \A f \in A : row.first <= SeenAt[f] /\ SeenAt[f] <= row.last
      /\ \A f \in A : SeenAt[f] = row.last /\ Digest(f) # None =>
           \E g \in A : SeenAt[g] = row.last /\ Digest(g) # None /\ Digest(g) = row.digest
      /\ \A f \in A : SeenAt[f] = row.last /\ Snapshot(f) # None =>
           \E g \in A : SeenAt[g] = row.last /\ Snapshot(g) # None /\ Snapshot(g) = row.snapshot
      /\ row.digest # None => \E f \in A : Digest(f) = row.digest
      /\ row.status = "resolved" => row.digest # None
  BY <1>2 DEF RowFits
<1>4. \A f \in A \cup {e} : SeenAt[f] \in Nat
  BY EventFields DEF AboutIt
<1>5. /\ new \in ContainerRows
      /\ new.first = IF row.first <= SeenAt[e] THEN row.first ELSE SeenAt[e]
      /\ new.last = IF row.last >= SeenAt[e] THEN row.last ELSE SeenAt[e]
      /\ new.snapshot = IF SeenAt[e] >= row.last THEN Coalesce(Snapshot(e), row.snapshot)
                        ELSE row.snapshot
      /\ new.digest = IF SeenAt[e] >= row.last THEN Coalesce(Digest(e), row.digest)
                      ELSE row.digest
      /\ new.status = IF SeenAt[e] >= row.last /\ Status(e) # "inspection_failed"
                      THEN Status(e) ELSE row.status
  BY MergedRow
<1>6. row.first \in Nat /\ row.last \in Nat
  BY DEF ContainerRows
<1>7. /\ Status(e) = "resolved" => Digest(e) # None
      /\ Status(e) # "inspection_failed" /\ Status(e) # "resolved" => Digest(e) = None
  BY <1>2, EventFields, IdentitiesAssumption DEF IdentitiesAssumption
<1> HIDE DEF A, new
<1>8. /\ \E f \in A \cup {e} : SeenAt[f] = new.last
      /\ \E f \in A \cup {e} : SeenAt[f] = new.first
      /\ \A f \in A \cup {e} : new.first <= SeenAt[f] /\ SeenAt[f] <= new.last
  BY <1>3, <1>4, <1>5, <1>6
<1>9. ASSUME NEW f \in A \cup {e}, SeenAt[f] = new.last, Digest(f) # None
      PROVE  \E g \in A \cup {e} : SeenAt[g] = new.last /\ Digest(g) # None /\ Digest(g) = new.digest
  <2>1. CASE SeenAt[e] >= row.last /\ Digest(e) # None
    BY <1>4, <1>5, <1>6, <2>1 DEF Coalesce
  <2>2. CASE ~(SeenAt[e] >= row.last) \/ Digest(e) = None
    BY <1>3, <1>4, <1>5, <1>6, <1>9, <2>2 DEF Coalesce
  <2>3. QED
    BY <2>1, <2>2
<1>10. ASSUME NEW f \in A \cup {e}, SeenAt[f] = new.last, Snapshot(f) # None
       PROVE  \E g \in A \cup {e} :
                SeenAt[g] = new.last /\ Snapshot(g) # None /\ Snapshot(g) = new.snapshot
  <2>1. CASE SeenAt[e] >= row.last /\ Snapshot(e) # None
    BY <1>4, <1>5, <1>6, <2>1 DEF Coalesce
  <2>2. CASE ~(SeenAt[e] >= row.last) \/ Snapshot(e) = None
    BY <1>3, <1>4, <1>5, <1>6, <1>10, <2>2 DEF Coalesce
  <2>3. QED
    BY <2>1, <2>2
<1>11. new.digest # None => \E f \in A \cup {e} : Digest(f) = new.digest
  BY <1>3, <1>5 DEF Coalesce
<1>12. new.status = "resolved" => new.digest # None
  BY <1>3, <1>5, <1>7 DEF Coalesce
<1>13. new # None
  BY <1>2, <1>5
<1>14. RowFits(new, c, D \cup {e})
  BY <1>1, <1>5, <1>8, <1>9, <1>10, <1>11, <1>12, <1>13 DEF RowFits
<1>15. QED
  BY <1>14 DEF new

(* An image's row never shows the digest of another one.                    *)
ImageFits(row, i) ==
  /\ row \in ImageRows \cup {None}
  /\ row # None => row.digest \in {i, None} /\ (row.status = "resolved" => row.digest = i)

LEMMA ImageStep ==
  ASSUME CollectorInv, NEW e \in Captured, NEW row, ImageFits(row, Image(e)), Image(e) # None
  PROVE  ImageFits(IF row = None THEN FirstImageRow(e)
                   ELSE Span(IF NewerOrEqual(e, row) THEN MergeImage(row, e) ELSE row, e),
                   Image(e))
<1> DEFINE i == Image(e)
<1>1. /\ Snapshot(e) \in Snapshots /\ SeenAt[e] \in Nat /\ i \in Images /\ i # None
      /\ Digest(e) \in {i, None} /\ Status(e) \in DigestStatus
      /\ Status(e) = "resolved" => Digest(e) = i
      /\ Status(e) # "resolved" => Digest(e) = None
  BY EventFields
<1>2. CASE row = None
  BY <1>1, <1>2 DEF FirstImageRow, ImageFits, ImageRows
<1>3. CASE row # None
  <2>1. row \in ImageRows /\ row.digest \in {i, None} /\ (row.status = "resolved" => row.digest = i)
    BY <1>3 DEF ImageFits
  <2>2. row.first \in Nat /\ row.last \in Nat
    BY <2>1 DEF ImageRows
  <2> DEFINE merged == IF NewerOrEqual(e, row) THEN MergeImage(row, e) ELSE row
  <2>3. /\ merged \in ImageRows /\ merged.digest \in {i, None}
        /\ merged.status = "resolved" => merged.digest = i
        /\ merged.first \in Nat /\ merged.last \in Nat
    BY <1>1, <2>1, <2>2 DEF NewerOrEqual, MergeImage, Coalesce, ImageRows
  <2> HIDE DEF merged
  <2>4. Min({merged.first, SeenAt[e]}) \in Nat /\ Max({merged.last, SeenAt[e]}) \in Nat
    BY <1>1, <2>3, TwoNumbers
  <2>5. ImageFits(Span(merged, e), i)
    BY <1>1, <2>3, <2>4 DEF Span, ImageRows, ImageFits
  <2>6. QED
    BY <1>3, <2>5 DEF merged
<1>4. QED
  BY <1>2, <1>3

ContainersFit(rows, D) ==
  rows \in ContainerTable /\ \A c \in Containers : RowFits(rows[c], c, D)

ImagesFit(rows) == rows \in ImageTable /\ \A i \in Images : ImageFits(rows[i], i)

(* An event of one container leaves the others' rows true.                  *)
LEMMA ContainersStep ==
  ASSUME CollectorInv, NEW e \in Captured, NEW D \in SUBSET Captured, NEW rows,
         ContainersFit(rows, D)
  PROVE  ContainersFit(UpsertContainer(rows, e), D \cup {e})
<1> DEFINE c == ContainerOf[e]
           row == rows[c]
           new == IF row = None THEN FirstContainerRow(e)
                  ELSE Span(IF NewerOrEqual(e, row) THEN MergeContainer(row, e) ELSE row, e)
<1>1. c \in Containers /\ rows \in ContainerTable /\ RowFits(row, c, D)
  BY EventFields DEF ContainersFit
<1>2. UpsertContainer(rows, e) = [rows EXCEPT ![c] = new]
  BY DEF UpsertContainer
<1>3. CASE row = None
  <2>1. AboutIt(D, c) = {} /\ new = FirstContainerRow(e)
    BY <1>1, <1>3 DEF RowFits
  <2>2. RowFits(new, c, D \cup {e})
    BY <2>1, FirstEvent
  <2>3. QED
    <3>1. \A d \in Containers : d # c => AboutIt(D \cup {e}, d) = AboutIt(D, d)
      BY DEF AboutIt
    <3>2. new \in ContainerRows \cup {None}
      BY <2>2 DEF RowFits
    <3> HIDE DEF new, c
    <3>3. QED
      BY <1>1, <1>2, <2>2, <3>1, <3>2 DEF ContainersFit, ContainerTable, RowFits
<1>4. CASE row # None
  <2>1. row \in ContainerRows
    BY <1>1, <1>4 DEF RowFits
  <2>2. new = Span(IF NewerOrEqual(e, row) THEN MergeContainer(row, e) ELSE row, e)
    BY <1>4
  <2>3. RowFits(new, c, D \cup {e})
    BY <1>1, <2>1, <2>2, NextEvent
  <2>4. \A d \in Containers : d # c => AboutIt(D \cup {e}, d) = AboutIt(D, d)
    BY DEF AboutIt
  <2>5. new \in ContainerRows \cup {None}
    BY <2>3 DEF RowFits
  <2> HIDE DEF new, c
  <2>6. QED
    BY <1>1, <1>2, <2>3, <2>4, <2>5 DEF ContainersFit, ContainerTable, RowFits
<1>5. QED
  BY <1>3, <1>4

LEMMA ImagesStep ==
  ASSUME CollectorInv, NEW e \in Captured, NEW rows, ImagesFit(rows)
  PROVE  ImagesFit(UpsertImage(rows, e))
<1>1. CASE Image(e) = None
  BY <1>1 DEF UpsertImage
<1>2. CASE Image(e) # None
  <2> DEFINE i == Image(e)
             row == rows[i]
             new == IF row = None THEN FirstImageRow(e)
                    ELSE Span(IF NewerOrEqual(e, row) THEN MergeImage(row, e) ELSE row, e)
  <2>1. i \in Images /\ ImageFits(row, i)
    BY <1>2, EventFields DEF ImagesFit
  <2>2. ImageFits(new, i)
    BY <1>2, <2>1, ImageStep
  <2>3. UpsertImage(rows, e) = [rows EXCEPT ![i] = new]
    BY <1>2 DEF UpsertImage
  <2> HIDE DEF new, i
  <2>4. QED
    BY <2>1, <2>2, <2>3 DEF ImagesFit, ImageTable, ImageFits
<1>3. QED
  BY <1>1, <1>2

-------------------------------------------------------------------------------
(* One batch. *)

(* Folding makes a table for every place of the batch, each out of the one  *)
(* before.                                                                  *)

LEMMA BatchOfContainers ==
  ASSUME CollectorInv, NEW n \in Nat, NEW batch \in [1..n -> Captured],
         NEW D \in SUBSET Captured, NEW rows, ContainersFit(rows, D)
  PROVE  ContainersFit(FoldLeft(UpsertContainer, rows, batch), D \cup Range(batch))
<1> DEFINE Fits == {t \in ContainerTable : \E d \in SUBSET Captured : ContainersFit(t, d)}
           G == [i \in 1..n |-> [t \in Fits |-> UpsertContainer(t, batch[i])]]
           last == LastPlace(n)
           F == Folder(G, rows, last, 1..n)
<1>1. G \in [1..n -> [Fits -> Fits]]
  <2>1. ASSUME NEW e \in Captured, NEW t \in Fits PROVE UpsertContainer(t, e) \in Fits
    <3>1. PICK d \in SUBSET Captured : ContainersFit(t, d)
      OBVIOUS
    <3>2. ContainersFit(UpsertContainer(t, e), d \cup {e})
      BY <3>1, ContainersStep
    <3>3. QED
      BY <3>2 DEF ContainersFit
  <2> HIDE DEF Fits
  <2>2. \A i \in 1..n : batch[i] \in Captured
    OBVIOUS
  <2>3. QED
    BY <2>1, <2>2
<1>2. rows \in Fits
  BY DEF ContainersFit
<1> HIDE DEF Fits
<1>3. Folds(F, G, rows, last, 1..n)
  <2> HIDE DEF G, last
  <2>1. QED
    BY PlacesPick, FolderFolds DEF last
<1>4. \A s \in SUBSET (1..n) : F[s] \in Fits
  <2> HIDE DEF F, G, last
  <2>1. Picks(last, 1..n)
    BY PlacesPick DEF last
  <2>2. QED
    BY <1>1, <1>2, <1>3, <2>1, FoldsTyped
<1> DEFINE Eq(f) == f = [s \in SUBSET DOMAIN batch |->
                           IF s = {} THEN rows
                           ELSE UpsertContainer(f[s \ {Max(s)}], batch[Max(s)])]
<1>5. Eq(F)
  <2>1. ASSUME NEW s \in SUBSET (1..n), s # {}
        PROVE  G[last[s]][F[s \ {last[s]}]] = UpsertContainer(F[s \ {Max(s)}], batch[Max(s)])
    <3>1. Max(s) \in 1..n /\ last[s] = Max(s)
      BY <2>1, LastOfPlaces
    <3>2. batch[Max(s)] \in Captured /\ F[s \ {Max(s)}] \in Fits
      BY <1>4, <3>1
    <3> HIDE DEF F, last
    <3>3. QED
      BY <3>1, <3>2
  <2>2. F = [s \in SUBSET (1..n) |-> IF s = {} THEN rows ELSE G[last[s]][F[s \ {last[s]}]]]
    BY <1>3 DEF Folds
  <2>3. DOMAIN batch = 1..n
    OBVIOUS
  <2> HIDE DEF F, G, last
  <2>4. QED
    BY <2>1, <2>2, <2>3
<1> DEFINE iter == CHOOSE f : Eq(f)
<1>6. FoldLeft(UpsertContainer, rows, batch) = iter[DOMAIN batch]
  BY DEF FoldLeft, MapThenFoldSet
<1> HIDE DEF F
<1>7. Eq(iter)
  BY <1>5
<1> HIDE DEF iter
<1> DEFINE First(k) == D \cup {batch[i] : i \in 1..k}
           Good == {k \in 0..n : ContainersFit(iter[1..k], First(k))}
<1>8. iter[1..0] = rows /\ First(0) = D
  BY <1>7
<1>9. ASSUME NEW k \in 1..n, ContainersFit(iter[1..(k - 1)], First(k - 1))
      PROVE  ContainersFit(iter[1..k], First(k))
  <2>1. 1..k \in SUBSET (1..n) /\ Max(1..k) = k /\ (1..k) \ {k} = 1..(k - 1) /\ k \in 1..k
    BY MaxOfPlaces
  <2>2. PICK s : s = 1..k
    OBVIOUS
  <2>3. iter[s] = IF s = {} THEN rows ELSE UpsertContainer(iter[s \ {Max(s)}], batch[Max(s)])
    BY <1>7, <2>1, <2>2
  <2>4. iter[1..k] = UpsertContainer(iter[1..(k - 1)], batch[k])
    BY <2>1, <2>2, <2>3
  <2>5. First(k - 1) \in SUBSET Captured /\ batch[k] \in Captured
    OBVIOUS
  <2>6. First(k) = First(k - 1) \cup {batch[k]}
    <3>1. \A i \in 1..k : i = k \/ i \in 1..(k - 1)
      OBVIOUS
    <3>2. \A i \in 1..(k - 1) : i \in 1..k
      OBVIOUS
    <3>3. QED
      BY <2>1, <3>1, <3>2
  <2> HIDE DEF First
  <2>7. QED
    BY <1>9, <2>4, <2>5, <2>6, ContainersStep
<1> HIDE DEF First
<1>10. n \in Good
  <2>1. 0 \in Good
    BY <1>8
  <2>2. \A k \in 1..n : k - 1 \in Good => k \in Good
    BY <1>9
  <2> HIDE DEF Good
  <2>3. QED
    BY <2>1, <2>2, AlongTheBatch
<1>11. DOMAIN batch = 1..n /\ D \cup Range(batch) = First(n)
  BY DEF Range, First
<1>12. QED
  BY <1>6, <1>10, <1>11

LEMMA BatchOfImages ==
  ASSUME CollectorInv, NEW n \in Nat, NEW batch \in [1..n -> Captured],
         NEW rows, ImagesFit(rows)
  PROVE  ImagesFit(FoldLeft(UpsertImage, rows, batch))
<1> DEFINE Fits == {t \in ImageTable : ImagesFit(t)}
           G == [i \in 1..n |-> [t \in Fits |-> UpsertImage(t, batch[i])]]
           last == LastPlace(n)
           F == Folder(G, rows, last, 1..n)
<1>1. G \in [1..n -> [Fits -> Fits]]
  <2>1. ASSUME NEW e \in Captured, NEW t \in Fits PROVE UpsertImage(t, e) \in Fits
    BY ImagesStep DEF ImagesFit
  <2> HIDE DEF Fits
  <2>2. \A i \in 1..n : batch[i] \in Captured
    OBVIOUS
  <2>3. QED
    BY <2>1, <2>2
<1>2. rows \in Fits
  BY DEF ImagesFit
<1> HIDE DEF Fits
<1>3. Folds(F, G, rows, last, 1..n)
  <2> HIDE DEF G, last
  <2>1. QED
    BY PlacesPick, FolderFolds DEF last
<1>4. \A s \in SUBSET (1..n) : F[s] \in Fits
  <2> HIDE DEF F, G, last
  <2>1. Picks(last, 1..n)
    BY PlacesPick DEF last
  <2>2. QED
    BY <1>1, <1>2, <1>3, <2>1, FoldsTyped
<1> DEFINE Eq(f) == f = [s \in SUBSET DOMAIN batch |->
                           IF s = {} THEN rows
                           ELSE UpsertImage(f[s \ {Max(s)}], batch[Max(s)])]
<1>5. Eq(F)
  <2>1. ASSUME NEW s \in SUBSET (1..n), s # {}
        PROVE  G[last[s]][F[s \ {last[s]}]] = UpsertImage(F[s \ {Max(s)}], batch[Max(s)])
    <3>1. Max(s) \in 1..n /\ last[s] = Max(s)
      BY <2>1, LastOfPlaces
    <3>2. batch[Max(s)] \in Captured /\ F[s \ {Max(s)}] \in Fits
      BY <1>4, <3>1
    <3> HIDE DEF F, last
    <3>3. QED
      BY <3>1, <3>2
  <2>2. F = [s \in SUBSET (1..n) |-> IF s = {} THEN rows ELSE G[last[s]][F[s \ {last[s]}]]]
    BY <1>3 DEF Folds
  <2>3. DOMAIN batch = 1..n
    OBVIOUS
  <2> HIDE DEF F, G, last
  <2>4. QED
    BY <2>1, <2>2, <2>3
<1> DEFINE iter == CHOOSE f : Eq(f)
<1>6. FoldLeft(UpsertImage, rows, batch) = iter[DOMAIN batch]
  BY DEF FoldLeft, MapThenFoldSet
<1> HIDE DEF F
<1>7. Eq(iter)
  BY <1>5
<1> HIDE DEF iter
<1> DEFINE Good == {k \in 0..n : ImagesFit(iter[1..k])}
<1>8. iter[1..0] = rows
  BY <1>7
<1>9. ASSUME NEW k \in 1..n, ImagesFit(iter[1..(k - 1)])
      PROVE  ImagesFit(iter[1..k])
  <2>1. 1..k \in SUBSET (1..n) /\ Max(1..k) = k /\ (1..k) \ {k} = 1..(k - 1) /\ k \in 1..k
    BY MaxOfPlaces
  <2>2. PICK s : s = 1..k
    OBVIOUS
  <2>3. iter[s] = IF s = {} THEN rows ELSE UpsertImage(iter[s \ {Max(s)}], batch[Max(s)])
    BY <1>7, <2>1, <2>2
  <2>4. iter[1..k] = UpsertImage(iter[1..(k - 1)], batch[k]) /\ batch[k] \in Captured
    BY <2>1, <2>2, <2>3
  <2>5. QED
    BY <1>9, <2>4, ImagesStep
<1>10. n \in Good
  <2>1. 0 \in Good
    BY <1>8
  <2>2. \A k \in 1..n : k - 1 \in Good => k \in Good
    BY <1>9
  <2> HIDE DEF Good
  <2>3. QED
    BY <2>1, <2>2, AlongTheBatch
<1>11. QED
  BY <1>6, <1>10

-------------------------------------------------------------------------------
(* What the backend knows of containers and images, at any moment.          *)

IdentitiesInv ==
  /\ CollectorInv
  /\ runtime \in SUBSET RuntimeEvents
  /\ delivered \in SUBSET Captured
  /\ ContainersFit(containerRow, delivered)
  /\ ImagesFit(imageRow)

LEMMA IdentitiesStart ==
  ASSUME IdentitiesInit
  PROVE  IdentitiesInv
<1>1. CollectorInv
  BY DEF IdentitiesInit, CollectorInv
<1>2. \A c \in Containers : RowFits(containerRow[c], c, delivered)
  BY DEF IdentitiesInit, RowFits, AboutIt
<1>3. \A i \in Images : ImageFits(imageRow[i], i)
  BY DEF IdentitiesInit, ImageFits
<1>4. QED
  BY <1>1, <1>2, <1>3
  DEF IdentitiesInit, IdentitiesInv, ContainersFit, ImagesFit, ContainerTable, ImageTable

(* Events that are already captured keep what they carry.                   *)
LEMMA CaptureStep ==
  ASSUME IdentitiesInv, CollectorInv', UNCHANGED <<runtime, delivered, containerRow, imageRow>>,
         \A e \in Captured : payload'[e] = payload[e]
  PROVE  IdentitiesInv'
<1>1. /\ delivered \in SUBSET Captured /\ containerRow \in ContainerTable
      /\ \A c \in Containers : RowFits(containerRow[c], c, delivered)
  BY DEF IdentitiesInv, ContainersFit
<1>2. \A e \in delivered : Snapshot(e)' = Snapshot(e) /\ Digest(e)' = Digest(e) /\ e \in Captured'
  BY <1>1 DEF Snapshot, Digest, Captured
<1>3. ASSUME NEW c \in Containers PROVE RowFits(containerRow[c], c, delivered)'
  <2>1. RowFits(containerRow[c], c, delivered)
    BY <1>1
  <2>2. AboutIt(delivered, c) \subseteq delivered /\ AboutIt(delivered, c)' = AboutIt(delivered, c)
    BY DEF AboutIt
  <2>3. containerRow'[c] = containerRow[c]
    OBVIOUS
  <2>4. QED
    BY <1>2, <2>1, <2>2, <2>3 DEF RowFits
<1>4. ContainersFit(containerRow, delivered)'
  BY <1>1, <1>3 DEF ContainersFit, ContainerTable
<1>5. ImagesFit(imageRow)'
  BY DEF IdentitiesInv, ImagesFit, ImageTable, ImageFits
<1>6. QED
  BY <1>1, <1>2, <1>4, <1>5 DEF IdentitiesInv

LEMMA IdentitiesNextStep ==
  ASSUME IdentitiesInv, IdentitiesNext
  PROVE  IdentitiesInv'
<1>1. CollectorInv
  BY DEF IdentitiesInv
<1>2. ASSUME NEW e \in RuntimeEvents, Inspected(e) PROVE IdentitiesInv'
  <2>1. PICK snapshot \in Seen(e) :
          /\ payload' = [payload EXCEPT ![e] = snapshot]
          /\ cache' = [cache EXCEPT ![ContainerOf[e]] = snapshot]
    BY <1>2 DEF Inspected
  <2>2. ContainerOf[e] \in Containers /\ ImageOf[ContainerOf[e]] \in Images
    BY IdentitiesAssumption DEF IdentitiesAssumption
  <2>3. Faithful(snapshot, ContainerOf[e]) /\ snapshot \in Snapshots
    BY <2>1, <2>2 DEF Seen, Faithful, Snapshots, DigestStatus
  <2>4. CollectorInv'
    BY <1>1, <2>1, <2>2, <2>3 DEF CollectorInv
  <2>5. \A f \in Captured : payload'[f] = payload[f]
    BY <1>1, <1>2, <2>1 DEF Captured, CollectorInv, Inspected
  <2>6. QED
    BY <1>2, <2>4, <2>5, CaptureStep DEF Inspected
<1>3. ASSUME NEW e \in RuntimeEvents, NotInspected(e) PROVE IdentitiesInv'
  <2> DEFINE known == cache[ContainerOf[e]]
             kept == IF known = None THEN Empty ELSE known
  <2>1. payload' = [payload EXCEPT ![e] = kept] /\ payload[e] = None /\ cache' = cache
    BY <1>3 DEF NotInspected
  <2>2. kept = Empty \/ Faithful(kept, ContainerOf[e])
    BY <1>1, IdentitiesAssumption DEF CollectorInv, IdentitiesAssumption
  <2>3. kept \in Snapshots \cup {None, Empty}
    BY <2>2 DEF Faithful
  <2> HIDE DEF kept
  <2>4. CollectorInv'
    BY <1>1, <2>1, <2>2, <2>3 DEF CollectorInv
  <2>5. \A f \in Captured : payload'[f] = payload[f]
    BY <1>1, <2>1 DEF Captured, CollectorInv
  <2>6. QED
    BY <1>3, <2>4, <2>5, CaptureStep DEF NotInspected
<1>4. ASSUME NEW batch \in RuntimeBatches, IngestRuntime(batch) PROVE IdentitiesInv'
  <2>1. PICK m \in 0..RuntimeBatch : batch \in [1..m -> RuntimeEvents]
    BY DEF RuntimeBatches, SeqOf
  <2>2. m \in Nat /\ batch \in [1..m -> Captured]
    BY <1>4, <2>1, IdentitiesAssumption DEF IngestRuntime, IdentitiesAssumption
  <2>3. delivered \in SUBSET Captured /\ ContainersFit(containerRow, delivered) /\ ImagesFit(imageRow)
    BY DEF IdentitiesInv
  <2>4. ContainersFit(containerRow', delivered')
    BY <1>1, <1>4, <2>2, <2>3, BatchOfContainers DEF IngestRuntime
  <2>5. ImagesFit(imageRow')
    BY <1>1, <1>4, <2>2, <2>3, BatchOfImages DEF IngestRuntime
  <2>6. payload' = payload /\ cache' = cache
    BY <1>4 DEF IngestRuntime
  <2>7. CollectorInv' /\ Captured' = Captured
    BY <1>1, <2>6 DEF CollectorInv, Captured
  <2>8. Range(batch) \subseteq Captured /\ Captured \subseteq RuntimeEvents
    BY <2>2 DEF Range, Captured
  <2>9. runtime' \in SUBSET RuntimeEvents /\ delivered' \in SUBSET Captured'
    BY <1>4, <2>3, <2>7, <2>8 DEF IngestRuntime, IdentitiesInv
  <2>10. ContainersFit(containerRow, delivered)'
    <3>1. \A e \in RuntimeEvents : Snapshot(e)' = Snapshot(e) /\ Digest(e)' = Digest(e)
      BY <2>6 DEF Snapshot, Digest
    <3>2. \A c : AboutIt(delivered', c) \subseteq RuntimeEvents
      BY <2>8, <2>9, <2>7 DEF AboutIt
    <3>3. QED
      BY <2>4, <3>1, <3>2 DEF ContainersFit, ContainerTable, RowFits, AboutIt
  <2>11. ImagesFit(imageRow)'
    BY <2>5 DEF ImagesFit, ImageTable, ImageFits
  <2>12. QED
    BY <2>7, <2>9, <2>10, <2>11 DEF IdentitiesInv
<1>5. QED
  BY <1>2, <1>3, <1>4 DEF IdentitiesNext

-------------------------------------------------------------------------------
(* One transaction of a worker. *)

StagedIn(t) == {x \in Execs : t.staged[x] # None}

(* The link of a row names an exec of "known" that can be the parent.       *)
LinkIsTrue(row, c, known) ==
  row.parent # None =>
    /\ row.parent \in known
    /\ ExecOf[row.parent].pid = ExecOf[c].ppid /\ ExecOf[row.parent].at <= ExecOf[c].at

(* The row of c beside the row of p, which came before it in the batch.     *)
Linked(row, c, p, before) ==
  row.container # None =>
    /\ /\ before.container = row.container
       /\ ExecOf[p].pid = ExecOf[c].ppid
       /\ ExecOf[p].at + Lookback >= ExecOf[c].at
       => row.parent # None /\ ExecOf[row.parent].at >= ExecOf[p].at
    /\ row.parent = p => before.container = row.container

TxnFits(t, ever) ==
  /\ t \in Transactions
  /\ IsOrdered(t.todo)
  /\ \A x \in StagedIn(t) :
       /\ \A i \in DOMAIN t.todo : Before(x, t.todo[i])
       /\ LinkIsTrue(t.staged[x], x, ever \cup StagedIn(t))
  /\ \A c, p \in StagedIn(t) : Before(p, c) => Linked(t.staged[c], c, p, t.staged[p])
  /\ t.pc = "insert" =>
       /\ t.todo # <<>> /\ t.row # None
       /\ LinkIsTrue(t.row, Head(t.todo), ever \cup StagedIn(t))
       /\ \A p \in StagedIn(t) : Linked(t.row, Head(t.todo), p, t.staged[p])

LEMMA IdleFits ==
  ASSUME NEW ever
  PROVE  TxnFits(Idle, ever)
<1>1. Idle \in Transactions /\ StagedIn(Idle) = {} /\ Idle.pc # "insert"
  BY DEF Idle, NothingStaged, Transactions, StagedIn
<1>2. IsOrdered(Idle.todo)
  BY DEF IsOrdered, Idle
<1>3. QED
  BY <1>1, <1>2 DEF TxnFits

LEMMA ReceivedFits ==
  ASSUME NEW ever, NEW batch \in SUBSET Execs
  PROVE  TxnFits([Idle EXCEPT !.pc = "next", !.todo = Ordered(batch)], ever)
<1> DEFINE t == [Idle EXCEPT !.pc = "next", !.todo = Ordered(batch)]
<1>1. Ordered(batch) \in SetToSeqs(batch) /\ IsOrdered(Ordered(batch))
  BY OrderedExists
<1>2. Ordered(batch) \in Seq(Execs)
  <2>1. IsFiniteSet(batch)
    BY ExecsAreFinite, FS_Subset
  <2>2. Cardinality(batch) \in Nat
    BY <2>1, FS_CardinalityType
  <2>3. Ordered(batch) \in [1..Cardinality(batch) -> batch]
    BY <1>1 DEF SetToSeqs
  <2>4. QED
    BY <2>2, <2>3
<1>3. t \in Transactions /\ StagedIn(t) = {} /\ t.pc # "insert" /\ t.todo = Ordered(batch)
  BY <1>2 DEF Idle, NothingStaged, Transactions, StagedIn
<1>4. QED
  BY <1>1, <1>3 DEF TxnFits

(* More committed ids keep every link true.                                 *)
LEMMA MoreEver ==
  ASSUME NEW t, NEW ever, NEW more, ever \subseteq more, TxnFits(t, ever)
  PROVE  TxnFits(t, more)
<1>1. ASSUME NEW row, NEW c, LinkIsTrue(row, c, ever \cup StagedIn(t))
      PROVE  LinkIsTrue(row, c, more \cup StagedIn(t))
  BY <1>1 DEF LinkIsTrue
<1>2. QED
  BY <1>1 DEF TxnFits

(* The first event of the queue gets a row.                                 *)
LEMMA CorrelatedFits ==
  ASSUME NEW t, NEW ever, NEW row \in Rows, TxnFits(t, ever), t.todo # <<>>,
         LinkIsTrue(row, Head(t.todo), ever \cup StagedIn(t)),
         \A p \in StagedIn(t) : Linked(row, Head(t.todo), p, t.staged[p])
  PROVE  TxnFits([t EXCEPT !.pc = "insert", !.row = row], ever)
<1> DEFINE s == [t EXCEPT !.pc = "insert", !.row = row]
<1>1. t \in Transactions /\ row # None
  BY IngestionAssumption DEF TxnFits, IngestionAssumption
<1>2. /\ s \in Transactions /\ s.todo = t.todo /\ s.staged = t.staged
      /\ s.row = row /\ s.pc = "insert"
  BY <1>1 DEF Transactions
<1>3. StagedIn(s) = StagedIn(t)
  BY <1>2 DEF StagedIn
<1> HIDE DEF s
<1>4. TxnFits(s, ever)
  BY <1>1, <1>2, <1>3 DEF TxnFits
<1>5. QED
  BY <1>4 DEF s

(* The row is inserted, or the id was there and nothing is.                 *)
LEMMA InsertedFits ==
  ASSUME NEW t, NEW ever, NEW new, TxnFits(t, ever), t.pc = "insert",
         new = t.staged[Head(t.todo)] \/ new = t.row
  PROVE  TxnFits([t EXCEPT !.pc = "next", !.todo = Tail(t.todo), !.row = None,
                           !.staged = [t.staged EXCEPT ![Head(t.todo)] = new]], ever)
<1> DEFINE x == Head(t.todo)
           s == [t EXCEPT !.pc = "next", !.todo = Tail(t.todo), !.row = None,
                          !.staged = [t.staged EXCEPT ![x] = new]]
<1>1. /\ t \in Transactions /\ t.todo \in Seq(Execs) /\ t.todo # <<>> /\ t.row # None
      /\ t.staged \in [Execs -> Rows \cup {None}] /\ t.row \in Rows
  BY DEF TxnFits, Transactions
<1>2. x \in Execs /\ x = t.todo[1] /\ 1 \in DOMAIN t.todo
  BY <1>1
<1>3. Tail(t.todo) \in Seq(Execs)
      /\ \A i \in DOMAIN Tail(t.todo) : i + 1 \in DOMAIN t.todo /\ Tail(t.todo)[i] = t.todo[i + 1]
                                        /\ i \in Nat /\ 1 < i + 1
  BY <1>1
<1>4. t.staged[x] = None
  <2>1. x \in StagedIn(t) => Before(x, x)
    BY <1>2 DEF TxnFits
  <2>2. QED
    BY <1>2, <2>1, BeforeIsOrder DEF StagedIn
<1>5. /\ s \in Transactions /\ s.pc = "next" /\ s.todo = Tail(t.todo)
      /\ s.staged = [t.staged EXCEPT ![x] = new] /\ s.staged \in [Execs -> Rows \cup {None}]
  BY <1>1, <1>2, <1>3 DEF Transactions
<1>6. /\ StagedIn(s) \subseteq StagedIn(t) \cup {x} /\ StagedIn(t) \subseteq StagedIn(s)
      /\ \A y \in StagedIn(t) : y # x /\ y \in Execs /\ s.staged[y] = t.staged[y]
      /\ s.staged[x] = new /\ (x \in StagedIn(s) => new = t.row)
  BY <1>1, <1>2, <1>4, <1>5 DEF StagedIn
<1> HIDE DEF s, x
<1>7. IsOrdered(s.todo)
  <2> SUFFICES ASSUME NEW i \in DOMAIN s.todo, NEW j \in DOMAIN s.todo, i < j
               PROVE  Before(s.todo[i], s.todo[j])
    BY DEF IsOrdered
  <2>1. i + 1 \in DOMAIN t.todo /\ j + 1 \in DOMAIN t.todo /\ i + 1 < j + 1
    BY <1>3, <1>5
  <2>2. IsOrdered(t.todo)
    BY DEF TxnFits
  <2>3. QED
    BY <1>3, <1>5, <2>1, <2>2 DEF IsOrdered
<1>8. ASSUME NEW y \in StagedIn(s), NEW i \in DOMAIN s.todo PROVE Before(y, s.todo[i])
  <2>1. i + 1 \in DOMAIN t.todo /\ s.todo[i] = t.todo[i + 1] /\ 1 < i + 1
    BY <1>3, <1>5
  <2>2. CASE y \in StagedIn(t)
    BY <2>1, <2>2 DEF TxnFits
  <2>3. CASE y = x
    BY <1>2, <2>1, <2>3 DEF TxnFits, IsOrdered
  <2>4. QED
    BY <1>6, <2>2, <2>3
<1>9. ASSUME NEW y \in StagedIn(s)
      PROVE  LinkIsTrue(s.staged[y], y, ever \cup StagedIn(s))
  <2>1. CASE y \in StagedIn(t)
    BY <1>6, <2>1 DEF TxnFits, LinkIsTrue
  <2>2. CASE y = x
    BY <1>6, <1>9, <2>2 DEF TxnFits, LinkIsTrue, x
  <2>3. QED
    BY <1>6, <2>1, <2>2
<1>10. ASSUME NEW c \in StagedIn(s), NEW p \in StagedIn(s), Before(p, c)
       PROVE  Linked(s.staged[c], c, p, s.staged[p])
  <2>1. CASE c \in StagedIn(t) /\ p \in StagedIn(t)
    BY <1>6, <1>10, <2>1 DEF TxnFits
  <2>2. CASE c = x /\ p \in StagedIn(t)
    BY <1>6, <1>10, <2>2 DEF TxnFits, x
  <2>3. CASE p = x
    <3>1. c \in StagedIn(t) => Before(c, x)
      BY <1>2 DEF TxnFits
    <3>2. ~(Before(x, c) /\ Before(c, x)) /\ ~Before(x, x)
      BY <1>2, BeforeIsOrder DEF StagedIn
    <3>3. QED
      BY <1>6, <1>10, <2>3, <3>1, <3>2
  <2>4. QED
    BY <1>6, <2>1, <2>2, <2>3
<1>11. TxnFits(s, ever)
  BY <1>5, <1>7, <1>8, <1>9, <1>10 DEF TxnFits
<1>12. QED
  BY <1>11 DEF s, x

-------------------------------------------------------------------------------
(* The whole system. *)

Reported(row) ==
  row.digest # None =>
    \E e \in delivered : ContainerOf[e] = row.container /\ Digest(e) = row.digest

RowsHeld ==
  {execRow[x] : x \in Execs} \cup {txn[w].row : w \in Workers}
    \cup UNION {{txn[w].staged[x] : x \in Execs} : w \in Workers}

IngestionInv ==
  /\ IdentitiesInv
  /\ everRow \in SUBSET Execs
  /\ aborts \in 0..MaxAborts
  /\ execRow \in [Execs -> Rows \cup {None}]
  /\ \A x \in Execs : execRow[x] # None => x \in everRow /\ LinkIsTrue(execRow[x], x, everRow)
  /\ txn \in [Workers -> Transactions]
  /\ \A w \in Workers : TxnFits(txn[w], everRow)
  /\ \A row \in RowsHeld : row # None => Reported(row)

LEMMA ResolvedIs ==
  ASSUME NEW x \in Execs
  PROVE  /\ Resolved(x) = None \/ (Resolved(x) \in Containers /\ containerRow[Resolved(x)] # None)
         /\ Correlation(x) \in {"resolved", "unresolved", "ambiguous"}
<1>1. CASE Correlation(x) = "resolved"
  <2>1. Cardinality(Candidates(x)) = 1
    BY <1>1 DEF Correlation
  <2>2. Candidates(x) # {}
    BY <2>1, FS_EmptySet
  <2>3. Resolved(x) \in Candidates(x)
    BY <1>1, <2>2 DEF Resolved
  <2>4. ExecOf[x].reports \subseteq Containers
    BY IngestionAssumption DEF IngestionAssumption
  <2>5. QED
    BY <1>1, <2>3, <2>4 DEF Candidates
<1>2. CASE Correlation(x) # "resolved"
  BY <1>2 DEF Resolved, Correlation
<1>3. QED
  BY <1>1, <1>2

(* The parent that is found, beside every row the transaction has staged.   *)
LEMMA ParentFits ==
  ASSUME IngestionInv, NEW w \in Workers, NEW x \in Execs, NEW parent \in Parents(w, x),
         NEW row, row.parent = parent, row.container = Resolved(x),
         \A p \in StagedIn(txn[w]) : Before(p, x)
  PROVE  /\ parent \in Execs \cup {None}
         /\ LinkIsTrue(row, x, everRow \cup StagedIn(txn[w]))
         /\ \A p \in StagedIn(txn[w]) : Linked(row, x, p, txn[w].staged[p])
<1> DEFINE t == txn[w]
<1>1. t \in Transactions /\ t.staged \in [Execs -> Rows \cup {None}]
  BY DEF IngestionInv, Transactions
<1>2. None \notin Execs /\ \A p \in Execs : ExecOf[p].at \in Nat /\ ExecOf[p].pid \in Nat \ {0}
  BY IngestionAssumption DEF IngestionAssumption
<1>3. ParentRows(w, x) \subseteq Execs
  BY DEF ParentRows
<1>4. /\ parent \in ParentRows(w, x) \cup {None}
      /\ parent # None => \A q \in ParentRows(w, x) : ExecOf[q].at <= ExecOf[parent].at
      /\ parent = None => ExecOf[x].ppid = 0 \/ ParentRows(w, x) = {}
  BY <1>2, <1>3 DEF Parents
<1>5. LinkIsTrue(row, x, everRow \cup StagedIn(t))
  <2> SUFFICES ASSUME parent # None
               PROVE  /\ parent \in everRow \cup StagedIn(t)
                      /\ ExecOf[parent].pid = ExecOf[x].ppid /\ ExecOf[parent].at <= ExecOf[x].at
    BY DEF LinkIsTrue
  <2>1. parent \in ParentRows(w, x) /\ parent \in Execs
    BY <1>3, <1>4
  <2>2. t.staged[parent] # None \/ execRow[parent] # None
    BY <2>1 DEF ParentRows, Visible, Coalesce
  <2>3. QED
    BY <2>1, <2>2 DEF ParentRows, StagedIn, IngestionInv
<1>6. ASSUME NEW p \in StagedIn(t), Resolved(x) # None
      PROVE  /\ /\ t.staged[p].container = Resolved(x)
                /\ ExecOf[p].pid = ExecOf[x].ppid
                /\ ExecOf[p].at + Lookback >= ExecOf[x].at
                => parent # None /\ ExecOf[parent].at >= ExecOf[p].at
             /\ parent = p => t.staged[p].container = Resolved(x)
  <2>1. p \in Execs /\ Visible(w)[p] = t.staged[p] /\ Visible(w)[p] # None
    BY <1>6 DEF StagedIn, Visible, Coalesce
  <2>2. ExecOf[p].at <= ExecOf[x].at
    BY <1>2, <1>6, <2>1, BeforeIs
  <2>3. ASSUME t.staged[p].container = Resolved(x), ExecOf[p].pid = ExecOf[x].ppid,
               ExecOf[p].at + Lookback >= ExecOf[x].at
        PROVE  parent # None /\ ExecOf[parent].at >= ExecOf[p].at
    <3>1. p \in ParentRows(w, x) /\ ExecOf[x].ppid # 0
      BY <1>2, <2>1, <2>2, <2>3 DEF ParentRows
    <3>2. parent # None /\ parent \in Execs /\ ExecOf[p].at <= ExecOf[parent].at
      BY <1>3, <1>4, <3>1
    <3>3. PICK a, b \in Nat : a = ExecOf[p].at /\ b = ExecOf[parent].at
      BY <1>2, <2>1, <3>2
    <3>4. QED
      BY <3>2, <3>3
  <2>4. ASSUME parent = p PROVE t.staged[p].container = Resolved(x)
    BY <1>2, <1>4, <1>6, <2>1, <2>4 DEF ParentRows
  <2>5. QED
    BY <2>3, <2>4
<1>7. QED
  BY <1>3, <1>4, <1>5, <1>6 DEF Linked

(* A digest that was reported stays so.                                     *)
LEMMA StaysReported ==
  ASSUME IdentitiesInv, delivered \subseteq delivered', NEW row, Reported(row),
         \A e \in Captured : payload'[e] = payload[e]
  PROVE  Reported(row)'
<1>1. \A e \in delivered : payload'[e] = payload[e]
  BY DEF IdentitiesInv
<1>2. \A e \in delivered : Digest(e)' = Digest(e)
  BY <1>1 DEF Digest, Snapshot
<1>3. QED
  BY <1>2 DEF Reported

(* When only one transaction changes and no row is stored.                  *)
LEMMA OneTxnStep ==
  ASSUME IngestionInv, UNCHANGED <<identityVars, execRow, everRow>>, aborts' \in 0..MaxAborts,
         NEW w \in Workers, NEW t, txn' = [txn EXCEPT ![w] = t], TxnFits(t, everRow),
         \A x \in Execs : t.staged[x] \in RowsHeld \cup {None},
         t.row = None \/ Reported(t.row)
  PROVE  IngestionInv'
<1>1. IdentitiesInv'
  <2>1. IdentitiesInv
    BY DEF IngestionInv
  <2>2. CollectorInv'
    BY <2>1 DEF IdentitiesInv, CollectorInv, identityVars
  <2>3. QED
    BY <2>1, <2>2, CaptureStep DEF identityVars
<1>2. t \in Transactions
  BY DEF TxnFits
<1>3. txn' \in [Workers -> Transactions] /\ \A v \in Workers : txn'[v] = IF v = w THEN t ELSE txn[v]
  BY <1>2 DEF IngestionInv
<1>4. \A v \in Workers : TxnFits(txn'[v], everRow)
  BY <1>3 DEF IngestionInv
<1>5. RowsHeld' \subseteq RowsHeld \cup {None, t.row}
  BY <1>3 DEF RowsHeld
<1>6. \A row : Reported(row)' <=> Reported(row)
  BY DEF Reported, Digest, Snapshot, identityVars
<1>7. \A row \in RowsHeld' : row # None => Reported(row)'
  BY <1>5, <1>6 DEF IngestionInv
<1>8. QED
  BY <1>1, <1>3, <1>4, <1>7 DEF IngestionInv, LinkIsTrue

LEMMA IngestionStart ==
  ASSUME Init
  PROVE  IngestionInv
<1>1. IdentitiesInv
  BY IdentitiesStart DEF Init
<1>2. Idle \in Transactions /\ Idle.row = None /\ \A x \in Execs : Idle.staged[x] = None
  BY DEF Idle, NothingStaged, Transactions
<1>3. \A w \in Workers : TxnFits(txn[w], everRow)
  BY IdleFits DEF Init
<1>4. RowsHeld \subseteq {None}
  BY <1>2 DEF Init, RowsHeld
<1>5. MaxAborts \in Nat
  BY IngestionAssumption DEF IngestionAssumption
<1>6. QED
  BY <1>1, <1>2, <1>3, <1>4, <1>5 DEF Init, IngestionInv

LEMMA IdleStep ==
  ASSUME IngestionInv, UNCHANGED <<identityVars, execRow, everRow>>, aborts' \in 0..MaxAborts,
         NEW w \in Workers, txn' = [txn EXCEPT ![w] = Idle]
  PROVE  IngestionInv'
<1>1. Idle.row = None /\ \A x \in Execs : Idle.staged[x] = None
  BY DEF Idle, NothingStaged
<1>2. QED
  BY <1>1, IdleFits, OneTxnStep

LEMMA ReceiveStep ==
  ASSUME IngestionInv, NEW w \in Workers, NEW batch \in SUBSET Execs, Receive(w, batch)
  PROVE  IngestionInv'
<1> DEFINE t == [Idle EXCEPT !.pc = "next", !.todo = Ordered(batch)]
<1>1. t.row = None /\ \A x \in Execs : t.staged[x] = None
  BY DEF Idle, NothingStaged
<1>2. TxnFits(t, everRow)
  BY ReceivedFits
<1>3. txn' = [txn EXCEPT ![w] = t] /\ aborts' \in 0..MaxAborts
      /\ UNCHANGED <<identityVars, execRow, everRow>>
  BY DEF Receive, IngestionInv
<1> HIDE DEF t
<1>4. QED
  BY <1>1, <1>2, <1>3, OneTxnStep

LEMMA CorrelateStep ==
  ASSUME IngestionInv, NEW w \in Workers, Correlate(w)
  PROVE  IngestionInv'
<1> DEFINE t == txn[w]
           x == Head(t.todo)
<1>1. t \in Transactions /\ TxnFits(t, everRow) /\ t.pc = "next" /\ t.todo # <<>>
      /\ t.todo \in Seq(Execs)
  BY DEF Correlate, IngestionInv, Transactions
<1>2. x \in Execs /\ x = t.todo[1] /\ 1 \in DOMAIN t.todo
  BY <1>1
<1> DEFINE digest == IF Resolved(x) = None THEN None ELSE containerRow[Resolved(x)].digest
           Row(parent) == [container |-> Resolved(x), correlation |-> Correlation(x),
                           digest |-> digest, parent |-> parent]
<1>3. PICK parent \in Parents(w, x) :
        txn' = [txn EXCEPT ![w].pc = "insert", ![w].row = Row(parent)]
  BY DEF Correlate
<1> DEFINE row == Row(parent)
           s == [t EXCEPT !.pc = "insert", !.row = row]
<1>4. \A p \in StagedIn(t) : Before(p, x)
  BY <1>1, <1>2 DEF TxnFits
<1>5. /\ parent \in Execs \cup {None}
      /\ LinkIsTrue(row, x, everRow \cup StagedIn(t))
      /\ \A p \in StagedIn(t) : Linked(row, x, p, t.staged[p])
  <2>1. row.parent = parent /\ row.container = Resolved(x)
    OBVIOUS
  <2> HIDE DEF row
  <2>2. QED
    BY <1>2, <1>4, <2>1, ParentFits
<1>6. digest \in Images \cup {None} /\ Reported(row)
  <2>1. CASE Resolved(x) = None
    BY <2>1 DEF Reported
  <2>2. CASE Resolved(x) # None
    <3> DEFINE c == Resolved(x)
    <3>1. c \in Containers /\ containerRow[c] # None
      BY <1>2, <2>2, ResolvedIs
    <3>2. RowFits(containerRow[c], c, delivered)
      BY <3>1 DEF IngestionInv, IdentitiesInv, ContainersFit
    <3>3. containerRow[c] \in ContainerRows /\ digest = containerRow[c].digest
      BY <2>2, <3>1, <3>2 DEF RowFits
    <3>4. digest # None => \E e \in AboutIt(delivered, c) : Digest(e) = digest
      BY <3>1, <3>2, <3>3 DEF RowFits
    <3>5. row.digest = digest /\ row.container = c
      OBVIOUS
    <3> HIDE DEF row, digest, c
    <3>6. QED
      BY <3>3, <3>4, <3>5 DEF Reported, AboutIt, ContainerRows
  <2>3. QED
    BY <2>1, <2>2
<1>7. row \in Rows
  <2>1. Resolved(x) \in Containers \cup {None}
        /\ Correlation(x) \in {"resolved", "unresolved", "ambiguous"}
    BY <1>2, ResolvedIs
  <2> HIDE DEF digest
  <2>2. QED
    BY <1>5, <1>6, <2>1 DEF Rows
<1> HIDE DEF row
<1>8. TxnFits(s, everRow)
  BY <1>1, <1>5, <1>7, CorrelatedFits
<1>9. txn' = [txn EXCEPT ![w] = s]
  BY <1>3 DEF row
<1>10. s.row = row /\ s.staged = t.staged
  BY <1>1 DEF Transactions
<1>11. \A y \in Execs : s.staged[y] \in RowsHeld
  BY <1>10 DEF RowsHeld
<1>12. UNCHANGED <<identityVars, execRow, everRow>> /\ aborts' \in 0..MaxAborts
  BY DEF Correlate, IngestionInv
<1> HIDE DEF s, t, x
<1>13. QED
  BY <1>6, <1>8, <1>9, <1>10, <1>11, <1>12, OneTxnStep

LEMMA InsertStep ==
  ASSUME IngestionInv, NEW w \in Workers, Insert(w)
  PROVE  IngestionInv'
<1> DEFINE t == txn[w]
           x == Head(t.todo)
           new == IF Visible(w)[x] = None THEN t.row ELSE t.staged[x]
           s == [t EXCEPT !.pc = "next", !.todo = Tail(t.todo), !.row = None,
                          !.staged = [t.staged EXCEPT ![x] = new]]
<1>1. t \in Transactions /\ TxnFits(t, everRow) /\ t.pc = "insert" /\ txn \in [Workers -> Transactions]
  BY DEF Insert, IngestionInv
<1>2. txn' = [txn EXCEPT ![w] = s]
  BY <1>1 DEF Insert, Transactions
<1>3. TxnFits(s, everRow)
  <2>1. new = t.staged[x] \/ new = t.row
    OBVIOUS
  <2> HIDE DEF new
  <2>2. QED
    BY <1>1, <2>1, InsertedFits
<1>4. s.row = None /\ s.staged = [t.staged EXCEPT ![x] = new] /\ t.staged \in [Execs -> Rows \cup {None}]
  BY <1>1 DEF Transactions
<1>5. t.row \in RowsHeld /\ \A y \in Execs : t.staged[y] \in RowsHeld
  BY DEF RowsHeld
<1>6. \A y \in Execs : s.staged[y] \in RowsHeld
  BY <1>4, <1>5
<1>7. UNCHANGED <<identityVars, execRow, everRow>> /\ aborts' \in 0..MaxAborts
  BY DEF Insert, IngestionInv
<1> HIDE DEF s, t
<1>8. QED
  BY <1>2, <1>3, <1>4, <1>6, <1>7, OneTxnStep

LEMMA CommitStep ==
  ASSUME IngestionInv, NEW w \in Workers, Commit(w)
  PROVE  IngestionInv'
<1> DEFINE t == txn[w]
<1>1. t \in Transactions /\ t.staged \in [Execs -> Rows \cup {None}] /\ TxnFits(t, everRow)
  BY DEF IngestionInv, Transactions
<1>2. /\ execRow' = [x \in Execs |-> IF t.staged[x] # None THEN t.staged[x] ELSE execRow[x]]
      /\ everRow' = everRow \cup StagedIn(t)
      /\ txn' = [txn EXCEPT ![w] = Idle]
      /\ UNCHANGED <<identityVars, aborts>>
  BY DEF Commit, Visible, Coalesce, StagedIn
<1>3. IdentitiesInv'
  <2>1. IdentitiesInv
    BY DEF IngestionInv
  <2>2. CollectorInv'
    BY <1>2, <2>1 DEF IdentitiesInv, CollectorInv, identityVars
  <2>3. QED
    BY <1>2, <2>1, <2>2, CaptureStep DEF identityVars
<1>4. everRow' \in SUBSET Execs /\ execRow' \in [Execs -> Rows \cup {None}]
  BY <1>1, <1>2 DEF IngestionInv, StagedIn
<1>5. ASSUME NEW x \in Execs, execRow'[x] # None
      PROVE  x \in everRow' /\ LinkIsTrue(execRow'[x], x, everRow')
  <2>1. CASE x \in StagedIn(t)
    BY <1>1, <1>2, <2>1 DEF TxnFits, StagedIn
  <2>2. CASE x \notin StagedIn(t)
    BY <1>2, <1>5, <2>2 DEF IngestionInv, StagedIn, LinkIsTrue
  <2>3. QED
    BY <2>1, <2>2
<1>6. Idle \in Transactions /\ Idle.row = None /\ \A x \in Execs : Idle.staged[x] = None
  BY DEF Idle, NothingStaged, Transactions
<1>7. txn' \in [Workers -> Transactions] /\ \A v \in Workers : txn'[v] = IF v = w THEN Idle ELSE txn[v]
  BY <1>2, <1>6 DEF IngestionInv
<1>8. ASSUME NEW v \in Workers PROVE TxnFits(txn'[v], everRow')
  <2>1. CASE v = w
    BY <1>7, <2>1, IdleFits
  <2>2. CASE v # w
    <3>1. txn'[v] = txn[v] /\ TxnFits(txn[v], everRow) /\ everRow \subseteq everRow'
      BY <1>2, <1>7, <2>2 DEF IngestionInv
    <3>2. QED
      BY <3>1, MoreEver
  <2>3. QED
    BY <2>1, <2>2
<1>9. RowsHeld' \subseteq RowsHeld \cup {None}
  <2>1. \A x \in Execs : execRow'[x] \in RowsHeld
    BY <1>2 DEF RowsHeld
  <2>2. \A v \in Workers, x \in Execs : txn'[v].staged[x] \in RowsHeld \cup {None}
    BY <1>6, <1>7 DEF RowsHeld
  <2>3. \A v \in Workers : txn'[v].row \in RowsHeld \cup {None}
    BY <1>6, <1>7 DEF RowsHeld
  <2>4. RowsHeld' = {execRow'[x] : x \in Execs} \cup {txn'[v].row : v \in Workers}
                      \cup UNION {{txn'[v].staged[x] : x \in Execs} : v \in Workers}
    BY DEF RowsHeld
  <2> HIDE DEF t
  <2>5. ASSUME NEW row \in RowsHeld' PROVE row \in RowsHeld \cup {None}
    BY <2>1, <2>2, <2>3, <2>4
  <2>6. QED
    BY <2>5
<1>10. \A row : Reported(row)' <=> Reported(row)
  BY <1>2 DEF Reported, Digest, Snapshot, identityVars
<1>11. \A row \in RowsHeld' : row # None => Reported(row)'
  BY <1>9, <1>10 DEF IngestionInv
<1>12. aborts' \in 0..MaxAborts
  BY <1>2 DEF IngestionInv
<1>13. QED
  BY <1>3, <1>4, <1>5, <1>7, <1>8, <1>11, <1>12 DEF IngestionInv, LinkIsTrue

LEMMA AbortStep ==
  ASSUME IngestionInv, NEW w \in Workers, Abort(w)
  PROVE  IngestionInv'
<1>1. aborts' \in 0..MaxAborts
  <2>1. aborts \in 0..MaxAborts /\ MaxAborts \in Nat
    BY IngestionAssumption DEF IngestionInv, IngestionAssumption
  <2>2. QED
    BY <2>1 DEF Abort
<1>2. QED
  BY <1>1, IdleStep DEF Abort

LEMMA RetainStep ==
  ASSUME IngestionInv, Retain
  PROVE  IngestionInv'
<1>1. /\ execRow' \in [Execs -> Rows \cup {None}]
      /\ \A x \in Execs : execRow'[x] \in {execRow[x], None}
  BY DEF Retain, IngestionInv
<1>2. runtime' \in SUBSET RuntimeEvents
  BY DEF Retain, IngestionInv, IdentitiesInv
<1>3. UNCHANGED <<payload, cache, delivered, containerRow, imageRow, everRow, txn, aborts>>
  BY DEF Retain
<1>4. IdentitiesInv'
  <2>1. CollectorInv' /\ Captured' = Captured
    BY <1>3 DEF IngestionInv, IdentitiesInv, CollectorInv, Captured
  <2>2. ContainersFit(containerRow, delivered)' /\ ImagesFit(imageRow)'
    BY <1>3 DEF IngestionInv, IdentitiesInv, ContainersFit, ContainerTable, RowFits, AboutIt,
                Snapshot, Digest, ImagesFit, ImageTable, ImageFits
  <2>3. QED
    BY <1>2, <1>3, <2>1, <2>2 DEF IngestionInv, IdentitiesInv
<1>5. \A x \in Execs : execRow'[x] # None => x \in everRow' /\ LinkIsTrue(execRow'[x], x, everRow')
  BY <1>1, <1>3 DEF IngestionInv
<1>6. RowsHeld' \subseteq RowsHeld \cup {None}
  BY <1>1, <1>3 DEF RowsHeld
<1>7. \A row : Reported(row)' <=> Reported(row)
  BY <1>3 DEF Reported, Digest, Snapshot
<1>8. QED
  BY <1>1, <1>3, <1>4, <1>5, <1>6, <1>7 DEF IngestionInv, LinkIsTrue

LEMMA IdentityStep ==
  ASSUME IngestionInv, IdentitiesNext, UNCHANGED <<execRow, everRow, txn, aborts>>
  PROVE  IngestionInv'
<1>1. IdentitiesInv /\ IdentitiesInv'
  BY IdentitiesNextStep DEF IngestionInv
<1>2. delivered \subseteq delivered' /\ \A e \in Captured : payload'[e] = payload[e]
  <2>1. ASSUME NEW e \in RuntimeEvents, Inspected(e) \/ NotInspected(e)
        PROVE  delivered' = delivered /\ \A f \in Captured : payload'[f] = payload[f]
    BY <1>1, <2>1 DEF Inspected, NotInspected, Captured, IdentitiesInv, CollectorInv
  <2>2. ASSUME NEW batch, IngestRuntime(batch)
        PROVE  delivered \subseteq delivered' /\ payload' = payload
    BY <2>2 DEF IngestRuntime
  <2>3. QED
    BY <2>1, <2>2 DEF IdentitiesNext
<1>3. RowsHeld' = RowsHeld
  BY DEF RowsHeld
<1>4. ASSUME NEW row \in RowsHeld, row # None PROVE Reported(row)'
  BY <1>1, <1>2, <1>4, StaysReported DEF IngestionInv
<1>5. QED
  BY <1>1, <1>3, <1>4 DEF IngestionInv, LinkIsTrue

LEMMA IngestionStep ==
  ASSUME IngestionInv, [Next]_vars
  PROVE  IngestionInv'
<1>1. CASE IdentitiesNext /\ UNCHANGED <<execRow, everRow, txn, aborts>>
  BY <1>1, IdentityStep
<1>2. ASSUME NEW w \in Workers, NEW batch \in SUBSET Execs, Receive(w, batch)
      PROVE  IngestionInv'
  BY <1>2, ReceiveStep
<1>3. ASSUME NEW w \in Workers, Correlate(w) \/ Insert(w) \/ Commit(w) \/ Abort(w)
      PROVE  IngestionInv'
  BY <1>3, CorrelateStep, InsertStep, CommitStep, AbortStep
<1>4. CASE Retain
  BY <1>4, RetainStep
<1>5. CASE UNCHANGED vars
  <2>1. IdentitiesInv'
    <3>1. IdentitiesInv /\ CollectorInv'
      BY <1>5 DEF IngestionInv, IdentitiesInv, CollectorInv, vars, identityVars
    <3>2. QED
      BY <1>5, <3>1, CaptureStep DEF vars, identityVars
  <2>2. RowsHeld' = RowsHeld /\ \A row : Reported(row)' <=> Reported(row)
    BY <1>5 DEF RowsHeld, Reported, Digest, Snapshot, vars, identityVars
  <2>3. QED
    BY <1>5, <2>1, <2>2 DEF IngestionInv, LinkIsTrue, vars
<1>6. QED
  BY <1>1, <1>2, <1>3, <1>4, <1>5 DEF Next

(* Every reachable state: the inductive invariant of ingestion.             *)
THEOREM IngestionInvariant == Spec => []IngestionInv
<1>1. Init => IngestionInv
  BY IngestionStart
<1>2. IngestionInv /\ [Next]_vars => IngestionInv'
  BY IngestionStep
<1>3. QED
  BY <1>1, <1>2, PTL DEF Spec

(* The variables of ingestion and of the identities keep their types.       *)
THEOREM IngestionTypeCorrect == Spec => []TypeOK
<1>1. IngestionInv => TypeOK
  BY DEF IngestionInv, TypeOK, IdentitiesTypeOK, IdentitiesInv, CollectorInv, ContainersFit,
         ContainerTable, ImagesFit, ImageTable, Captured
<1>2. QED
  BY <1>1, IngestionInvariant, PTL

(* For any batches of any length, in any order and repeated at will, a      *)
(* container's row shows what the latest of its events saw, and spans them. *)
(* (main.py, ingest_runtime_events: the conflict clause with least and      *)
(* greatest.)                                                               *)
THEOREM RowsShowTheLatest == Spec => []LatestEventWins
<1>1. ASSUME IngestionInv, NEW c \in Containers, EventsOf(c) # {}
      PROVE  LET row == containerRow[c]
                 latest == Latest(EventsOf(c))
                 digests == {Digest(e) : e \in latest} \ {None}
                 snapshots == {Snapshot(e) : e \in latest} \ {None} IN
             /\ row.last = Max({SeenAt[e] : e \in EventsOf(c)})
             /\ row.first = Min({SeenAt[e] : e \in EventsOf(c)})
             /\ digests # {} => row.digest \in digests
             /\ snapshots # {} => row.snapshot \in snapshots
  <2> DEFINE A == EventsOf(c)
             row == containerRow[c]
  <2>1. A = AboutIt(delivered, c) /\ RowFits(row, c, delivered)
    BY <1>1 DEF EventsOf, AboutIt, IngestionInv, IdentitiesInv, ContainersFit
  <2>2. row # None /\ row \in ContainerRows
    BY <1>1, <2>1 DEF RowFits
  <2>3. /\ \E e \in A : SeenAt[e] = row.last
        /\ \E e \in A : SeenAt[e] = row.first
        /\ \A e \in A : row.first <= SeenAt[e] /\ SeenAt[e] <= row.last
        /\ \A e \in A : SeenAt[e] = row.last /\ Digest(e) # None =>
             \E f \in A : SeenAt[f] = row.last /\ Digest(f) # None /\ Digest(f) = row.digest
        /\ \A e \in A : SeenAt[e] = row.last /\ Snapshot(e) # None =>
             \E f \in A : SeenAt[f] = row.last /\ Snapshot(f) # None /\ Snapshot(f) = row.snapshot
    BY <2>1, <2>2 DEF RowFits
  <2>4. \A e \in A : SeenAt[e] \in Nat
    BY <1>1, <2>1, EventFields DEF AboutIt, IngestionInv, IdentitiesInv
  <2>5. row.first \in Nat /\ row.last \in Nat
    BY <2>2 DEF ContainerRows
  <2> HIDE DEF A, row
  <2>6. Max({SeenAt[e] : e \in A}) = row.last
    BY <2>3, <2>4, <2>5 DEF Max
  <2>7. Min({SeenAt[e] : e \in A}) = row.first
    BY <2>3, <2>4, <2>5 DEF Min
  <2>8. Latest(A) = {e \in A : SeenAt[e] = row.last}
    BY <2>3, <2>4, <2>5 DEF Latest
  <2>9. QED
    BY <2>3, <2>6, <2>7, <2>8 DEF A, row
<1>2. IngestionInv => LatestEventWins
  BY <1>1 DEF LatestEventWins
<1>3. QED
  BY <1>2, IngestionInvariant, PTL

(* No row is ever stored with a digest that nobody reported for its own     *)
(* container, whatever failed inspections lie between.  (main.py,           *)
(* _resolve_container_identity and the identity upserts.)                   *)
THEOREM StoredDigestsWereReported == Spec => []DigestWasReported
<1>1. ASSUME IngestionInv PROVE DigestWasReported
  <2>1. \A x \in Execs : execRow[x] # None => Reported(execRow[x])
    BY <1>1 DEF IngestionInv, RowsHeld
  <2>2. ASSUME NEW c \in Containers, containerRow[c] # None, containerRow[c].status = "resolved"
        PROVE  containerRow[c].digest # None
                 /\ \E e \in EventsOf(c) : Digest(e) = containerRow[c].digest
    <3>1. RowFits(containerRow[c], c, delivered)
      BY <1>1 DEF IngestionInv, IdentitiesInv, ContainersFit
    <3>2. QED
      BY <2>2, <3>1 DEF RowFits, AboutIt, EventsOf
  <2>3. \A i \in Images : ImageFits(imageRow[i], i)
    BY <1>1 DEF IngestionInv, IdentitiesInv, ImagesFit
  <2>4. QED
    BY <2>1, <2>2, <2>3 DEF DigestWasReported, ResolvedHasDigest, Reported, ImageFits
<1>2. QED
  BY <1>1, IngestionInvariant, PTL

(* Whoever commits what meanwhile, and whatever is rolled back or deleted:  *)
(* a stored parent link is true, and within a batch none is missed.         *)
(* (main.py, _find_parent_event_id and ingest_process_events.)              *)
THEOREM LinksAreRight == Spec => []ParentLinksAreRight
<1>1. ASSUME IngestionInv PROVE ParentWasStored
  BY <1>1 DEF IngestionInv, LinkIsTrue, ParentWasStored
<1>2. ASSUME IngestionInv PROVE SiblingsAreLinked
  <2> SUFFICES ASSUME NEW w \in Workers, NEW c \in Execs, NEW p \in Execs,
                      StagedRow(w, c) # None, StagedRow(w, p) # None, Before(p, c)
               PROVE  Linked(StagedRow(w, c), c, p, StagedRow(w, p))
    BY DEF SiblingsAreLinked, Linked
  <2>1. TxnFits(txn[w], everRow) /\ c \in StagedIn(txn[w]) /\ p \in StagedIn(txn[w])
    BY <1>2 DEF IngestionInv, StagedIn, StagedRow
  <2>2. QED
    BY <2>1 DEF TxnFits, StagedRow
<1>3. QED
  BY <1>1, <1>2, IngestionInvariant, PTL DEF ParentLinksAreRight

(* Two workers never wait for each other: what each has inserted comes      *)
(* before what it inserts next.  (main.py, sorted(payload.events).)         *)
THEOREM NoCircle == Spec => []NobodyWaitsInACircle
<1>1. ASSUME IngestionInv, NEW v \in Workers, NEW w \in Workers, WaitsFor(v, w), WaitsFor(w, v)
      PROVE  FALSE
  <2> DEFINE x == Head(txn[v].todo)
             y == Head(txn[w].todo)
  <2>1. /\ TxnFits(txn[v], everRow) /\ txn[v].pc = "insert"
        /\ TxnFits(txn[w], everRow) /\ txn[w].pc = "insert"
        /\ txn[v] \in Transactions /\ txn[w] \in Transactions
    BY <1>1 DEF IngestionInv, WaitsFor
  <2>2. /\ x \in Execs /\ x = txn[v].todo[1] /\ 1 \in DOMAIN txn[v].todo
        /\ y \in Execs /\ y = txn[w].todo[1] /\ 1 \in DOMAIN txn[w].todo
    BY <2>1 DEF TxnFits, Transactions
  <2>3. x \in StagedIn(txn[w]) /\ y \in StagedIn(txn[v])
    BY <1>1, <2>2 DEF WaitsFor, StagedIn
  <2>4. Before(x, y) /\ Before(y, x)
    BY <2>1, <2>2, <2>3 DEF TxnFits
  <2>5. QED
    BY <2>2, <2>4, BeforeIsOrder
<1>2. IngestionInv => NobodyWaitsInACircle
  BY <1>1 DEF NobodyWaitsInACircle
<1>3. QED
  BY <1>2, IngestionInvariant, PTL
===============================================================================
