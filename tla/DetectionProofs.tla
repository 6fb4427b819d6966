---------------------------- MODULE DetectionProofs ----------------------------
(***************************************************************************)
(* Proofs about Detection, for every set of events, scores, allowlists and *)
(* custom rules, every number of requests and every baseline.              *)
(***************************************************************************)
EXTENDS Detection, FiniteLemmas

-------------------------------------------------------------------------------
(* The matches there can be when R is the set of custom rules. *)

RuleIds(R) == BuiltInRules \union {RuleOf[r].slug : r \in R}

OfScore     == {Match("POR-DET-001", <<>>, None)}
OfEvents(R) == {Match(p[1], <<p[2]>>, EventOf[p[2]].container) :
                  p \in (RuleIds(R) \ {"POR-DET-005"}) \X Events}
OfPairs     == {Match("POR-DET-005", <<p[1], p[2]>>, EventOf[p[2]].container) :
                  p \in Events \X Events}
Possible(R) == OfScore \union OfEvents(R) \union OfPairs

All(E, anomaly, R) == BuiltInMatches(E, anomaly) \union CustomMatches(R, E)

LEMMA RulesAre ==
  /\ IsFiniteSet(Events) /\ IsFiniteSet(CustomRules)
  /\ \A r \in CustomRules :
       /\ RuleOf[r].slug \in Slugs /\ RuleOf[r].slug \notin BuiltInRules
       /\ RuleOf[r].severity \in 0..100 /\ RuleOf[r].confidence \in 0..100
       /\ RuleOf[r].incident_eligible \in BOOLEAN
  /\ \A e \in Events : Ids[e] \in Nat /\ EventOf[e].at \in Nat
<1>1. \A r \in CustomRules : RuleOf[r] \in CustomRule
  BY RulesAssumption DEF RulesAssumption
<1>2. \A e \in Events : EventOf[e].at \in Nat
  <2>1. \A e \in Events : EventOf[e] \in ExecEvents \/ EventOf[e] \in DockerEvents
    BY RulesAssumption DEF RulesAssumption
  <2>2. QED
    BY <2>1 DEF ExecEvents, DockerEvents
<1>3. QED
  BY <1>1, <1>2, RulesAssumption DEF RulesAssumption, CustomRule

LEMMA PossibleIsFinite ==
  ASSUME NEW R \in SUBSET CustomRules
  PROVE  IsFiniteSet(Possible(R))
<1>1. IsFiniteSet(RuleIds(R))
  <2>1. IsFiniteSet(R)
    BY RulesAre, FS_Subset
  <2>2. IsFiniteSet({RuleOf[r].slug : r \in R})
    <3> DEFINE g == [r \in R |-> RuleOf[r].slug]
    <3>1. IsFiniteSet({g[r] : r \in R})
      BY <2>1, ImageIsFinite
    <3>2. QED
      BY <3>1
  <2>3. IsFiniteSet(BuiltInRules)
    <3> DEFINE g == <<"POR-DET-001", "POR-DET-002", "POR-DET-003", "POR-DET-004", "POR-DET-005",
                      "POR-DET-006", "POR-DET-007">>
    <3>1. DOMAIN g = 1..7 /\ 7 \in Nat
      OBVIOUS
    <3>2. IsFiniteSet({g[i] : i \in 1..7})
      <4> HIDE DEF g
      <4>1. QED
        BY <3>1, ListIsFinite
    <3>3. BuiltInRules \subseteq {g[i] : i \in 1..7}
      <4>1. /\ g[1] = "POR-DET-001" /\ g[2] = "POR-DET-002" /\ g[3] = "POR-DET-003"
            /\ g[4] = "POR-DET-004" /\ g[5] = "POR-DET-005" /\ g[6] = "POR-DET-006"
            /\ g[7] = "POR-DET-007"
        OBVIOUS
      <4> HIDE DEF g
      <4>2. QED
        BY <4>1 DEF BuiltInRules
    <3>4. QED
      <4> HIDE DEF g
      <4>1. QED
        BY <3>2, <3>3, FS_Subset
  <2>4. QED
    BY <2>2, <2>3, FS_Union DEF RuleIds
<1>2. IsFiniteSet(OfEvents(R))
  <2> DEFINE D == (RuleIds(R) \ {"POR-DET-005"}) \X Events
  <2>1. IsFiniteSet(D)
    <3>1. IsFiniteSet(RuleIds(R) \ {"POR-DET-005"})
      BY <1>1, FS_Subset
    <3>2. QED
      BY <3>1, RulesAre, FS_Product
  <2> HIDE DEF D
  <2>2. IsFiniteSet({Match(p[1], <<p[2]>>, EventOf[p[2]].container) : p \in D})
    <3> DEFINE g == [p \in D |-> Match(p[1], <<p[2]>>, EventOf[p[2]].container)]
    <3>1. IsFiniteSet({g[p] : p \in D})
      BY <2>1, ImageIsFinite
    <3>2. QED
      BY <3>1
  <2>3. QED
    BY <2>2 DEF OfEvents, D
<1>3. IsFiniteSet(OfPairs)
  <2> DEFINE D == Events \X Events
  <2>1. IsFiniteSet(D)
    BY RulesAre, FS_Product
  <2> HIDE DEF D
  <2>2. IsFiniteSet({Match("POR-DET-005", <<p[1], p[2]>>, EventOf[p[2]].container) : p \in D})
    <3> DEFINE g == [p \in D |-> Match("POR-DET-005", <<p[1], p[2]>>, EventOf[p[2]].container)]
    <3>1. IsFiniteSet({g[p] : p \in D})
      BY <2>1, ImageIsFinite
    <3>2. QED
      BY <3>1
  <2>3. QED
    BY <2>2 DEF OfPairs, D
<1>4. IsFiniteSet(OfScore)
  BY FS_Singleton DEF OfScore
<1>5. QED
  BY <1>2, <1>3, <1>4, FS_Union DEF Possible

LEMMA MatchesArePossible ==
  ASSUME NEW E \in SUBSET Events, NEW R \in SUBSET CustomRules, NEW anomaly
  PROVE  All(E, anomaly, R) \in SUBSET Possible(R)
<1>1. \A rule \in RuleIds(R) \ {"POR-DET-005"}, e \in E :
        Match(rule, <<e>>, EventOf[e].container) \in OfEvents(R)
  <2> SUFFICES ASSUME NEW rule \in RuleIds(R) \ {"POR-DET-005"}, NEW e \in E
               PROVE  Match(rule, <<e>>, EventOf[e].container) \in OfEvents(R)
    OBVIOUS
  <2> DEFINE p == <<rule, e>>
  <2>1. p \in (RuleIds(R) \ {"POR-DET-005"}) \X Events /\ p[1] = rule /\ p[2] = e
    OBVIOUS
  <2>2. QED
    BY <2>1 DEF OfEvents
<1>2. \A rule \in RuleIds(R) \ {"POR-DET-005"}, F \in SUBSET E : OfEach(rule, F) \subseteq OfEvents(R)
  BY <1>1 DEF OfEach
<1>3. BuiltInMatches(E, anomaly) \subseteq Possible(R)
  <2>1. /\ UnseenShells(E) \in SUBSET E /\ UnseenTools(E) \in SUBSET E /\ Reported(E) \in SUBSET E
        /\ Processes(E) \in SUBSET E /\ Runtime(E) \in SUBSET E
    BY DEF UnseenShells, UnseenTools, Reported, Processes, Runtime
  <2>2. {"POR-DET-002", "POR-DET-003", "POR-DET-004", "POR-DET-006", "POR-DET-007"}
          \subseteq RuleIds(R) \ {"POR-DET-005"}
    BY DEF RuleIds, BuiltInRules
  <2>3. {Match("POR-DET-005", pair, EventOf[pair[2]].container) : pair \in Sequences_(E)}
          \subseteq OfPairs
    <3>1. ASSUME NEW pair \in Sequences_(E)
          PROVE  pair \in Events \X Events /\ pair = <<pair[1], pair[2]>>
      BY <2>1 DEF Sequences_
    <3>2. QED
      BY <3>1 DEF OfPairs
  <2>4. /\ OfEach("POR-DET-002", UnseenShells(E)) \subseteq OfEvents(R)
        /\ OfEach("POR-DET-003", {e \in Processes(E) : EventOf[e].uid = 0 /\ 0 \notin KnownUids})
             \subseteq OfEvents(R)
        /\ OfEach("POR-DET-004", Reported(E)) \subseteq OfEvents(R)
        /\ OfEach("POR-DET-006", {e \in Runtime(E) : EventOf[e].action = "exec_start"})
             \subseteq OfEvents(R)
        /\ OfEach("POR-DET-007", {e \in Runtime(E) : /\ EventOf[e].privileged
                                                     /\ EventOf[e].action \in {"create", "start"}})
             \subseteq OfEvents(R)
    BY <1>2, <2>1, <2>2
  <2>5. (IF anomaly >= 50 THEN {Match("POR-DET-001", <<>>, None)} ELSE {}) \subseteq OfScore
    BY DEF OfScore
  <2>6. QED
    BY <2>3, <2>4, <2>5 DEF BuiltInMatches, Possible
<1>4. CustomMatches(R, E) \subseteq OfEvents(R)
  <2> SUFFICES ASSUME NEW m \in CustomMatches(R, E) PROVE m \in OfEvents(R)
    OBVIOUS
  <2>0. PICK r \in R, e \in E : m = Match(RuleOf[r].slug, <<e>>, EventOf[e].container)
    BY DEF CustomMatches, Processes, Runtime
  <2>1. RuleOf[r].slug \in RuleIds(R) \ {"POR-DET-005"}
    BY RulesAre DEF RuleIds, BuiltInRules
  <2>2. QED
    BY <1>1, <2>0, <2>1
<1>5. QED
  BY <1>3, <1>4 DEF All, Possible

-------------------------------------------------------------------------------
(* The order of the matches. *)

Digits == [1..5 -> Nat]

LEMMA BeforeIs ==
  ASSUME NEW p \in Digits, NEW q \in Digits
  PROVE  Before(p, q) <=> \/ p[1] < q[1]
                          \/ p[1] = q[1] /\ p[2] < q[2]
                          \/ p[1] = q[1] /\ p[2] = q[2] /\ p[3] < q[3]
                          \/ p[1] = q[1] /\ p[2] = q[2] /\ p[3] = q[3] /\ p[4] < q[4]
                          \/ p[1] = q[1] /\ p[2] = q[2] /\ p[3] = q[3] /\ p[4] = q[4] /\ p[5] < q[5]
<1>1. /\ 1..1 - 1 = {} /\ 1..2 - 1 = {1} /\ 1..3 - 1 = {1, 2} /\ 1..4 - 1 = {1, 2, 3}
      /\ 1..5 - 1 = {1, 2, 3, 4} /\ 1..5 = {1, 2, 3, 4, 5}
  OBVIOUS
<1> DEFINE first(i) == p[i] < q[i] /\ \A j \in 1..i - 1 : p[j] = q[j]
<1>2. Before(p, q) <=> first(1) \/ first(2) \/ first(3) \/ first(4) \/ first(5)
  <2>1. Before(p, q) <=> \E i \in {1, 2, 3, 4, 5} : first(i)
    BY <1>1 DEF Before
  <2> HIDE DEF first
  <2>2. QED
    BY <2>1
<1>3. QED
  BY <1>1, <1>2

LEMMA BeforeIsOrder ==
  ASSUME NEW p \in Digits, NEW q \in Digits, NEW r \in Digits
  PROVE  /\ ~(Before(p, q) /\ Before(q, p))
         /\ p # q => Before(p, q) \/ Before(q, p)
         /\ Before(p, q) /\ Before(q, r) => Before(p, r)
<1>1. \A i \in 1..5 : p[i] \in Nat /\ q[i] \in Nat /\ r[i] \in Nat
  BY DEF Digits
<1>2. /\ p[1] \in Nat /\ p[2] \in Nat /\ p[3] \in Nat /\ p[4] \in Nat /\ p[5] \in Nat
      /\ q[1] \in Nat /\ q[2] \in Nat /\ q[3] \in Nat /\ q[4] \in Nat /\ q[5] \in Nat
      /\ r[1] \in Nat /\ r[2] \in Nat /\ r[3] \in Nat /\ r[4] \in Nat /\ r[5] \in Nat
  BY <1>1
<1>3. p # q => p[1] # q[1] \/ p[2] # q[2] \/ p[3] # q[3] \/ p[4] # q[4] \/ p[5] # q[5]
  <2>1. p # q => \E i \in 1..5 : p[i] # q[i]
    BY DEF Digits
  <2>2. QED
    BY <2>1
<1>4. ~(Before(p, q) /\ Before(q, p))
  BY <1>2, BeforeIs
<1>5. p # q => Before(p, q) \/ Before(q, p)
  BY <1>2, <1>3, BeforeIs
<1>6. Before(p, q) /\ Before(q, r) => Before(p, r)
  BY <1>2, BeforeIs
<1>7. QED
  BY <1>4, <1>5, <1>6

LEMMA PossibleFields ==
  ASSUME NEW R \in SUBSET CustomRules, NEW m \in Possible(R)
  PROVE  \/ m = Match("POR-DET-001", <<>>, None)
         \/ \E rule \in RuleIds(R) \ {"POR-DET-005"}, e \in Events :
              m = Match(rule, <<e>>, EventOf[e].container)
         \/ \E d, e \in Events : m = Match("POR-DET-005", <<d, e>>, EventOf[e].container)
BY DEF Possible, OfScore, OfEvents, OfPairs

LEMMA RuleIdsAre ==
  ASSUME NEW R \in SUBSET CustomRules
  PROVE  /\ RuleIds(R) \subseteq BuiltInRules \union Slugs
         /\ BuiltInRules \subseteq RuleIds(R)
         /\ {"POR-DET-001", "POR-DET-005"} \subseteq BuiltInRules
         /\ \A rule \in RuleIds(R) : RuleOrder[rule] \in Nat
BY RulesAre, RulesAssumption DEF RulesAssumption, RuleIds, BuiltInRules

(* A match is known by its place.                                           *)
LEMMA PlaceOfMatch ==
  ASSUME NEW R \in SUBSET CustomRules, NEW m \in Possible(R)
  PROVE  Place(m) \in Digits
<1>1. CASE m = Match("POR-DET-001", <<>>, None)
  <2>1. Place(m) = <<1, 0, 0, 0, 0>>
    BY <1>1 DEF Place, Match
  <2>2. QED
    BY <2>1 DEF Digits
<1>2. ASSUME NEW rule \in RuleIds(R), NEW e \in Events,
             m = Match(rule, <<e>>, EventOf[e].container)
      PROVE  Place(m) \in Digits
  <2>1. Place(m) = <<0, EventOf[e].at, RuleOrder[rule], Ids[e], Ids[e]>>
    BY <1>2 DEF Place, Match
  <2>2. QED
    BY <2>1, RulesAre, RuleIdsAre DEF Digits
<1>3. ASSUME NEW d \in Events, NEW e \in Events,
             m = Match("POR-DET-005", <<d, e>>, EventOf[e].container)
      PROVE  Place(m) \in Digits
  <2>1. Place(m) = <<0, EventOf[e].at, RuleOrder["POR-DET-005"], Ids[d], Ids[e]>>
    BY <1>3 DEF Place, Match
  <2>2. "POR-DET-005" \in RuleIds(R)
    BY RuleIdsAre
  <2>3. QED
    BY <2>1, <2>2, RulesAre, RuleIdsAre DEF Digits
<1>4. QED
  BY <1>1, <1>2, <1>3, PossibleFields

(* What a place says of its match: none, one or two events, and the rule.   *)
FromScore(m) == m = Match("POR-DET-001", <<>>, None) /\ Place(m)[1] = 1
FromEvent(m, rule, e) ==
  /\ m = Match(rule, <<e>>, EventOf[e].container)
  /\ Place(m)[1] = 0 /\ Place(m)[3] = RuleOrder[rule] /\ Place(m)[4] = Ids[e]
FromPair(m, d, e) ==
  /\ m = Match("POR-DET-005", <<d, e>>, EventOf[e].container)
  /\ Place(m)[1] = 0 /\ Place(m)[3] = RuleOrder["POR-DET-005"]
  /\ Place(m)[4] = Ids[d] /\ Place(m)[5] = Ids[e]

LEMMA PlaceSays ==
  ASSUME NEW R \in SUBSET CustomRules, NEW m \in Possible(R)
  PROVE  \/ FromScore(m)
         \/ \E rule \in RuleIds(R) \ {"POR-DET-005"}, e \in Events : FromEvent(m, rule, e)
         \/ \E d, e \in Events : FromPair(m, d, e)
<1>1. ASSUME m = Match("POR-DET-001", <<>>, None) PROVE FromScore(m)
  <2>1. Place(m) = <<1, 0, 0, 0, 0>>
    BY <1>1 DEF Place, Match
  <2>2. QED
    BY <1>1, <2>1 DEF FromScore
<1>2. ASSUME NEW rule \in RuleIds(R) \ {"POR-DET-005"}, NEW e \in Events,
             m = Match(rule, <<e>>, EventOf[e].container)
      PROVE  FromEvent(m, rule, e)
  <2>1. Place(m) = <<0, EventOf[e].at, RuleOrder[rule], Ids[e], Ids[e]>>
    BY <1>2 DEF Place, Match
  <2>2. QED
    BY <1>2, <2>1 DEF FromEvent
<1>3. ASSUME NEW d \in Events, NEW e \in Events,
             m = Match("POR-DET-005", <<d, e>>, EventOf[e].container)
      PROVE  FromPair(m, d, e)
  <2>1. Place(m) = <<0, EventOf[e].at, RuleOrder["POR-DET-005"], Ids[d], Ids[e]>>
    BY <1>3 DEF Place, Match
  <2>2. QED
    BY <1>3, <2>1 DEF FromPair
<1>4. QED
  BY <1>1, <1>2, <1>3, PossibleFields

LEMMA PlacesDiffer ==
  ASSUME NEW R \in SUBSET CustomRules, NEW m \in Possible(R), NEW n \in Possible(R), m # n
  PROVE  Place(m) # Place(n)
<1>1. SUFFICES ASSUME Place(m) = Place(n) PROVE FALSE
  OBVIOUS
<1>2. \A d, e \in Events : Ids[d] = Ids[e] => d = e
  BY RulesAssumption DEF RulesAssumption
<1>3. \A p, q \in RuleIds(R) : RuleOrder[p] = RuleOrder[q] => p = q
  BY RuleIdsAre, RulesAssumption DEF RulesAssumption
<1>4. "POR-DET-005" \in RuleIds(R)
  BY RuleIdsAre
<1>5. \A q \in RuleIds(R) \ {"POR-DET-005"} : RuleOrder[q] # RuleOrder["POR-DET-005"]
  BY <1>3, <1>4
<1>6. ASSUME FromScore(m) PROVE FALSE
  <2>1. Place(n)[1] # 0
    BY <1>1, <1>6 DEF FromScore
  <2>2. FromScore(n)
    BY <2>1, PlaceSays DEF FromEvent, FromPair
  <2>3. QED
    BY <1>6, <2>2 DEF FromScore
<1>7. ASSUME NEW p \in RuleIds(R) \ {"POR-DET-005"}, NEW d \in Events, FromEvent(m, p, d)
      PROVE  FALSE
  <2>1. Place(n)[1] = 0 /\ Place(n)[3] = RuleOrder[p] /\ Place(n)[4] = Ids[d]
    BY <1>1, <1>7 DEF FromEvent
  <2>2. ~FromScore(n) /\ \A b, c : ~FromPair(n, b, c)
    BY <1>5, <2>1 DEF FromScore, FromPair
  <2>3. PICK q \in RuleIds(R) \ {"POR-DET-005"}, e \in Events : FromEvent(n, q, e)
    BY <2>2, PlaceSays
  <2>4. p = q /\ d = e
    BY <1>2, <1>3, <2>1, <2>3 DEF FromEvent
  <2>5. QED
    BY <1>7, <2>3, <2>4 DEF FromEvent
<1>8. ASSUME NEW c \in Events, NEW d \in Events, FromPair(m, c, d) PROVE FALSE
  <2>1. /\ Place(n)[1] = 0 /\ Place(n)[3] = RuleOrder["POR-DET-005"]
        /\ Place(n)[4] = Ids[c] /\ Place(n)[5] = Ids[d]
    BY <1>1, <1>8 DEF FromPair
  <2>2. /\ ~FromScore(n)
        /\ \A q \in RuleIds(R) \ {"POR-DET-005"}, e \in Events : ~FromEvent(n, q, e)
    BY <1>5, <2>1 DEF FromScore, FromEvent
  <2>3. PICK b \in Events, e \in Events : FromPair(n, b, e)
    BY <2>2, PlaceSays
  <2>4. b = c /\ d = e
    BY <1>2, <2>1, <2>3 DEF FromPair
  <2>5. QED
    BY <1>8, <2>3, <2>4 DEF FromPair
<1>9. QED
  BY <1>6, <1>7, <1>8, PlaceSays

(* Of any matches one is the latest.                                        *)
LEMMA LatestIsLast ==
  ASSUME NEW R \in SUBSET CustomRules, NEW M \in SUBSET Possible(R), M # {}
  PROVE  /\ Latest(M) \in M
         /\ \A n \in M \ {Latest(M)} : Before(Place(n), Place(Latest(M)))
<1> DEFINE HasLast(U) == \E m \in U : \A n \in U \ {m} : Before(Place(n), Place(m))
           Bad == {U \in SUBSET Possible(R) : U # {} /\ ~HasLast(U)}
<1>1. ASSUME Bad # {} PROVE FALSE
  <2>1. Bad \subseteq SUBSET Possible(R)
    OBVIOUS
  <2> HIDE DEF Bad
  <2>2. PICK U \in Bad : \A t \in Bad : ~(t \subseteq U /\ t # U)
    BY <1>1, <2>1, PossibleIsFinite, SmallestSubset
  <2>3. U \in SUBSET Possible(R) /\ U # {} /\ ~HasLast(U)
    BY <2>2 DEF Bad
  <2>4. PICK a \in U : TRUE
    BY <2>3
  <2> DEFINE V == U \ {a}
  <2>5. V # {}
    BY <2>3, <2>4
  <2>6. HasLast(V)
    <3>1. V \in SUBSET Possible(R) /\ V \notin Bad
      BY <2>2, <2>3, <2>4
    <3>2. QED
      BY <2>5, <3>1 DEF Bad
  <2>7. PICK m \in V : \A n \in V \ {m} : Before(Place(n), Place(m))
    BY <2>6
  <2>8. /\ a \in Possible(R) /\ m \in Possible(R) /\ m \in U /\ a # m
        /\ Place(a) \in Digits /\ Place(m) \in Digits /\ Place(a) # Place(m)
    BY <2>3, <2>4, <2>7, PlaceOfMatch, PlacesDiffer
  <2>9. CASE Before(Place(a), Place(m))
    BY <2>3, <2>7, <2>8, <2>9
  <2>10. CASE Before(Place(m), Place(a))
    <3>1. ASSUME NEW n \in U \ {a} PROVE Before(Place(n), Place(a))
      <4>1. n = m \/ Before(Place(n), Place(m))
        BY <2>7, <3>1
      <4>2. Place(n) \in Digits
        BY <2>3, <3>1, PlaceOfMatch
      <4>3. QED
        BY <2>8, <2>10, <4>1, <4>2, BeforeIsOrder
    <3>2. QED
      BY <2>3, <2>4, <3>1
  <2>11. QED
    BY <2>8, <2>9, <2>10, BeforeIsOrder
<1>2. HasLast(M)
  BY <1>1
<1> DEFINE place == [m \in M |-> Place(m)]
           last(m) == \A n \in M \ {m} : Before(place[n], place[m])
<1>3. \A m \in M : last(m) <=> \A n \in M \ {m} : Before(Place(n), Place(m))
  OBVIOUS
<1>4. Latest(M) = CHOOSE m \in M : last(m)
  BY DEF Latest
<1> HIDE DEF last
<1>5. Latest(M) \in M /\ last(Latest(M))
  BY <1>2, <1>3, <1>4
<1>6. QED
  BY <1>3, <1>5

-------------------------------------------------------------------------------
(* What matches weigh, and the doubt they leave. *)

Weighed(w) ==
  w.severity \in 0..100 /\ w.confidence \in 0..100 /\ w.incident_eligible \in BOOLEAN

LEMMA BuiltInIs == \A rule \in BuiltInRules : Weighed(BuiltIn[rule])
<1>1. ASSUME NEW s \in 0..100, NEW c \in 0..100, NEW b \in BOOLEAN
      PROVE  Weighed([severity |-> s, confidence |-> c, incident_eligible |-> b])
  BY DEF Weighed
<1>2. Weighed(BuiltIn["POR-DET-001"])
  <2>1. BuiltIn["POR-DET-001"]
          = [severity |-> 65, confidence |-> 70, incident_eligible |-> FALSE]
    BY DEF BuiltIn, BuiltInRules
  <2>2. 65 \in 0..100 /\ 70 \in 0..100
    OBVIOUS
  <2>3. Weighed([severity |-> 65, confidence |-> 70, incident_eligible |-> FALSE])
    BY <1>1, <2>2, Zenon
  <2>4. QED
    BY <2>1, <2>3, Zenon
<1>3. Weighed(BuiltIn["POR-DET-002"])
  <2>1. BuiltIn["POR-DET-002"]
          = [severity |-> 72, confidence |-> 90, incident_eligible |-> TRUE]
    BY DEF BuiltIn, BuiltInRules
  <2>2. 72 \in 0..100 /\ 90 \in 0..100
    OBVIOUS
  <2>3. Weighed([severity |-> 72, confidence |-> 90, incident_eligible |-> TRUE])
    BY <1>1, <2>2, Zenon
  <2>4. QED
    BY <2>1, <2>3, Zenon
<1>4. Weighed(BuiltIn["POR-DET-003"])
  <2>1. BuiltIn["POR-DET-003"]
          = [severity |-> 78, confidence |-> 90, incident_eligible |-> TRUE]
    BY DEF BuiltIn, BuiltInRules
  <2>2. 78 \in 0..100 /\ 90 \in 0..100
    OBVIOUS
  <2>3. Weighed([severity |-> 78, confidence |-> 90, incident_eligible |-> TRUE])
    BY <1>1, <2>2, Zenon
  <2>4. QED
    BY <2>1, <2>3, Zenon
<1>5. Weighed(BuiltIn["POR-DET-004"])
  <2>1. BuiltIn["POR-DET-004"]
          = [severity |-> 64, confidence |-> 80, incident_eligible |-> TRUE]
    BY DEF BuiltIn, BuiltInRules
  <2>2. 64 \in 0..100 /\ 80 \in 0..100
    OBVIOUS
  <2>3. Weighed([severity |-> 64, confidence |-> 80, incident_eligible |-> TRUE])
    BY <1>1, <2>2, Zenon
  <2>4. QED
    BY <2>1, <2>3, Zenon
<1>6. Weighed(BuiltIn["POR-DET-005"])
  <2>1. BuiltIn["POR-DET-005"]
          = [severity |-> 90, confidence |-> 95, incident_eligible |-> TRUE]
    BY DEF BuiltIn, BuiltInRules
  <2>2. 90 \in 0..100 /\ 95 \in 0..100
    OBVIOUS
  <2>3. Weighed([severity |-> 90, confidence |-> 95, incident_eligible |-> TRUE])
    BY <1>1, <2>2, Zenon
  <2>4. QED
    BY <2>1, <2>3, Zenon
<1>7. Weighed(BuiltIn["POR-DET-006"])
  <2>1. BuiltIn["POR-DET-006"]
          = [severity |-> 35, confidence |-> 95, incident_eligible |-> FALSE]
    BY DEF BuiltIn, BuiltInRules
  <2>2. 35 \in 0..100 /\ 95 \in 0..100
    OBVIOUS
  <2>3. Weighed([severity |-> 35, confidence |-> 95, incident_eligible |-> FALSE])
    BY <1>1, <2>2, Zenon
  <2>4. QED
    BY <2>1, <2>3, Zenon
<1>8. Weighed(BuiltIn["POR-DET-007"])
  <2>1. BuiltIn["POR-DET-007"]
          = [severity |-> 92, confidence |-> 95, incident_eligible |-> TRUE]
    BY DEF BuiltIn, BuiltInRules
  <2>2. 92 \in 0..100 /\ 95 \in 0..100
    OBVIOUS
  <2>3. Weighed([severity |-> 92, confidence |-> 95, incident_eligible |-> TRUE])
    BY <1>1, <2>2, Zenon
  <2>4. QED
    BY <2>1, <2>3, Zenon
<1>9. QED
  BY <1>2, <1>3, <1>4, <1>5, <1>6, <1>7, <1>8 DEF BuiltInRules

LEMMA WeightIs ==
  ASSUME NEW R \in SUBSET CustomRules, NEW m \in Possible(R)
  PROVE  Weight(m, R).severity \in 0..100 /\ Weight(m, R).confidence \in 0..100
<1>1. m.rule \in RuleIds(R)
  <2>1. \/ m.rule = "POR-DET-001" \/ m.rule = "POR-DET-005" \/ m.rule \in RuleIds(R)
    BY PossibleFields DEF Match
  <2>2. QED
    BY <2>1, RuleIdsAre
<1>2. CASE m.rule \in BuiltInRules
  <2>1. Weight(m, R) = BuiltIn[m.rule]
    BY <1>2 DEF Weight
  <2>2. QED
    BY <1>2, <2>1, BuiltInIs DEF Weighed
<1>3. CASE m.rule \notin BuiltInRules
  <2> DEFINE r == CHOOSE r \in R : RuleOf[r].slug = m.rule
  <2>1. \E r_1 \in R : RuleOf[r_1].slug = m.rule
    BY <1>1, <1>3 DEF RuleIds
  <2>2. r \in R
    BY <2>1
  <2>3. Weight(m, R).severity = RuleOf[r].severity /\ Weight(m, R).confidence = RuleOf[r].confidence
    BY <1>3 DEF Weight
  <2> HIDE DEF r
  <2>4. QED
    BY <2>2, <2>3, RulesAre
<1>4. QED
  BY <1>2, <1>3

(* What the confidence of a match leaves of doubt d, in hundredths.         *)
Uncertain(m, R) == 100 - Weight(m, R).confidence

LEMMA UncertainIs ==
  ASSUME NEW R \in SUBSET CustomRules, NEW m \in Possible(R)
  PROVE  Uncertain(m, R) \in Nat /\ Uncertain(m, R) <= 100
<1>1. PICK c : c = Weight(m, R).confidence
  OBVIOUS
<1>2. c \in 0..100
  BY <1>1, WeightIs
<1>3. 100 - c \in Nat /\ 100 - c <= 100
  BY <1>2
<1>4. QED
  BY <1>1, <1>3 DEF Uncertain

Doubtful == {d \in Nat : d <= 10000}
Full == 10000
After(d, m, R) == (d * Uncertain(m, R)) \div 100

LEMMA AfterIs ==
  ASSUME NEW R \in SUBSET CustomRules, NEW m \in Possible(R), NEW d \in Doubtful
  PROVE  /\ After(d, m, R) \in Doubtful /\ After(d, m, R) <= d
         /\ \A e \in Doubtful : e <= d => After(e, m, R) <= After(d, m, R)
<1>1. PICK k : k = Uncertain(m, R)
  OBVIOUS
<1>2. k \in Nat /\ k <= 100
  BY <1>1, UncertainIs
<1>3. d \in Nat /\ d <= 10000
  BY DEF Doubtful
<1>4. (d * k) \div 100 \in Nat /\ (d * k) \div 100 <= d
  BY <1>2, <1>3, PartOf
<1>5. PICK x : x = (d * k) \div 100
  OBVIOUS
<1>6. x \in Doubtful /\ x <= d
  BY <1>3, <1>4, <1>5 DEF Doubtful
<1>7. \A e \in Nat : e <= d => (e * k) \div 100 <= (d * k) \div 100
  BY <1>2, <1>3, PartGrows
<1>8. QED
  BY <1>1, <1>5, <1>6, <1>7 DEF After, Doubtful

LatestOf(R) == [M \in SUBSET Possible(R) |-> Latest(M)]
Doubting(R) == [m \in Possible(R) |-> [d \in Doubtful |-> After(d, m, R)]]
Doubts(R) == Folder(Doubting(R), Full, LatestOf(R), Possible(R))

LEMMA DoubtsAre ==
  ASSUME NEW R \in SUBSET CustomRules, NEW M \in SUBSET Possible(R)
  PROVE  /\ Doubts(R)[M] \in Doubtful
         /\ M = {} => Doubts(R)[M] = Full
         /\ M # {} => Doubts(R)[M] = After(Doubts(R)[M \ {Latest(M)}], Latest(M), R)
<1>1. Picks(LatestOf(R), Possible(R))
  BY PossibleIsFinite, LatestIsLast DEF Picks, LatestOf
<1>2. Folds(Doubts(R), Doubting(R), Full, LatestOf(R), Possible(R))
  BY <1>1, FolderFolds DEF Doubts
<1>3. Full \in Doubtful
  BY DEF Doubtful, Full
<1>4. Doubting(R) \in [Possible(R) -> [Doubtful -> Doubtful]]
  BY AfterIs DEF Doubting
<1>5. /\ \A T \in SUBSET Possible(R) : Doubts(R)[T] \in Doubtful
      /\ Doubts(R)[M] = IF M = {} THEN Full
                        ELSE Doubting(R)[LatestOf(R)[M]][Doubts(R)[M \ {LatestOf(R)[M]}]]
  <2>1. PICK f, G, pick, S : /\ f = Doubts(R) /\ G = Doubting(R) /\ pick = LatestOf(R)
                             /\ S = Possible(R)
    OBVIOUS
  <2>2. Picks(pick, S) /\ Folds(f, G, Full, pick, S) /\ G \in [S -> [Doubtful -> Doubtful]]
    BY <1>1, <1>2, <1>4, <2>1
  <2>3. \A T \in SUBSET S : f[T] \in Doubtful
    BY <1>3, <2>2, FoldsTyped
  <2>4. M \in SUBSET S
    BY <2>1
  <2>5. f[M] = IF M = {} THEN Full ELSE G[pick[M]][f[M \ {pick[M]}]]
    BY <2>2, <2>4 DEF Folds
  <2>6. QED
    BY <2>1, <2>3, <2>5
<1>6. ASSUME M # {}
      PROVE  Doubting(R)[LatestOf(R)[M]][Doubts(R)[M \ {LatestOf(R)[M]}]]
               = After(Doubts(R)[M \ {Latest(M)}], Latest(M), R)
  <2>1. LatestOf(R)[M] = Latest(M)
    BY DEF LatestOf
  <2>2. Latest(M) \in Possible(R) /\ M \ {Latest(M)} \in SUBSET Possible(R)
    BY <1>6, LatestIsLast
  <2>3. Doubts(R)[M \ {Latest(M)}] \in Doubtful
    BY <1>5, <2>2
  <2>4. PICK l, d : l = Latest(M) /\ d = Doubts(R)[M \ {Latest(M)}]
    OBVIOUS
  <2>5. Doubting(R)[l][d] = After(d, l, R)
    BY <2>2, <2>3, <2>4 DEF Doubting
  <2>6. QED
    BY <2>1, <2>4, <2>5
<1>7. QED
  BY <1>5, <1>6

LEMMA DoubtIs ==
  ASSUME NEW R \in SUBSET CustomRules, NEW M \in SUBSET Possible(R)
  PROVE  Doubt(M, R) = Doubts(R)[M]
<1> DEFINE next(d, m) == (d * (100 - Weight(m, R).confidence)) \div 100
           Eq(g) == g = [s \in SUBSET M |->
                           IF s = {} THEN 10000 ELSE next(g[s \ {Latest(s)}], Latest(s))]
           iter == CHOOSE g : Eq(g)
<1>1. Doubt(M, R) = iter[M]
  BY DEF Doubt, MapThenFoldSet
<1>2. \A g : Eq(g) <=> g = [s \in SUBSET M |->
                              IF s = {} THEN Full ELSE After(g[s \ {Latest(s)}], Latest(s), R)]
  BY DEF Uncertain, After, Full
<1> HIDE DEF next, Eq
<1>3. Eq([s \in SUBSET M |-> Doubts(R)[s]])
  <2>1. PICK h : h = [s \in SUBSET M |-> Doubts(R)[s]]
    OBVIOUS
  <2>2. ASSUME NEW s \in SUBSET M
        PROVE  h[s] = IF s = {} THEN Full ELSE After(h[s \ {Latest(s)}], Latest(s), R)
    <3>1. s \in SUBSET Possible(R) /\ s \ {Latest(s)} \in SUBSET M
      OBVIOUS
    <3>2. h[s] = Doubts(R)[s] /\ h[s \ {Latest(s)}] = Doubts(R)[s \ {Latest(s)}]
      BY <2>1, <3>1
    <3>3. /\ s = {} => Doubts(R)[s] = Full
          /\ s # {} => Doubts(R)[s] = After(Doubts(R)[s \ {Latest(s)}], Latest(s), R)
      BY <3>1, DoubtsAre
    <3>4. QED
      BY <3>2, <3>3
  <2>3. h = [s \in SUBSET M |-> IF s = {} THEN Full ELSE After(h[s \ {Latest(s)}], Latest(s), R)]
    BY <2>1, <2>2
  <2>4. QED
    BY <1>2, <2>1, <2>3
<1>4. Eq(iter)
  BY <1>3, Zenon
<1> HIDE DEF iter
<1> DEFINE Bad == {s \in SUBSET M : iter[s] # Doubts(R)[s]}
<1>5. ASSUME Bad # {} PROVE FALSE
  <2>1. Bad \subseteq SUBSET M /\ IsFiniteSet(M)
    BY PossibleIsFinite, FS_Subset
  <2> HIDE DEF Bad
  <2>2. PICK s \in Bad : \A t \in Bad : ~(t \subseteq s /\ t # s)
    BY <1>5, <2>1, SmallestSubset
  <2>3. s \in SUBSET M /\ iter[s] # Doubts(R)[s]
    BY <2>2 DEF Bad
  <2>4. iter[s] = IF s = {} THEN Full ELSE After(iter[s \ {Latest(s)}], Latest(s), R)
    BY <1>2, <1>4, <2>3
  <2>5. /\ s = {} => Doubts(R)[s] = Full
        /\ s # {} => Doubts(R)[s] = After(Doubts(R)[s \ {Latest(s)}], Latest(s), R)
    BY <2>3, DoubtsAre
  <2>6. ASSUME s # {} PROVE iter[s \ {Latest(s)}] = Doubts(R)[s \ {Latest(s)}]
    <3>1. Latest(s) \in s
      BY <2>3, <2>6, LatestIsLast
    <3>2. s \ {Latest(s)} \in SUBSET M /\ s \ {Latest(s)} \notin Bad
      BY <2>2, <2>3, <3>1
    <3>3. QED
      BY <3>2 DEF Bad
  <2>7. QED
    BY <2>3, <2>4, <2>5, <2>6
<1>6. iter[M] = Doubts(R)[M]
  BY <1>5
<1>7. QED
  BY <1>1, <1>6

(* Fewer matches leave no less doubt.                                       *)
LEMMA LatestStays ==
  ASSUME NEW R \in SUBSET CustomRules, NEW U \in SUBSET Possible(R), NEW T \in SUBSET U,
         T # {}, Latest(U) \in T
  PROVE  Latest(T) = Latest(U)
<1> DEFINE l == Latest(U)
           k == Latest(T)
<1>1. l \in U /\ \A n \in U \ {l} : Before(Place(n), Place(l))
  BY LatestIsLast
<1>2. k \in T /\ \A n \in T \ {k} : Before(Place(n), Place(k))
  BY LatestIsLast
<1>3. Place(l) \in Digits /\ Place(k) \in Digits
  BY <1>1, <1>2, PlaceOfMatch
<1>4. l \in T
  OBVIOUS
<1> HIDE DEF l, k
<1>5. SUFFICES ASSUME k # l PROVE FALSE
  BY DEF l, k
<1>6. Before(Place(l), Place(k)) /\ Before(Place(k), Place(l))
  BY <1>1, <1>2, <1>4, <1>5
<1>7. QED
  BY <1>3, <1>6, BeforeIsOrder

LEMMA FewerMatchesMoreDoubt ==
  ASSUME NEW R \in SUBSET CustomRules, NEW N \in SUBSET Possible(R), NEW M \in SUBSET N
  PROVE  Doubt(M, R) \in Doubtful /\ Doubt(N, R) \in Doubtful /\ Doubt(N, R) <= Doubt(M, R)
<1> DEFINE D == Doubts(R)
           Bad == {U \in SUBSET Possible(R) : \E T \in SUBSET U : ~(D[U] <= D[T])}
<1>1. \A U \in SUBSET Possible(R) :
        /\ D[U] \in Doubtful
        /\ U = {} => D[U] = Full
        /\ U # {} => D[U] = After(D[U \ {Latest(U)}], Latest(U), R)
  BY DoubtsAre
<1> HIDE DEF D
<1>2. \A d \in Doubtful : d \in Nat
  BY DEF Doubtful
<1>3. ASSUME Bad # {} PROVE FALSE
  <2>1. Bad \subseteq SUBSET Possible(R)
    OBVIOUS
  <2> HIDE DEF Bad
  <2>2. PICK U \in Bad : \A t \in Bad : ~(t \subseteq U /\ t # U)
    BY <1>3, <2>1, PossibleIsFinite, SmallestSubset
  <2>3. U \in SUBSET Possible(R)
    BY <2>2 DEF Bad
  <2>4. PICK T \in SUBSET U : ~(D[U] <= D[T])
    BY <2>2 DEF Bad
  <2>5. U # {}
    <3>1. SUFFICES ASSUME U = {} PROVE FALSE
      OBVIOUS
    <3>2. T = U /\ D[U] \in Nat
      BY <1>1, <1>2, <2>3, <3>1
    <3>3. D[U] <= D[U]
      BY <3>2
    <3>4. QED
      BY <2>4, <3>2, <3>3
  <2>6. Latest(U) \in U
    BY <2>3, <2>5, LatestIsLast
  <2>7. PICK l, V, d : l = Latest(U) /\ V = U \ {l} /\ d = D[V]
    OBVIOUS
  <2>8. V \in SUBSET Possible(R) /\ l \in Possible(R) /\ d \in Doubtful /\ D[U] = After(d, l, R)
    BY <1>1, <2>3, <2>5, <2>6, <2>7
  <2>9. \A W \in SUBSET V : d <= D[W]
    <3>1. V \notin Bad
      BY <2>2, <2>3, <2>6, <2>7
    <3>2. QED
      BY <2>7, <2>8, <3>1 DEF Bad
  <2>10. After(d, l, R) \in Doubtful /\ After(d, l, R) <= d
    BY <2>8, AfterIs
  <2>11. CASE l \notin T
    <3>1. T \in SUBSET V /\ D[T] \in Doubtful
      BY <1>1, <2>3, <2>7, <2>11
    <3>2. d <= D[T]
      BY <2>9, <3>1
    <3>3. PICK a, b : a = After(d, l, R) /\ b = D[T]
      OBVIOUS
    <3>4. a \in Nat /\ b \in Nat /\ d \in Nat /\ a <= d /\ d <= b
      BY <1>2, <2>8, <2>10, <3>1, <3>2, <3>3
    <3>5. a <= b
      BY <3>4
    <3>6. QED
      BY <2>4, <2>8, <3>3, <3>5
  <2>12. CASE l \in T
    <3>1. Latest(T) = l /\ T # {} /\ T \in SUBSET Possible(R)
      BY <2>3, <2>7, <2>12, LatestStays
    <3>2. PICK W, e : W = T \ {l} /\ e = D[W]
      OBVIOUS
    <3>3. /\ W \in SUBSET V /\ W \in SUBSET Possible(R) /\ e \in Doubtful
          /\ D[T] = After(e, l, R)
      BY <1>1, <2>7, <3>1, <3>2
    <3>4. d <= e
      BY <2>9, <3>2, <3>3
    <3>5. After(d, l, R) <= After(e, l, R)
      BY <2>8, <3>3, <3>4, AfterIs
    <3>6. QED
      BY <2>4, <2>8, <3>3, <3>5
  <2>13. QED
    BY <2>11, <2>12
<1>4. D[N] <= D[M] /\ D[N] \in Doubtful /\ D[M] \in Doubtful
  BY <1>1, <1>3
<1>5. Doubt(M, R) = D[M] /\ Doubt(N, R) = D[N]
  BY DoubtIs DEF D
<1>6. QED
  BY <1>4, <1>5

-------------------------------------------------------------------------------
(* Severity and confidence stay in their range and grow with the matches.   *)

LEMMA SomeMatches ==
  ASSUME NEW R \in SUBSET CustomRules, NEW N \in SUBSET Possible(R), NEW M \in SUBSET N, M # {}
  PROVE  /\ RuleSeverity(M, R) \in Nat /\ RuleSeverity(N, R) \in Nat
         /\ RuleSeverity(M, R) <= RuleSeverity(N, R) /\ RuleSeverity(N, R) <= 100
         /\ Bonus(M) \in Nat /\ Bonus(N) \in Nat /\ Bonus(M) <= Bonus(N) /\ Bonus(N) <= 12
<1> DEFINE S(X) == {Weight(m, R).severity : m \in X}
<1>1. S(M) \in SUBSET (0..100) /\ S(N) \in SUBSET (0..100) /\ S(M) # {} /\ S(M) \subseteq S(N)
  BY WeightIs
<1>2. RuleSeverity(M, R) = Max(S(M)) /\ RuleSeverity(N, R) = Max(S(N))
  BY DEF RuleSeverity
<1> HIDE DEF S
<1>3. PICK A, B : A = S(M) /\ B = S(N)
  OBVIOUS
<1>4. 100 \in Nat
  OBVIOUS
<1>5. /\ Max(A) \in A /\ \A i \in A : i <= Max(A)
      /\ Max(B) \in B /\ \A i \in B : i <= Max(B)
  <2>1. A \in SUBSET (0..100) /\ B \in SUBSET (0..100) /\ A # {} /\ B # {}
    BY <1>1, <1>3
  <2>2. QED
    BY <1>4, <2>1, MaxIsLargest
<1>6. PICK a, b : a = Max(A) /\ b = Max(B)
  OBVIOUS
<1>7. a \in 0..100 /\ b \in 0..100 /\ a <= b
  BY <1>1, <1>3, <1>5, <1>6
<1>8. /\ IsFiniteSet(M) /\ IsFiniteSet(N) /\ Cardinality(M) \in Nat /\ Cardinality(N) \in Nat
      /\ Cardinality(M) <= Cardinality(N) /\ Cardinality(M) # 0
  <2>1. IsFiniteSet(N)
    BY PossibleIsFinite, FS_Subset
  <2>2. IsFiniteSet(M) /\ Cardinality(M) <= Cardinality(N)
    BY <2>1, FS_Subset
  <2>3. QED
    BY <2>1, <2>2, FS_CardinalityType, FS_EmptySet
<1>9. PICK c, d : c = Cardinality(M) /\ d = Cardinality(N)
  OBVIOUS
<1>10. c \in Nat /\ d \in Nat /\ c <= d /\ c # 0
  BY <1>8, <1>9
<1>11. PICK x, y \in Nat : x = 3 * (c - 1) /\ y = 3 * (d - 1) /\ x <= y
  <2>1. 3 * (c - 1) \in Nat /\ 3 * (d - 1) \in Nat /\ 3 * (c - 1) <= 3 * (d - 1)
    BY <1>10
  <2>2. QED
    BY <2>1
<1>12. /\ Bonus(M) = IF 12 <= x THEN 12 ELSE x
       /\ Bonus(N) = IF 12 <= y THEN 12 ELSE y
  BY <1>9, <1>11, TwoNumbers DEF Bonus
<1>13. Bonus(M) \in Nat /\ Bonus(N) \in Nat /\ Bonus(M) <= Bonus(N) /\ Bonus(N) <= 12
  BY <1>11, <1>12
<1>14. a \in Nat /\ b \in Nat /\ b <= 100
  BY <1>7
<1>15. QED
  BY <1>2, <1>3, <1>6, <1>7, <1>13, <1>14

(* What rules, score and count make of a severity before the cap.           *)
Raw(r, anomaly, b) == 65 * r + 35 * anomaly + 100 * b

LEMMA RawGrows ==
  ASSUME NEW q \in Nat, NEW r \in Nat, NEW c \in Nat, NEW b \in Nat, NEW anomaly \in Nat,
         q <= r, c <= b
  PROVE  /\ Raw(q, anomaly, c) \in Nat /\ Raw(r, anomaly, b) \in Nat
         /\ Raw(q, anomaly, c) <= Raw(r, anomaly, b) /\ 25 * anomaly <= Raw(r, anomaly, b)
<1>1. /\ 65 * q \in Nat /\ 65 * r \in Nat /\ 65 * q <= 65 * r
      /\ 100 * c \in Nat /\ 100 * b \in Nat /\ 100 * c <= 100 * b
      /\ 35 * anomaly \in Nat /\ 25 * anomaly \in Nat /\ 25 * anomaly <= 35 * anomaly
  OBVIOUS
<1>2. PICK t, u, v, w, x, y : /\ t = 65 * q /\ u = 65 * r /\ v = 100 * c /\ w = 100 * b
                              /\ x = 35 * anomaly /\ y = 25 * anomaly
  OBVIOUS
<1>3. /\ t \in Nat /\ u \in Nat /\ v \in Nat /\ w \in Nat /\ x \in Nat /\ y \in Nat
      /\ t <= u /\ v <= w /\ y <= x
  BY <1>1, <1>2
<1>4. /\ t + x + v \in Nat /\ u + x + w \in Nat /\ t + x + v <= u + x + w /\ y <= u + x + w
  BY <1>3
<1>5. QED
  BY <1>2, <1>4 DEF Raw

LEMMA SeverityGrows ==
  ASSUME NEW R \in SUBSET CustomRules, NEW N \in SUBSET Possible(R), NEW M \in SUBSET N,
         NEW anomaly \in Nat, anomaly <= 100
  PROVE  /\ Severity(M, R, anomaly) \in Nat /\ Severity(N, R, anomaly) \in Nat
         /\ Severity(M, R, anomaly) <= 10000 /\ Severity(N, R, anomaly) <= 10000
         /\ Severity(M, R, anomaly) <= Severity(N, R, anomaly)
<1>1. PICK A, B : A = Eligible(M, R) /\ B = Eligible(N, R)
  OBVIOUS
<1>2. A \in SUBSET B /\ B \in SUBSET Possible(R)
  BY <1>1 DEF Eligible
<1>3. PICK s, t : s = Severity(M, R, anomaly) /\ t = Severity(N, R, anomaly)
  OBVIOUS
<1>4. PICK r, b, q, c : /\ r = RuleSeverity(B, R) /\ b = Bonus(B)
                        /\ q = RuleSeverity(A, R) /\ c = Bonus(A)
  OBVIOUS
<1>5. /\ s = IF A = {} THEN 25 * anomaly ELSE Min({10000, Raw(q, anomaly, c)})
      /\ t = IF B = {} THEN 25 * anomaly ELSE Min({10000, Raw(r, anomaly, b)})
  BY <1>1, <1>3, <1>4 DEF Severity, Raw
<1>6. PICK y : y = 25 * anomaly
  OBVIOUS
<1>7. y \in Nat /\ y <= 10000
  BY <1>6
<1>8. 10000 \in Nat
  OBVIOUS
<1>9. s \in Nat /\ t \in Nat /\ s <= t /\ s <= 10000 /\ t <= 10000
  <2>1. CASE A = {} /\ B = {}
    BY <1>5, <1>6, <1>7, <2>1
  <2>2. CASE A = {} /\ B # {}
    <3>1. r \in Nat /\ b \in Nat /\ r <= r /\ b <= b
      BY <1>2, <1>4, <2>2, SomeMatches
    <3>2. PICK x : x = Raw(r, anomaly, b)
      OBVIOUS
    <3>3. x \in Nat /\ y <= x
      BY <1>6, <3>1, <3>2, RawGrows
    <3>4. t = IF 10000 <= x THEN 10000 ELSE x
      <4>1. t = Min({10000, x})
        BY <1>5, <2>2, <3>2
      <4>2. QED
        BY <1>8, <3>3, <4>1, TwoNumbers
    <3>5. s = y
      BY <1>5, <1>6, <2>2
    <3>6. QED
      BY <1>7, <3>3, <3>4, <3>5
  <2>3. CASE A # {}
    <3>1. B # {}
      BY <1>2, <2>3
    <3>2. r \in Nat /\ b \in Nat /\ q \in Nat /\ c \in Nat /\ q <= r /\ c <= b
      BY <1>2, <1>4, <2>3, SomeMatches
    <3>3. PICK x, z : x = Raw(q, anomaly, c) /\ z = Raw(r, anomaly, b)
      OBVIOUS
    <3>4. x \in Nat /\ z \in Nat /\ x <= z
      BY <3>2, <3>3, RawGrows
    <3>5. s = Min({10000, x}) /\ t = Min({10000, z})
      BY <1>5, <2>3, <3>1, <3>3
    <3>6. QED
      BY <1>8, <3>4, <3>5, CapGrows
  <2>4. QED
    BY <1>2, <2>1, <2>2, <2>3
<1>10. QED
  BY <1>3, <1>9

LEMMA SourceTypesGrow ==
  ASSUME NEW N, IsFiniteSet(N), NEW M \in SUBSET N
  PROVE  /\ Cardinality(SourceTypes(M)) \in Nat /\ Cardinality(SourceTypes(N)) \in Nat
         /\ Cardinality(SourceTypes(M)) <= Cardinality(SourceTypes(N))
<1> DEFINE type(m) == CASE Len(m.source) = 0 -> "anomaly_score"
                        [] Len(m.source) = 2 -> "derived_correlation"
                        [] Len(m.source) = 1 -> EventOf[m.source[1]].kind
           g == [m \in N |-> type(m)]
<1>1. SourceTypes(M) = {type(m) : m \in M} /\ SourceTypes(N) = {type(m) : m \in N}
  BY DEF SourceTypes
<1> HIDE DEF type
<1>2. IsFiniteSet({g[m] : m \in N})
  BY ImageIsFinite
<1>3. IsFiniteSet({type(m) : m \in N}) /\ {type(m) : m \in M} \subseteq {type(m) : m \in N}
  BY <1>2
<1>4. QED
  BY <1>1, <1>3, FS_Subset, FS_CardinalityType

(* What diversity and coverage add to a confidence, before the quarter.     *)
Diversity(n) == Min({10000, (10000 * n) \div 3})
Coverage(E) == 75 * Min({100, 20 * Cardinality(Processes(E))})
                 + (IF Runtime(E) = {} THEN 0 ELSE 2500)
Certain(M, R) == IF M = {} THEN 0 ELSE RuleConfidence(M, R)

LEMMA DiversityGrows ==
  ASSUME NEW m \in Nat, NEW n \in Nat, m <= n
  PROVE  /\ Diversity(m) \in Nat /\ Diversity(n) \in Nat /\ Diversity(m) <= Diversity(n)
         /\ Diversity(n) <= 10000
<1>1. PICK x, y : x = (10000 * m) \div 3 /\ y = (10000 * n) \div 3
  OBVIOUS
<1>2. x \in Nat /\ y \in Nat /\ x <= y
  BY <1>1
<1>3. 10000 \in Nat /\ Diversity(m) = Min({10000, x}) /\ Diversity(n) = Min({10000, y})
  BY <1>1 DEF Diversity
<1>4. QED
  BY <1>2, <1>3, CapGrows

LEMMA CoverageIs ==
  ASSUME NEW E \in SUBSET Events
  PROVE  Coverage(E) \in Nat /\ Coverage(E) <= 10000
<1>1. IsFiniteSet(Processes(E))
  BY RulesAre, FS_Subset DEF Processes
<1>2. PICK n \in Nat : n = Cardinality(Processes(E))
  BY <1>1, FS_CardinalityType
<1>3. PICK x : x = 20 * n
  OBVIOUS
<1>4. PICK c : c = Min({100, x})
  OBVIOUS
<1>5. 100 \in Nat /\ x \in Nat /\ x <= x
  BY <1>3
<1>6. c \in Nat /\ c <= 100
  BY <1>4, <1>5, CapGrows
<1>7. PICK d : d = IF Runtime(E) = {} THEN 0 ELSE 2500
  OBVIOUS
<1>8. d \in Nat /\ d <= 2500
  BY <1>7
<1>9. Coverage(E) = 75 * c + d
  BY <1>2, <1>3, <1>4, <1>7 DEF Coverage
<1>10. QED
  BY <1>6, <1>8, <1>9

LEMMA CertainGrows ==
  ASSUME NEW R \in SUBSET CustomRules, NEW N \in SUBSET Possible(R), NEW M \in SUBSET N
  PROVE  /\ Certain(M, R) \in Nat /\ Certain(N, R) \in Nat /\ Certain(M, R) <= Certain(N, R)
         /\ Certain(N, R) <= 10000
<1>1. PICK d, e : d = Doubt(M, R) /\ e = Doubt(N, R)
  OBVIOUS
<1>2. d \in Doubtful /\ e \in Doubtful /\ e <= d
  BY <1>1, FewerMatchesMoreDoubt
<1>3. d \in Nat /\ e \in Nat /\ d <= 10000 /\ e <= 10000 /\ e <= d
  BY <1>2 DEF Doubtful
<1>4. /\ Certain(M, R) = IF M = {} THEN 0 ELSE 10000 - d
      /\ Certain(N, R) = IF N = {} THEN 0 ELSE 10000 - e
  BY <1>1 DEF Certain, RuleConfidence
<1>5. 10000 - d \in Nat /\ 10000 - e \in Nat /\ 10000 - d <= 10000 - e /\ 10000 - e <= 10000
  BY <1>3
<1>6. PICK x, y \in Nat : x = 10000 - d /\ y = 10000 - e /\ x <= y /\ y <= 10000
  BY <1>5
<1>7. N = {} => M = {}
  OBVIOUS
<1>8. QED
  BY <1>4, <1>6, <1>7

LEMMA ConfidenceGrows ==
  ASSUME NEW R \in SUBSET CustomRules, NEW N \in SUBSET Possible(R), NEW M \in SUBSET N,
         NEW E \in SUBSET Events
  PROVE  /\ Confidence(M, R, E) \in Nat /\ Confidence(N, R, E) \in Nat
         /\ Confidence(M, R, E) <= Confidence(N, R, E) /\ Confidence(M, R, E) <= 10000
<1>1. IsFiniteSet(N)
  BY PossibleIsFinite, FS_Subset
<1>2. PICK m, n \in Nat : m = Cardinality(SourceTypes(M)) /\ n = Cardinality(SourceTypes(N))
                          /\ m <= n
  BY <1>1, SourceTypesGrow
<1>3. PICK a, b, c, d, v : /\ a = Certain(M, R) /\ b = Certain(N, R) /\ c = Diversity(m)
                           /\ d = Diversity(n) /\ v = Coverage(E)
  OBVIOUS
<1>4. /\ a \in Nat /\ b \in Nat /\ c \in Nat /\ d \in Nat /\ v \in Nat
      /\ a <= b /\ c <= d /\ b <= 10000 /\ d <= 10000 /\ v <= 10000
  BY <1>2, <1>3, CertainGrows, DiversityGrows, CoverageIs
<1>5. /\ Confidence(M, R, E) = (2 * a + c + v) \div 4
      /\ Confidence(N, R, E) = (2 * b + d + v) \div 4
  <2>1. \A X : Confidence(X, R, E) =
                (2 * Certain(X, R) + Diversity(Cardinality(SourceTypes(X))) + Coverage(E)) \div 4
    BY DEF Confidence, Certain, Diversity, Coverage
  <2>2. QED
    BY <1>2, <1>3, <2>1
<1>6. /\ (2 * a + c + v) \div 4 \in Nat /\ (2 * b + d + v) \div 4 \in Nat
      /\ (2 * a + c + v) \div 4 <= (2 * b + d + v) \div 4 /\ (2 * a + c + v) \div 4 <= 10000
  <2>1. PICK x, y \in Nat : x = 2 * a + c + v /\ y = 2 * b + d + v /\ x <= y /\ x <= 40000
    BY <1>4
  <2>2. x \div 4 \in Nat /\ y \div 4 \in Nat /\ x \div 4 <= y \div 4 /\ x \div 4 <= 10000
    BY <2>1
  <2>3. QED
    BY <2>1, <2>2
<1>7. QED
  BY <1>5, <1>6

-------------------------------------------------------------------------------
(* Allowlists only calm. *)

Anomalies == (0..100) \union {None}
Statuses == {"insufficient_data", "no_findings", "findings_only", "incident_created"}

Left(E, anomaly, A, R) == All(E, anomaly, R) \ Suppressed(All(E, anomaly, R), A)

LEMMA EvaluationIs ==
  ASSUME NEW E, NEW anomaly, anomaly # None, NEW A, NEW R
  PROVE  LET result == evaluate_detection(anomaly, E, A, R)
             matches == Left(E, anomaly, A, R) IN
         /\ result.matches = matches
         /\ result.severity = Severity(matches, R, anomaly)
         /\ result.confidence = Confidence(matches, R, E)
         /\ result.status \in {"no_findings", "findings_only", "incident_created"}
BY DEF evaluate_detection, Left, All

LEMMA NothingExempt ==
  ASSUME NEW M
  PROVE  Suppressed(M, {}) = {}
BY DEF Suppressed, Exempt

(* Who reports a sequence reports its shell.                                *)
LEMMA SequenceHasShell ==
  ASSUME NEW E \in SUBSET Events, NEW R \in SUBSET CustomRules, NEW anomaly, NEW A,
         NEW m \in Left(E, anomaly, A, R), m.rule = "POR-DET-005"
  PROVE  \E d \in Left(E, anomaly, A, R) :
           d.rule = "POR-DET-002" /\ d.source[1] = m.source[1]
<1>1. m \in All(E, anomaly, R)
  BY DEF Left
<1>2. m \notin CustomMatches(R, E)
  <2>1. SUFFICES ASSUME m \in CustomMatches(R, E) PROVE FALSE
    OBVIOUS
  <2>2. PICK r \in R, e \in E : m = Match(RuleOf[r].slug, <<e>>, EventOf[e].container)
    BY <2>1 DEF CustomMatches, Processes, Runtime
  <2>3. m.rule \notin BuiltInRules
    BY <2>2, RulesAre DEF Match
  <2>4. QED
    BY <2>3 DEF BuiltInRules
<1>3. PICK pair \in Sequences_(E) : m = Match("POR-DET-005", pair, EventOf[pair[2]].container)
  <2>1. /\ \A n \in {Match("POR-DET-001", <<>>, None)} : n.rule # "POR-DET-005"
        /\ \A F : \A n \in OfEach("POR-DET-002", F) : n.rule # "POR-DET-005"
        /\ \A F : \A n \in OfEach("POR-DET-003", F) : n.rule # "POR-DET-005"
        /\ \A F : \A n \in OfEach("POR-DET-004", F) : n.rule # "POR-DET-005"
        /\ \A F : \A n \in OfEach("POR-DET-006", F) : n.rule # "POR-DET-005"
        /\ \A F : \A n \in OfEach("POR-DET-007", F) : n.rule # "POR-DET-005"
    BY DEF OfEach, Match
  <2>2. m \in BuiltInMatches(E, anomaly)
    BY <1>1, <1>2 DEF All
  <2>3. m \in {Match("POR-DET-005", pair, EventOf[pair[2]].container) : pair \in Sequences_(E)}
    BY <2>1, <2>2 DEF BuiltInMatches
  <2>4. QED
    BY <2>3
<1>4. pair[1] \in UnseenShells(E) /\ m.source = pair
  BY <1>3 DEF Sequences_, Match
<1>5. PICK shell : shell = pair[1]
  OBVIOUS
<1>6. PICK d : d = Match("POR-DET-002", <<shell>>, EventOf[shell].container)
  OBVIOUS
<1>7. d \in All(E, anomaly, R) /\ d.rule = "POR-DET-002" /\ d.source[1] = shell
  <2>1. d \in OfEach("POR-DET-002", UnseenShells(E))
    BY <1>4, <1>5, <1>6 DEF OfEach
  <2>2. d \in BuiltInMatches(E, anomaly)
    BY <2>1 DEF BuiltInMatches
  <2>3. d.rule = "POR-DET-002" /\ d.source = <<shell>>
    BY <1>6 DEF Match
  <2>4. QED
    BY <2>2, <2>3 DEF All
<1>8. d \notin Suppressed(All(E, anomaly, R), A)
  <2>1. SUFFICES ASSUME d \in Suppressed(All(E, anomaly, R), A)
                 PROVE  m \in Suppressed(All(E, anomaly, R), A)
    BY DEF Left
  <2>2. PICK M : M = All(E, anomaly, R)
    OBVIOUS
  <2> DEFINE direct == {n \in M : n.rule # "POR-DET-005" /\ Exempt(n, A)}
             events_ == {n.source[1] : n \in {c \in direct : c.rule \in {"POR-DET-002", "POR-DET-004"}}}
  <2>3. Suppressed(M, A) = direct \union {n \in M : /\ n.rule = "POR-DET-005"
                                                    /\ {n.source[1], n.source[2]} \intersect events_ # {}}
    BY DEF Suppressed
  <2> HIDE DEF events_
  <2>4. d \in direct
    BY <1>7, <2>1, <2>2, <2>3
  <2>5. d.source[1] \in events_
    BY <1>7, <2>4 DEF events_
  <2>6. m.source[1] \in events_
    BY <1>4, <1>5, <1>7, <2>5
  <2>7. QED
    BY <1>1, <2>2, <2>3, <2>6
<1>9. QED
  BY <1>4, <1>5, <1>7, <1>8 DEF Left

LEMMA AllowlistsCalm ==
  ASSUME NEW E \in SUBSET Events, NEW R \in SUBSET CustomRules, NEW A,
         NEW anomaly \in Anomalies,
         NEW result, result = evaluate_detection(anomaly, E, A, R),
         NEW without, without = evaluate_detection(anomaly, E, {}, R)
  PROVE  /\ result.matches \subseteq without.matches /\ result.matches \in SUBSET Possible(R)
         /\ result.severity \in Nat /\ without.severity \in Nat
         /\ result.severity <= without.severity /\ result.severity <= 10000
         /\ result.confidence \in Nat /\ without.confidence \in Nat
         /\ result.confidence <= without.confidence /\ result.confidence <= 10000
         /\ result.status \in Statuses
         /\ \A m \in result.matches : m.rule = "POR-DET-005" =>
              \E d \in result.matches : d.rule = "POR-DET-002" /\ d.source[1] = m.source[1]
<1>1. CASE anomaly = None
  <2>1. /\ result = [status |-> "insufficient_data", matches |-> {}, suppressed |-> {},
                     severity |-> 0, confidence |-> 0]
        /\ without = result
    BY <1>1 DEF evaluate_detection
  <2>2. QED
    BY <2>1 DEF Statuses
<1>2. CASE anomaly # None
  <2>1. PICK M, N : M = Left(E, anomaly, A, R) /\ N = Left(E, anomaly, {}, R)
    OBVIOUS
  <2>2. N = All(E, anomaly, R) /\ M \in SUBSET N /\ N \in SUBSET Possible(R)
    BY <2>1, NothingExempt, MatchesArePossible DEF Left
  <2>3. /\ result.matches = M /\ without.matches = N
        /\ result.severity = Severity(M, R, anomaly) /\ without.severity = Severity(N, R, anomaly)
        /\ result.confidence = Confidence(M, R, E) /\ without.confidence = Confidence(N, R, E)
        /\ result.status \in Statuses
    BY <1>2, <2>1, EvaluationIs DEF Statuses
  <2>4. anomaly \in Nat /\ anomaly <= 100
    BY <1>2 DEF Anomalies
  <2>5. /\ Severity(M, R, anomaly) \in Nat /\ Severity(N, R, anomaly) \in Nat
        /\ Severity(M, R, anomaly) <= 10000
        /\ Severity(M, R, anomaly) <= Severity(N, R, anomaly)
    BY <2>2, <2>4, SeverityGrows
  <2>6. /\ Confidence(M, R, E) \in Nat /\ Confidence(N, R, E) \in Nat
        /\ Confidence(M, R, E) <= Confidence(N, R, E) /\ Confidence(M, R, E) <= 10000
    BY <2>2, ConfidenceGrows
  <2>7. \A m \in M : m.rule = "POR-DET-005" =>
          \E d \in M : d.rule = "POR-DET-002" /\ d.source[1] = m.source[1]
    BY <2>1, SequenceHasShell
  <2>8. QED
    BY <2>2, <2>3, <2>5, <2>6, <2>7
<1>3. QED
  BY <1>1, <1>2

-------------------------------------------------------------------------------
(* The inductive invariant: a run is what evaluation makes of what it       *)
(* records, one run has a key, and an answer fits its request.              *)

Recorded(run, result) ==
  IF result.status = "incident_created"
  THEN [findings |-> result.matches, severity |-> result.severity,
        confidence |-> result.confidence]
  ELSE [findings |-> {}, severity |-> 0, confidence |-> 0]

Computed(run) ==
  /\ run.key.allowlists = run.allowlists
  /\ run.key.rules = {RuleOf[r] : r \in run.rules}
  /\ run.incident = Recorded(run, Evaluated(run.key.score, run.evidence, run.allowlists, run.rules))

Fits(req) ==
  /\ req.answer # {} => req.stage = "answered"
  /\ \A run \in req.answer :
       /\ run.key.score = req.score
       /\ run.allowlists = req.allowlists
       /\ {RuleOf[r] : r \in run.rules} = {RuleOf[r] : r \in req.rules}

RunsComputed == \A run \in runs : Computed(run)
OneRunPerKey == \A r, s \in runs : r.key = s.key => r = s
AnswersFit == \A q \in Requests : Fits(requests[q])

IInv == DetectionTypeOK /\ RunsComputed /\ OneRunPerKey /\ AnswersFit

LEMMA PossibleAreMatches ==
  ASSUME NEW R \in SUBSET CustomRules, NEW m \in Possible(R)
  PROVE  m \in Matches
<1>1. \A e \in Events : EventOf[e].container \in Hosts \union {None}
  <2>1. \A e \in Events : EventOf[e] \in ExecEvents \/ EventOf[e] \in DockerEvents
    BY RulesAssumption DEF RulesAssumption
  <2>2. QED
    BY <2>1 DEF ExecEvents, DockerEvents
<1>2. ASSUME NEW rule \in BuiltInRules \union Slugs, NEW s \in Seq(Events),
             NEW c \in Hosts \union {None}
      PROVE  Match(rule, s, c) \in Matches
  BY DEF Match, Matches
<1>3. /\ <<>> \in Seq(Events) /\ \A e \in Events : <<e>> \in Seq(Events)
      /\ \A d, e \in Events : <<d, e>> \in Seq(Events)
  OBVIOUS
<1>4. CASE m = Match("POR-DET-001", <<>>, None)
  BY <1>2, <1>3, <1>4, RuleIdsAre
<1>5. ASSUME NEW rule \in RuleIds(R), NEW e \in Events,
             m = Match(rule, <<e>>, EventOf[e].container)
      PROVE  m \in Matches
  BY <1>1, <1>2, <1>3, <1>5, RuleIdsAre
<1>6. ASSUME NEW d \in Events, NEW e \in Events,
             m = Match("POR-DET-005", <<d, e>>, EventOf[e].container)
      PROVE  m \in Matches
  BY <1>1, <1>2, <1>3, <1>6, RuleIdsAre
<1>7. QED
  BY <1>4, <1>5, <1>6, PossibleFields

LEMMA ScoresAre ==
  \A s \in Scores : ScoreOf[s].anomaly \in Anomalies
BY DetectionAssumption DEF DetectionAssumption, Anomalies

Percents == 0..10000
Incidents == [findings : SUBSET Matches, severity : Percents, confidence : Percents]

\* The fields of a stored run (models.DetectionRun).
LEMMA RunRowIs ==
  RunRow = [key : Key, evidence : SUBSET Events, allowlists : SUBSET Allowlists,
            rules : SUBSET CustomRules, status : Statuses, incident : Incidents]
BY DEF RunRow, Statuses, Incidents, Percents

LEMMA RunFields ==
  ASSUME NEW run \in RunRow
  PROVE  run.key \in Key /\ run.evidence \in SUBSET Events /\ run.rules \in SUBSET CustomRules
BY RunRowIs

LEMMA EvaluatedIs ==
  ASSUME NEW s \in Scores, NEW E \in SUBSET Events, NEW A \in SUBSET Allowlists,
         NEW R \in SUBSET CustomRules
  PROVE  /\ Evaluated(s, E, A, R).status \in Statuses
         /\ Recorded({}, Evaluated(s, E, A, R)) \in Incidents
<1>1. PICK result : result = Evaluated(s, E, A, R)
  OBVIOUS
<1>2. PICK M : M = {MatcherOf[a] : a \in A}
  OBVIOUS
<1>3. result = evaluate_detection(ScoreOf[s].anomaly, E, M, R)
  BY <1>1, <1>2 DEF Evaluated
<1>4. /\ result.matches \in SUBSET Possible(R) /\ result.status \in Statuses
      /\ result.severity \in Nat /\ result.severity <= 10000
      /\ result.confidence \in Nat /\ result.confidence <= 10000
  <2>1. PICK a, without : a = ScoreOf[s].anomaly /\ without = evaluate_detection(a, E, {}, R)
    OBVIOUS
  <2>2. a \in Anomalies /\ result = evaluate_detection(a, E, M, R)
    BY <1>3, <2>1, ScoresAre
  <2>3. without = evaluate_detection(a, E, {}, R)
    BY <2>1
  <2>4. QED
    BY <2>2, <2>3, AllowlistsCalm
<1>5. PICK N, x, y : N = result.matches /\ x = result.severity /\ y = result.confidence
  OBVIOUS
<1>6. N \in SUBSET Matches /\ x \in Percents /\ y \in Percents
  <2>1. N \in SUBSET Possible(R) /\ x \in Nat /\ x <= 10000 /\ y \in Nat /\ y <= 10000
    BY <1>4, <1>5
  <2>2. \A z \in Nat : z <= 10000 => z \in Percents
    BY DEF Percents
  <2>3. QED
    BY <2>1, <2>2, PossibleAreMatches
<1> DEFINE incident(n, v, w) == [findings |-> n, severity |-> v, confidence |-> w]
<1>7. \A n \in SUBSET Matches, v, w \in Percents : incident(n, v, w) \in Incidents
  BY DEF Incidents
<1>8. {} \in SUBSET Matches /\ 0 \in Percents
  BY DEF Percents
<1>9. Recorded({}, result) = IF result.status = "incident_created" THEN incident(N, x, y)
                             ELSE incident({}, 0, 0)
  BY <1>5 DEF Recorded
<1> HIDE DEF incident
<1>10. Recorded({}, result) \in Incidents
  <2>1. incident(N, x, y) \in Incidents
    BY <1>6, <1>7, Zenon
  <2>2. incident({}, 0, 0) \in Incidents
    BY <1>7, <1>8, Zenon
  <2>3. QED
    BY <1>9, <2>1, <2>2, Zenon
<1>11. QED
  BY <1>1, <1>4, <1>10

LEMMA NewRunIs ==
  ASSUME NEW req, NEW r,
         req.score \in Scores, req.allowlists \in SUBSET Allowlists,
         req.rules \in SUBSET CustomRules, req.processes \in SUBSET Events,
         req.runtime \in SUBSET Events, revision \in 0..MaxUpgrades,
         r = NewRun(req, Evaluated(req.score, req.processes \union req.runtime,
                                   req.allowlists, req.rules))
  PROVE  /\ r \in RunRow /\ Computed(r) /\ r.key = RunKey(req) /\ r.allowlists = req.allowlists
         /\ r.rules = req.rules
<1>1. PICK s, E, A, R, result :
        /\ s = req.score /\ E = req.processes \union req.runtime /\ A = req.allowlists
        /\ R = req.rules /\ result = Evaluated(s, E, A, R)
  OBVIOUS
<1>2. s \in Scores /\ E \in SUBSET Events /\ A \in SUBSET Allowlists /\ R \in SUBSET CustomRules
  BY <1>1
<1>3. result.status \in Statuses /\ Recorded({}, result) \in Incidents
  BY <1>1, <1>2, EvaluatedIs
<1>4. PICK k, status, incident : k = RunKey(req) /\ status = result.status
                                 /\ incident = Recorded({}, result)
  OBVIOUS
<1>5. r = [key |-> k, evidence |-> E, allowlists |-> A, rules |-> R, status |-> status,
           incident |-> incident]
  BY <1>1, <1>4 DEF NewRun, Recorded
<1>6. k \in Key /\ k.score = s /\ k.allowlists = A /\ k.rules = {RuleOf[x] : x \in R}
  <2>1. k = [score |-> s, revision |-> revision, allowlists |-> A,
             rules |-> {RuleOf[x] : x \in R}]
    BY <1>1, <1>4 DEF RunKey
  <2>2. {RuleOf[x] : x \in R} \in SUBSET CustomRule
    BY <1>2, RulesAssumption DEF RulesAssumption
  <2>3. QED
    BY <1>2, <2>1, <2>2 DEF Key
<1>7. r \in RunRow
  <2> DEFINE row(k_1, E_1, A_1, R_1, x, y) ==
               [key |-> k_1, evidence |-> E_1, allowlists |-> A_1, rules |-> R_1, status |-> x,
                incident |-> y]
  <2>1. status \in Statuses /\ incident \in Incidents
    BY <1>3, <1>4
  <2>2. RunRow = [key : Key, evidence : SUBSET Events, allowlists : SUBSET Allowlists,
                  rules : SUBSET CustomRules, status : Statuses, incident : Incidents]
    BY RunRowIs
  <2>3. \A k_1 \in Key, E_1 \in SUBSET Events, A_1 \in SUBSET Allowlists,
           R_1 \in SUBSET CustomRules, x \in Statuses, y \in Incidents :
          row(k_1, E_1, A_1, R_1, x, y) \in RunRow
    BY <2>2
  <2>4. r = row(k, E, A, R, status, incident)
    BY <1>5
  <2> HIDE DEF row
  <2>5. QED
    BY <1>2, <1>6, <2>1, <2>3, <2>4
<1>8. r.key = k /\ r.evidence = E /\ r.allowlists = A /\ r.rules = R /\ r.incident = incident
  BY <1>5
<1>9. Computed(r)
  <2>1. Recorded(r, result) = Recorded({}, result)
    BY DEF Recorded
  <2>2. r.incident = Recorded(r, Evaluated(r.key.score, r.evidence, r.allowlists, r.rules))
    BY <1>1, <1>4, <1>6, <1>8, <2>1
  <2>3. QED
    BY <1>6, <1>8, <2>2 DEF Computed
<1>10. QED
  BY <1>1, <1>4, <1>7, <1>8, <1>9

-------------------------------------------------------------------------------
(* The invariant holds at first and each step keeps it. *)

Stages ==
  {"closed", "rules", "processes", "runtime", "commit", "answered", "conflict", "unavailable"}

LEMMA RequestFields ==
  Request = [stage : Stages, score : Scores, allowlists : SUBSET Allowlists,
             rules : SUBSET CustomRules, processes : SUBSET Events, runtime : SUBSET Events,
             answer : SUBSET runs]
BY DEF Request, Stages

LEMMA RequestHas ==
  ASSUME NEW r \in Request
  PROVE  /\ r.stage \in Stages /\ r.score \in Scores /\ r.allowlists \in SUBSET Allowlists
         /\ r.rules \in SUBSET CustomRules /\ r.processes \in SUBSET Events
         /\ r.runtime \in SUBSET Events /\ r.answer \in SUBSET runs
BY RequestFields

LEMMA ClosedIs ==
  /\ Closed \in Request /\ Closed.answer = {} /\ Fits(Closed)
  /\ \A s \in Stages : [Closed EXCEPT !.stage = s] \in Request /\ Fits([Closed EXCEPT !.stage = s])
  /\ \A s \in Stages, c \in Scores, A \in SUBSET Allowlists :
       /\ [Closed EXCEPT !.stage = s, !.score = c, !.allowlists = A] \in Request
       /\ Fits([Closed EXCEPT !.stage = s, !.score = c, !.allowlists = A])
<1>1. PICK c : c = CHOOSE s \in Scores : TRUE
  OBVIOUS
<1>2. c \in Scores
  BY <1>1, DetectionAssumption DEF DetectionAssumption
<1>3. Closed = [stage |-> "closed", score |-> c, allowlists |-> {}, rules |-> {},
                processes |-> {}, runtime |-> {}, answer |-> {}]
  BY <1>1 DEF Closed
<1>4. "closed" \in Stages
  BY DEF Stages
<1>5. Closed \in Request
  BY <1>2, <1>3, <1>4, RequestFields
<1>6. Closed.answer = {}
  BY <1>3
<1>7. ASSUME NEW s \in Stages
      PROVE  [Closed EXCEPT !.stage = s] \in Request /\ Fits([Closed EXCEPT !.stage = s])
  BY <1>5, <1>6, RequestFields DEF Fits
<1>8. ASSUME NEW s \in Stages, NEW d \in Scores, NEW A \in SUBSET Allowlists
      PROVE  /\ [Closed EXCEPT !.stage = s, !.score = d, !.allowlists = A] \in Request
             /\ Fits([Closed EXCEPT !.stage = s, !.score = d, !.allowlists = A])
  BY <1>5, <1>6, RequestFields DEF Fits
<1>9. QED
  BY <1>5, <1>6, <1>7, <1>8 DEF Fits

LEMMA InitIInv ==
  DetectionInit => IInv
<1> SUFFICES ASSUME DetectionInit PROVE IInv
  OBVIOUS
<1> USE DEF DetectionInit
<1>1. /\ allowlists \in [Allowlists -> {"absent", "active", "inactive"}]
      /\ expired \subseteq Expiring
      /\ customRules \in [CustomRules -> {"absent", "enabled", "disabled"}]
      /\ events \in [Events -> {"expected", "stored", "deleted"}]
      /\ runs \subseteq RunRow
      /\ \A r \in CustomRules : customRules[r] # "enabled"
  OBVIOUS
<1>2. revision \in 0..MaxUpgrades
  BY DetectionAssumption DEF DetectionAssumption
<1>3. requests \in [Requests -> Request]
  BY ClosedIs
<1>4. RunsComputed /\ OneRunPerKey
  BY DEF RunsComputed, OneRunPerKey
<1>5. AnswersFit
  BY ClosedIs DEF AnswersFit
<1>6. QED
  BY <1>1, <1>2, <1>3, <1>4, <1>5 DEF IInv, DetectionTypeOK

LEMMA RequestsGrow ==
  ASSUME runs \subseteq runs'
  PROVE  Request \subseteq Request'
BY DEF Request

(* A step of a handler gives its request a new state.                       *)
LEMMA StepKeeps ==
  ASSUME IInv, NEW q \in Requests, NEW req, Step(q, req), runs \subseteq runs',
         runs' \subseteq RunRow, RunsComputed', OneRunPerKey', req \in Request', Fits(req)
  PROVE  IInv'
<1>1. /\ requests \in [Requests -> Request] /\ requests' = [requests EXCEPT ![q] = req]
      /\ UNCHANGED <<allowlists, expired, customRules, events, revision>>
  BY DEF Step, operatorVars, IInv, DetectionTypeOK
<1>2. requests' \in [Requests -> Request']
  BY <1>1, RequestsGrow
<1>3. DetectionTypeOK'
  BY <1>1, <1>2 DEF DetectionTypeOK, IInv
<1>4. AnswersFit'
  BY <1>1 DEF AnswersFit, IInv
<1>5. QED
  BY <1>3, <1>4 DEF IInv

(* A step of a handler that stores no run.                                  *)
LEMMA StepWithoutRun ==
  ASSUME IInv, NEW q \in Requests, NEW req \in Request, Step(q, req), UNCHANGED runs, Fits(req)
  PROVE  IInv'
<1>1. runs \subseteq runs' /\ runs' \subseteq RunRow /\ RunsComputed' /\ OneRunPerKey'
  BY DEF IInv, DetectionTypeOK, RunsComputed, OneRunPerKey
<1>2. req \in Request'
  BY <1>1, RequestsGrow
<1>3. QED
  BY <1>1, <1>2, StepKeeps

(* A step that changes no run and no request.                               *)
LEMMA OtherStep ==
  ASSUME IInv, UNCHANGED <<runs, requests>>,
         allowlists' \in [Allowlists -> {"absent", "active", "inactive"}],
         expired' \subseteq Expiring,
         customRules' \in [CustomRules -> {"absent", "enabled", "disabled"}],
         events' \in [Events -> {"expected", "stored", "deleted"}],
         revision' \in 0..MaxUpgrades,
         \A r, s \in CustomRules :
           (r # s /\ RuleOf[r].slug = RuleOf[s].slug)
             => ~(customRules'[r] = "enabled" /\ customRules'[s] = "enabled")
  PROVE  IInv'
<1>1. Request' = Request
  BY DEF Request
<1>2. DetectionTypeOK'
  BY <1>1 DEF DetectionTypeOK, IInv
<1>3. RunsComputed' /\ OneRunPerKey' /\ AnswersFit'
  BY DEF IInv, RunsComputed, OneRunPerKey, AnswersFit
<1>4. QED
  BY <1>2, <1>3 DEF IInv

(* Operators: one rule of a slug is enabled at a time.                      *)
LEMMA OperateStep ==
  ASSUME IInv, Operate PROVE IInv'
<1>1. /\ allowlists \in [Allowlists -> {"absent", "active", "inactive"}]
      /\ expired \subseteq Expiring
      /\ customRules \in [CustomRules -> {"absent", "enabled", "disabled"}]
      /\ \A r, s \in CustomRules :
           (r # s /\ RuleOf[r].slug = RuleOf[s].slug)
             => ~(customRules[r] = "enabled" /\ customRules[s] = "enabled")
  BY DEF IInv, DetectionTypeOK
<1>2. UNCHANGED <<events, revision, runs, requests>>
  BY DEF Operate
<1>3. events' \in [Events -> {"expected", "stored", "deleted"}] /\ revision' \in 0..MaxUpgrades
  BY <1>2 DEF IInv, DetectionTypeOK
<1>4. ASSUME NEW a \in Allowlists,
             CreateAllowlist(a) \/ DeactivateAllowlist(a) \/ AllowlistExpires(a)
      PROVE  /\ allowlists' \in [Allowlists -> {"absent", "active", "inactive"}]
             /\ expired' \subseteq Expiring /\ UNCHANGED customRules
  <2>1. CASE CreateAllowlist(a)
    BY <1>1, <2>1 DEF CreateAllowlist
  <2>2. CASE DeactivateAllowlist(a)
    BY <1>1, <2>2 DEF DeactivateAllowlist
  <2>3. CASE AllowlistExpires(a)
    BY <1>1, <2>3 DEF AllowlistExpires
  <2>4. QED
    BY <1>4, <2>1, <2>2, <2>3
<1>5. ASSUME NEW r \in CustomRules, CreateOrEnableRule(r) \/ DisableRule(r)
      PROVE  /\ UNCHANGED <<allowlists, expired>>
             /\ customRules' \in [CustomRules -> {"absent", "enabled", "disabled"}]
             /\ \A p, s \in CustomRules :
                  (p # s /\ RuleOf[p].slug = RuleOf[s].slug)
                    => ~(customRules'[p] = "enabled" /\ customRules'[s] = "enabled")
  <2>1. CASE CreateOrEnableRule(r)
    BY <1>1, <2>1 DEF CreateOrEnableRule, SlugFree
  <2>2. CASE DisableRule(r)
    BY <1>1, <2>2 DEF DisableRule
  <2>3. QED
    BY <1>5, <2>1, <2>2
<1>6. CASE \E a \in Allowlists :
             CreateAllowlist(a) \/ DeactivateAllowlist(a) \/ AllowlistExpires(a)
  <2>1. /\ allowlists' \in [Allowlists -> {"absent", "active", "inactive"}]
        /\ expired' \subseteq Expiring /\ UNCHANGED customRules
    BY <1>4, <1>6
  <2>2. QED
    BY <1>1, <1>2, <1>3, <2>1, OtherStep
<1>7. CASE \E r \in CustomRules : CreateOrEnableRule(r) \/ DisableRule(r)
  <2>1. /\ UNCHANGED <<allowlists, expired>>
        /\ customRules' \in [CustomRules -> {"absent", "enabled", "disabled"}]
        /\ \A p, s \in CustomRules :
             (p # s /\ RuleOf[p].slug = RuleOf[s].slug)
               => ~(customRules'[p] = "enabled" /\ customRules'[s] = "enabled")
    BY <1>5, <1>7
  <2>2. QED
    BY <1>1, <1>2, <1>3, <2>1, OtherStep
<1>8. QED
  BY <1>6, <1>7 DEF Operate

LEMMA EventStep ==
  ASSUME IInv, NEW e \in Events, EventArrives(e) \/ Retain(e) PROVE IInv'
<1>1. events \in [Events -> {"expected", "stored", "deleted"}]
  BY DEF IInv, DetectionTypeOK
<1>2. /\ UNCHANGED <<allowlists, expired, customRules, revision, runs, requests>>
      /\ events' \in [Events -> {"expected", "stored", "deleted"}]
  <2>1. CASE EventArrives(e)
    BY <1>1, <2>1 DEF EventArrives, operatorVars
  <2>2. CASE Retain(e)
    BY <1>1, <2>2 DEF Retain, operatorVars
  <2>3. QED
    BY <2>1, <2>2
<1>3. QED
  BY <1>2, OtherStep DEF IInv, DetectionTypeOK

LEMMA RestartStep ==
  ASSUME IInv, Restart PROVE IInv'
<1>1. UNCHANGED <<allowlists, expired, customRules, events, runs>>
  BY DEF Restart, operatorVars
<1>2. revision' \in 0..MaxUpgrades
  <2>1. revision \in 0..MaxUpgrades /\ MaxUpgrades \in Nat
    BY DetectionAssumption DEF IInv, DetectionTypeOK, DetectionAssumption
  <2>2. revision' = revision \/ (revision' = revision + 1 /\ revision' <= MaxUpgrades)
    BY DEF Restart
  <2>3. QED
    BY <2>1, <2>2
<1>3. requests' = [q \in Requests |-> Closed]
  BY DEF Restart
<1>4. Request' = Request
  BY <1>1 DEF Request
<1>5. requests' \in [Requests -> Request']
  BY <1>3, <1>4, ClosedIs
<1>6. DetectionTypeOK'
  BY <1>1, <1>2, <1>5 DEF IInv, DetectionTypeOK
<1>7. AnswersFit'
  BY <1>3, ClosedIs DEF AnswersFit
<1>8. RunsComputed' /\ OneRunPerKey'
  BY <1>1 DEF IInv, RunsComputed, OneRunPerKey
<1>9. QED
  BY <1>6, <1>7, <1>8 DEF IInv

LEMMA RequestIs ==
  ASSUME IInv, NEW q \in Requests
  PROVE  requests[q] \in Request /\ Fits(requests[q]) /\ runs \subseteq RunRow
BY DEF IInv, DetectionTypeOK, AnswersFit

LEMMA RequestDetectionStep ==
  ASSUME IInv, NEW q \in Requests, NEW s \in Scores, RequestDetection(q, s) PROVE IInv'
<1>1. InForce \in SUBSET Allowlists /\ "rules" \in Stages
  BY DEF InForce, Stages
<1>2. PICK req : req = [Closed EXCEPT !.stage = "rules", !.score = s, !.allowlists = InForce]
  OBVIOUS
<1>3. req \in Request /\ Fits(req)
  BY <1>1, <1>2, ClosedIs
<1>4. Step(q, req) /\ UNCHANGED runs
  BY <1>2 DEF RequestDetection
<1>5. QED
  BY <1>3, <1>4, StepWithoutRun

(* The runs found by a key fit the request that made it.                    *)
LEMMA FoundFit ==
  ASSUME IInv, NEW req \in Request, NEW found, found = WithKey(RunKey(req))
  PROVE  Answered(req, found) \in Request /\ Fits(Answered(req, found))
<1>1. "answered" \in Stages
  BY DEF Stages
<1>2. found \in SUBSET runs
  BY DEF WithKey
<1>3. PICK a : a = Answered(req, found)
  OBVIOUS
<1>4. /\ a \in Request /\ a.stage = "answered" /\ a.answer = found /\ a.score = req.score /\ a.rules = req.rules
      /\ a.allowlists = req.allowlists
  BY <1>1, <1>2, <1>3, RequestFields DEF Answered
<1>5. ASSUME NEW run \in found
      PROVE  /\ run.key.score = req.score /\ run.allowlists = req.allowlists
             /\ {RuleOf[r] : r \in run.rules} = {RuleOf[r] : r \in req.rules}
  <2>1. run.key = RunKey(req) /\ Computed(run)
    BY <1>5 DEF WithKey, IInv, RunsComputed
  <2>2. /\ RunKey(req).score = req.score /\ RunKey(req).allowlists = req.allowlists
        /\ RunKey(req).rules = {RuleOf[r] : r \in req.rules}
    BY DEF RunKey
  <2>3. QED
    BY <2>1, <2>2 DEF Computed
<1>6. QED
  BY <1>3, <1>4, <1>5 DEF Fits

LEMMA SelectRulesStep ==
  ASSUME IInv, NEW q \in Requests, SelectRules(q) PROVE IInv'
<1>1. PICK old : old = requests[q]
  OBVIOUS
<1>2. old \in Request /\ old.answer = {}
  BY <1>1, RequestIs DEF SelectRules, Fits
<1>3. PICK req : req = [old EXCEPT !.rules = Enabled]
  OBVIOUS
<1>4. /\ req \in Request /\ req.answer = old.answer
  BY <1>2, <1>3, RequestFields DEF Enabled
<1>5. PICK found : found = WithKey(RunKey(req))
  OBVIOUS
<1>6. /\ UNCHANGED runs
      /\ \/ Step(q, Answered(req, found))
         \/ Step(q, [req EXCEPT !.stage = "processes"])
  BY <1>1, <1>3, <1>5 DEF SelectRules
<1>7. CASE Step(q, Answered(req, found))
  <2>1. Answered(req, found) \in Request /\ Fits(Answered(req, found))
    BY <1>4, <1>5, FoundFit
  <2>2. QED
    BY <1>6, <1>7, <2>1, StepWithoutRun
<1>8. CASE Step(q, [req EXCEPT !.stage = "processes"])
  <2>1. "processes" \in Stages
    BY DEF Stages
  <2>2. [req EXCEPT !.stage = "processes"] \in Request
    BY <1>4, <2>1, RequestFields
  <2>3. Fits([req EXCEPT !.stage = "processes"])
    <3>1. [req EXCEPT !.stage = "processes"].answer = {}
      BY <1>2, <1>4, RequestFields
    <3>2. QED
      BY <3>1 DEF Fits
  <2>4. QED
    BY <1>6, <1>8, <2>2, <2>3, StepWithoutRun
<1>9. QED
  BY <1>6, <1>7, <1>8

LEMMA SelectEventsStep ==
  ASSUME IInv, NEW q \in Requests, SelectProcesses(q) \/ SelectRuntime(q) PROVE IInv'
<1>1. PICK old : old = requests[q]
  OBVIOUS
<1>2. old \in Request /\ old.answer = {}
  BY <1>1, RequestIs DEF SelectProcesses, SelectRuntime, Fits
<1>3. PICK E : E = Stored(old.score)
  OBVIOUS
<1>4. Processes(E) \in SUBSET Events /\ Runtime(E) \in SUBSET Events
  BY <1>3 DEF Stored, Processes, Runtime
<1>5. "runtime" \in Stages /\ "commit" \in Stages
  BY DEF Stages
<1>6. CASE SelectProcesses(q)
  <2>1. PICK req : req = [old EXCEPT !.stage = "runtime", !.processes = Processes(E)]
    OBVIOUS
  <2>2. req \in Request /\ req.answer = {}
    BY <1>2, <1>4, <1>5, <2>1, RequestFields
  <2>3. Step(q, req) /\ UNCHANGED runs
    BY <1>1, <1>3, <1>6, <2>1 DEF SelectProcesses
  <2>4. QED
    BY <2>2, <2>3, StepWithoutRun DEF Fits
<1>7. CASE SelectRuntime(q)
  <2>1. PICK req : req = [old EXCEPT !.stage = "commit", !.runtime = Runtime(E)]
    OBVIOUS
  <2>2. req \in Request /\ req.answer = {}
    BY <1>2, <1>4, <1>5, <2>1, RequestFields
  <2>3. Step(q, req) /\ UNCHANGED runs
    BY <1>1, <1>3, <1>7, <2>1 DEF SelectRuntime
  <2>4. QED
    BY <2>2, <2>3, StepWithoutRun DEF Fits
<1>8. QED
  BY <1>6, <1>7

LEMMA CloseStep ==
  ASSUME IInv, NEW q \in Requests, Close(q) PROVE IInv'
<1>1. Step(q, Closed) /\ UNCHANGED runs
  BY DEF Close
<1>2. QED
  BY <1>1, ClosedIs, StepWithoutRun

(* A run is stored where none has its key, even of another revision.        *)
LEMMA CommitRunStep ==
  ASSUME IInv, NEW q \in Requests, CommitRun(q) PROVE IInv'
<1>1. PICK req, k : req = requests[q] /\ k = RunKey(req)
  OBVIOUS
<1>2. PICK run : run = NewRun(req, Evaluated(req.score, req.processes \union req.runtime,
                                             req.allowlists, req.rules))
  OBVIOUS
<1>3. req \in Request /\ req.answer = {} /\ revision \in 0..MaxUpgrades /\ runs \subseteq RunRow
  BY <1>1, RequestIs DEF CommitRun, Fits, IInv, DetectionTypeOK
<1>4. /\ run \in RunRow /\ Computed(run) /\ run.key = k /\ run.allowlists = req.allowlists
      /\ run.rules = req.rules
  BY <1>1, <1>2, <1>3, RequestHas, NewRunIs
<1>5. k.score = req.score
  BY <1>1 DEF RunKey
<1>6. \/ SameInputs(k) = {} /\ runs' = runs \union {run} /\ Step(q, Answered(req, {run}))
      \/ UNCHANGED runs /\ Step(q, Refused("unavailable"))
      \/ UNCHANGED runs /\ Step(q, Refused("conflict"))
      \/ UNCHANGED runs /\ Step(q, Answered(req, WithKey(k)))
  BY <1>1, <1>2 DEF CommitRun
<1>7. ASSUME SameInputs(k) = {}, runs' = runs \union {run}, Step(q, Answered(req, {run}))
      PROVE  IInv'
  <2>1. runs \subseteq runs' /\ runs' \subseteq RunRow
    BY <1>3, <1>4, <1>7
  <2>2. RunsComputed'
    BY <1>4, <1>7 DEF RunsComputed, IInv
  <2>3. \A r \in runs : r.key # k
    <3>1. SUFFICES ASSUME NEW r \in runs, r.key = k PROVE r \in SameInputs(k)
      BY <1>7
    <3>2. k \in Key
      BY <1>3, <3>1, RunFields
    <3>3. [k EXCEPT !.revision = k.revision] = k
      BY <3>2 DEF Key
    <3>4. QED
      BY <3>1, <3>3 DEF SameInputs
  <2>4. OneRunPerKey'
    BY <1>4, <1>7, <2>3 DEF OneRunPerKey, IInv
  <2>5. PICK a : a = Answered(req, {run})
    OBVIOUS
  <2>6. /\ a \in Request' /\ a.stage = "answered" /\ a.answer = {run} /\ a.score = req.score
        /\ a.allowlists = req.allowlists /\ a.rules = req.rules
    <3>1. "answered" \in Stages /\ {run} \in SUBSET runs'
      BY <1>7 DEF Stages
    <3>2. Request' = [stage : Stages, score : Scores, allowlists : SUBSET Allowlists,
                      rules : SUBSET CustomRules, processes : SUBSET Events,
                      runtime : SUBSET Events, answer : SUBSET runs']
      BY DEF Request, Stages
    <3>3. QED
      BY <1>3, <2>5, <3>1, <3>2, RequestFields DEF Answered
  <2>7. Fits(a)
    BY <1>4, <1>5, <2>6 DEF Fits
  <2>8. QED
    BY <1>7, <2>1, <2>2, <2>4, <2>5, <2>6, <2>7, StepKeeps
<1>8. ASSUME NEW how \in Stages, UNCHANGED runs, Step(q, Refused(how)) PROVE IInv'
  <2>1. Refused(how) \in Request /\ Fits(Refused(how))
    BY ClosedIs DEF Refused
  <2>2. QED
    BY <1>8, <2>1, StepWithoutRun
<1>9. ASSUME UNCHANGED runs, Step(q, Answered(req, WithKey(k))) PROVE IInv'
  <2>1. Answered(req, WithKey(k)) \in Request /\ Fits(Answered(req, WithKey(k)))
    BY <1>1, <1>3, FoundFit
  <2>2. QED
    BY <1>9, <2>1, StepWithoutRun
<1>10. "unavailable" \in Stages /\ "conflict" \in Stages
  BY DEF Stages
<1>11. QED
  BY <1>6, <1>7, <1>8, <1>9, <1>10

LEMMA IInvStep ==
  IInv /\ [DetectionNext]_detectionVars => IInv'
<1> SUFFICES ASSUME IInv, [DetectionNext]_detectionVars PROVE IInv'
  OBVIOUS
<1>1. CASE Operate
  BY <1>1, OperateStep
<1>2. ASSUME NEW q \in Requests, NEW s \in Scores, RequestDetection(q, s) PROVE IInv'
  BY <1>2, RequestDetectionStep
<1>3. ASSUME NEW q \in Requests, SelectRules(q) PROVE IInv'
  BY <1>3, SelectRulesStep
<1>4. ASSUME NEW q \in Requests, SelectProcesses(q) \/ SelectRuntime(q) PROVE IInv'
  BY <1>4, SelectEventsStep
<1>5. ASSUME NEW q \in Requests, CommitRun(q) PROVE IInv'
  BY <1>5, CommitRunStep
<1>6. ASSUME NEW q \in Requests, Close(q) PROVE IInv'
  BY <1>6, CloseStep
<1>7. ASSUME NEW e \in Events, EventArrives(e) \/ Retain(e) PROVE IInv'
  BY <1>7, EventStep
<1>8. CASE Restart
  BY <1>8, RestartStep
<1>9. CASE UNCHANGED detectionVars
  BY <1>9, OtherStep DEF detectionVars, IInv, DetectionTypeOK
<1>10. QED
  BY <1>1, <1>2, <1>3, <1>4, <1>5, <1>6, <1>7, <1>8, <1>9 DEF DetectionNext

LEMMA SpecIInv == DetectionSpec => []IInv
<1>1. DetectionInit => IInv
  BY InitIInv
<1>2. IInv /\ [DetectionNext]_detectionVars => IInv'
  BY IInvStep
<1>3. QED
  BY <1>1, <1>2, PTL DEF DetectionSpec

-------------------------------------------------------------------------------
(* Theorems. *)

(* The tables and the open requests are of their types, and never are two   *)
(* custom rules of one slug enabled, whichever way they are created and     *)
(* enabled.  (models.py, the partial unique index of slugs.)                *)
THEOREM DetectionTypeCorrect == DetectionSpec => []DetectionTypeOK
<1>1. IInv => DetectionTypeOK
  BY DEF IInv
<1>2. QED
  BY <1>1, SpecIInv, PTL

(* Two requests for the same score, allowlists, rules and revision never    *)
(* leave two runs, and a request is answered with a run computed for its    *)
(* score from the allowlists and rules it read, however many handlers, rule *)
(* changes and restarts come between.  (main.py, run_detection.)            *)
THEOREM AnswersAreForTheirRules == DetectionSpec => []AnswerIsForTheseRules
<1>1. IInv => AnswerIsForTheseRules
  BY DEF IInv, OneRunPerKey, AnswersFit, Fits, AnswerIsForTheseRules
<1>2. QED
  BY <1>1, SpecIInv, PTL

(* For any events, rules and allowlists: allowlisting adds no finding and   *)
(* raises neither severity nor confidence, and an incident that reports a   *)
(* sequence reports its shell.  (detection.py, _apply_allowlists and        *)
(* evaluate_detection.)                                                     *)
THEOREM AllowlistingOnlyCalms == DetectionSpec => []AllowlistsOnlyCalm
<1>1. IInv => AllowlistsOnlyCalm
  <2> SUFFICES ASSUME IInv PROVE AllowlistsOnlyCalm
    OBVIOUS
  <2>1. SUFFICES ASSUME NEW run \in runs, NEW without,
                        without = Evaluated(run.key.score, run.evidence, {}, run.rules)
                 PROVE  /\ run.incident.findings \subseteq without.matches
                        /\ run.incident.severity <= without.severity
                        /\ run.incident.confidence <= without.confidence
                        /\ \A m \in run.incident.findings : m.rule = "POR-DET-005" =>
                             \E d \in run.incident.findings :
                               d.rule = "POR-DET-002" /\ d.source[1] = m.source[1]
    BY DEF AllowlistsOnlyCalm
  <2>2. PICK E, R, A, a, result :
          /\ E = run.evidence /\ R = run.rules /\ A = {MatcherOf[b] : b \in run.allowlists}
          /\ a = ScoreOf[run.key.score].anomaly /\ result = evaluate_detection(a, E, A, R)
    OBVIOUS
  <2>3. /\ E \in SUBSET Events /\ R \in SUBSET CustomRules /\ run.key.score \in Scores
        /\ Computed(run)
    <3>1. run \in RunRow /\ Computed(run)
      BY DEF IInv, DetectionTypeOK, RunsComputed
    <3>2. run.key \in Key /\ run.evidence \in SUBSET Events /\ run.rules \in SUBSET CustomRules
      BY <3>1, RunFields
    <3>3. run.key.score \in Scores
      BY <3>2 DEF Key
    <3>4. QED
      BY <2>2, <3>1, <3>2, <3>3
  <2>4. a \in Anomalies
    BY <2>2, <2>3, ScoresAre
  <2>5. without = evaluate_detection(a, E, {}, R)
    BY <2>1, <2>2 DEF Evaluated
  <2>6. run.incident = Recorded(run, result)
    BY <2>2, <2>3 DEF Computed, Evaluated
  <2>7. /\ result.matches \subseteq without.matches
        /\ result.severity <= without.severity /\ without.severity \in Nat
        /\ result.confidence <= without.confidence /\ without.confidence \in Nat
        /\ \A m \in result.matches : m.rule = "POR-DET-005" =>
             \E d \in result.matches : d.rule = "POR-DET-002" /\ d.source[1] = m.source[1]
    <3>1. result = evaluate_detection(a, E, A, R)
      BY <2>2
    <3>2. QED
      BY <2>3, <2>4, <2>5, <3>1, AllowlistsCalm
  <2>8. CASE result.status = "incident_created"
    <3>1. /\ run.incident.findings = result.matches
          /\ run.incident.severity = result.severity
          /\ run.incident.confidence = result.confidence
      BY <2>6, <2>8 DEF Recorded
    <3>2. QED
      BY <2>7, <3>1
  <2>9. CASE result.status # "incident_created"
    <3>1. /\ run.incident.findings = {} /\ run.incident.severity = 0
          /\ run.incident.confidence = 0
      BY <2>6, <2>9 DEF Recorded
    <3>2. 0 <= without.severity /\ 0 <= without.confidence
      BY <2>7
    <3>3. QED
      BY <3>1, <3>2
  <2>10. QED
    BY <2>8, <2>9
<1>2. QED
  BY <1>1, SpecIInv, PTL
===============================================================================
