---------------------------- MODULE MCResponseEngine ----------------------------
(* Instances of ResponseEngine for TLC. *)
EXTENDS ResponseEngine, TLC

CONSTANTS i1, i2, i3, r1, r2, r3, x1, x2, w1, w2, c1, c2, c3

(* Evidence for every action, and evidence for observing and pausing.       *)
Severe   == [severity |-> 95, confidence |-> 80, strong_rule |-> TRUE]
Pausable == [severity |-> 75, confidence |-> 60, strong_rule |-> FALSE]

SevereEvidence == [r \in Recommendations |-> Severe]
PausableEvidence == [r \in Recommendations |-> Pausable]
OwnIncidents ==
  [r \in Recommendations |-> IF r = r1 THEN i1 ELSE IF r = r2 THEN i2 ELSE i3]
OwnContainers ==
  [r \in Recommendations |-> IF r = r1 THEN c1 ELSE IF r = r2 THEN c2 ELSE c3]

(* One of the incidents is acted on, the others stay open and their         *)
(* containers run: c1 nobody else touches, c2 others change too, c3 is      *)
(* protected.                                                               *)
LeftAlone(j) ==
  /\ incidents'[j] = "open"
  /\ \A w \in Workers : txns'[w].op \in {"generate", "incident"} => txns'[w].incident # j
  /\ \A r \in Recommendations :
       IncidentOf[r] = j =>
         recs'[r] = AbsentRecommendation /\ containers'[TargetOf[r]] = "running"

(* Faults strike attempts on c1 only, so that the bound on attempts is not  *)
(* what ends those on c2 and c3.                                            *)
FaultsOnlyThere == LeftAlone(i1) => faults' = 0

MCNext ==
  /\ EngineNext
  /\ \E i \in Incidents : \A j \in Incidents \ {i} : LeftAlone(j)
  /\ FaultsOnlyThere
MCSpec == EngineInit /\ [][MCNext]_engineVars /\ Fairness

(* For the races of handlers and responders about one approved action: it   *)
(* has been approved in live mode while the recommendation was young, and   *)
(* the incident and the decision stay as they are.                          *)
RaceInit == EngineInit /\ mode = "live"
RaceNext ==
  /\ EngineNext
  /\ UNCHANGED <<incidents, mode>>
  /\ ~recs'[r1].aged
  /\ Present(r1) => UNCHANGED recs
  /\ \A w \in Workers :
       /\ txns'[w].op \notin {"incident", "reject"}
       /\ Present(r1) => txns'[w].op \notin {"generate", "approve"}
RaceSpec == RaceInit /\ [][RaceNext]_engineVars

Symmetry == Permutations(Workers) \union Permutations(Executors)
===============================================================================
