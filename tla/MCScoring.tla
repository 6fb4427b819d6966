-------------------------------- MODULE MCScoring --------------------------------
(* An instance of Scoring and Calibration for TLC. *)
EXTENDS Scoring, Calibration, TLC

CONSTANTS a1, a2, w1, w2, c1, c2, server, shell, root, box, start,
          u2, u3, d1, d2

(* Handlers differ in nothing but their name.                               *)
Handlers == Permutations({w1, w2}) \union Permutations({c1, c2})
              \union Permutations({d1, d2})

(* Two events of training and one of a window after it; the second one is   *)
(* also in a window that begins in the training.                            *)
MCEvents == 1..3
MCIds == [e \in MCEvents |-> e]
Exec(at, program) ==
  [kind |-> "process", at |-> at, container |-> box, name |-> program,
   program |-> program, parent |-> server, uid |-> root]
MCEventOf ==
  <<[kind |-> "runtime", at |-> 0, container |-> box, action |-> start],
    Exec(2, server), Exec(5, shell)>>
OneImage == [e \in MCEvents |-> "image-a"]
OneDigest == [p \in Profiles |-> "image-a"]

(* a1 is built when both training events are there, a2 from the second one  *)
(* alone.                                                                   *)
MCTrainingStart == [p \in Profiles |-> IF p = a1 THEN 0 ELSE 1]
MCTrainingEnd == [p \in Profiles |-> 3]
MCWindowSeconds == [p \in Profiles |-> 2]
MCTrainedOn == [p \in Profiles |-> IF p = a1 THEN {1, 2} ELSE {2}]
MCPassing ==
  {p \in Profiles : QualityPassed(MCTrainedOn[p], MCTrainingStart[p], MCTrainingEnd[p],
                                  MCWindowSeconds[p], 1, 1)}

MCStatisticOf == [r \in Runs |-> 2]
MCSortedAlike == SUBSET Runs \ {{u2, u3}}

(* The two kinds of tables share nothing: one moves while the other is      *)
(* empty.                                                                   *)
MCInit == ScoringInit /\ CalibrationInit
MCNext ==
  \/ CalibrationInit /\ ScoringNext /\ UNCHANGED calibrationVars
  \/ ScoringInit /\ CalibrationNext /\ UNCHANGED scoringVars
MCSpec == MCInit /\ [][MCNext]_<<scoringVars, calibrationVars>>
===============================================================================
