------------------------------- MODULE Calibration -------------------------------
(***************************************************************************)
(* Calibrated rarity models and their scores: the tables                   *)
(* calibrated_rarity_models (with the runs and blocks committed beside     *)
(* each row) and calibrated_rarity_scores, create_calibrated_model and     *)
(* create_calibrated_score of backend/src/porygon_api/main.py, with the    *)
(* split, the artifact and the p-value of calibrated_provenance.py,        *)
(* run_calibration.py and calibrated_rarity.py.                            *)
(*                                                                         *)
(* Nothing updates or deletes these rows, so a handler's reads are one     *)
(* step; it commits in a later one.  A hash is what it covers.             *)
(***************************************************************************)
EXTENDS Integers, FiniteSets

CONSTANTS
  Runs,                  (* workload runs                                     *)
  StatisticOf,           (* [Runs -> Nat]: the block statistic of a run       *)
  Claimed,               (* statistics a request may give for a test run      *)
  Contexts,              (* profile contexts                                  *)
  Minima,                (* minimum_calibration_runs a request may ask for    *)
  SortedAlike,           (* sets of runs the database sorts as the API does   *)
  Callers,               (* requests that may be open at one time             *)
  MaxModels, MaxRatings  (* bounds: models and scores stored                  *)

ASSUME CalibrationAssumption ==
  /\ IsFiniteSet(Runs) /\ StatisticOf \in [Runs -> Nat]
  /\ Claimed \subseteq Nat
  /\ Minima \subseteq Nat \ {0}

VARIABLES
  models,      (* calibrated_rarity_models                                    *)
  ratings,     (* calibrated_rarity_scores                                    *)
  calls        (* [Callers -> row to insert, or NoRow]                        *)

calibrationVars == <<models, ratings, calls>>

(* A row is its content, hashed into its key, and the request it is from.   *)
Model ==
  [fit : SUBSET Runs, calibration : SUBSET Runs, context : Contexts,
   min_calibration_runs : Minima]

(* The p-value is "tail" of "blocks" + 1, and 0 if the run was not scored.  *)
Rating ==
  [model : Model, run : Runs, context : Contexts, statistic : Claimed,
   status : {"scored", "drift_detected", "insufficient_data"}, tail : Nat, blocks : Nat]

Row(content) == [content : content, by : Callers]
NoRow == [table |-> "none"]
Insertion ==
  [table : {"models"}, row : Row(Model)] \union [table : {"ratings"}, row : Row(Rating)]
    \union {NoRow}

Open(table) == Cardinality({c \in Callers : calls[c].table = table})
Contents(table) == {r.content : r \in table}

CalibrationTypeOK ==
  /\ models \subseteq Row(Model)
  /\ \A m \in Contents(models) : /\ m.fit \intersect m.calibration = {}
                                /\ Cardinality(m.calibration) >= m.min_calibration_runs
  /\ ratings \subseteq Row(Rating)
  /\ calls \in [Callers -> Insertion]

CalibrationInit ==
  /\ models = {}
  /\ ratings = {}
  /\ calls = [c \in Callers |-> NoRow]

Insert(c, table, content) ==
  /\ calls[c] = NoRow
  /\ calls' = [calls EXCEPT ![c] = [table |-> table, row |-> [content |-> content, by |-> c]]]
  /\ UNCHANGED <<models, ratings>>

-------------------------------------------------------------------------------
(* create_calibrated_model *)

(* build_calibration_artifact: one statistic of each calibration run.       *)
EnoughRuns(m) == Cardinality(m.calibration) >= m.min_calibration_runs

(* validate_run_split; the statistics cover exactly the calibration runs.   *)
ValidSplit(m) ==
  /\ m.fit \intersect m.calibration = {}
  /\ EnoughRuns(m)

RequestModel(c) ==
  \E m \in Model :
    /\ ValidSplit(m) /\ m \notin Contents(models)
    /\ Cardinality(models) + Open("models") < MaxModels
    /\ Insert(c, "models", m)

-------------------------------------------------------------------------------
(* create_calibrated_score *)

(* Mutant: a value equal to the test's is no exceedance.                    *)
StrictExceedances(m, statistic) == {r \in m.calibration : StatisticOf[r] > statistic}

(* Ties count against the test. *)
Exceedances(m, statistic) == {r \in m.calibration : StatisticOf[r] >= statistic}

(* empirical_upper_tail_pvalue, through score_test_block.                   *)
Rated(m, run, context, statistic) ==
  LET n == Cardinality(m.calibration)
      row(status, tail) ==
        [model |-> m, run |-> run, context |-> context, statistic |-> statistic,
         status |-> status, tail |-> tail, blocks |-> n] IN
  IF context # m.context THEN row("drift_detected", 0)
  ELSE IF n = 0 THEN row("insufficient_data", 0)
  ELSE row("scored", 1 + Cardinality(Exceedances(m, statistic)))

(* calibrated_model_runs *)
MemberRuns(m) == m.fit \union m.calibration

(* The artifact is read back in the database's order; if it is not the      *)
(* order it was hashed in, the request is refused.                          *)
ArtifactMatches(m) == m.calibration \in SortedAlike

RequestRating(c) ==
  \E m \in Contents(models), run \in Runs, context \in Contexts, statistic \in Claimed :
    LET rating == Rated(m, run, context, statistic) IN
    /\ run \notin MemberRuns(m)
    /\ context # m.context \/ ArtifactMatches(m)
    /\ rating \notin Contents(ratings)
    /\ Cardinality(ratings) + Open("ratings") < MaxRatings
    /\ Insert(c, "ratings", rating)

-------------------------------------------------------------------------------

(* A row whose key is taken is not inserted: the handler answers with the   *)
(* one that is there.                                                       *)
Inserted(table, row) ==
  IF row.content \in Contents(table) THEN table ELSE table \union {row}

Commit(c) ==
  /\ calls[c] # NoRow
  /\ models' = IF calls[c].table = "models" THEN Inserted(models, calls[c].row) ELSE models
  /\ ratings' = IF calls[c].table = "ratings" THEN Inserted(ratings, calls[c].row) ELSE ratings
  /\ calls' = [calls EXCEPT ![c] = NoRow]

(* A restart, or a failed commit. *)
Drop(c) ==
  /\ calls[c] # NoRow
  /\ calls' = [calls EXCEPT ![c] = NoRow]
  /\ UNCHANGED <<models, ratings>>

CalibrationNext ==
  \E c \in Callers : RequestModel(c) \/ RequestRating(c) \/ Commit(c) \/ Drop(c)

CalibrationSpec == CalibrationInit /\ [][CalibrationNext]_calibrationVars

-------------------------------------------------------------------------------
(* Properties. *)

(* Two requests for the same model, or the same score, never leave two      *)
(* rows: later readers cannot meet two answers to one question.             *)
OneRowPerKey ==
  \A table \in {models, ratings} :
    \A r, s \in table : r.content = s.content => r = s

(* The p-values are conservative: of runs rated by their own statistic,     *)
(* each against a model calibrated on all the others, at most k get a       *)
(* p-value of k in blocks + 1 or less.                                      *)
PValueIsConservative ==
  \A all \in SUBSET Runs : \A k \in 1..Cardinality(all) :
    Cardinality({run \in all :
      \E r \in Contents(ratings) :
        /\ r.run = run /\ r.status = "scored"
        /\ r.statistic = StatisticOf[run]
        /\ r.model.calibration = all \ {run}
        /\ r.tail <= k}) <= k

===============================================================================
