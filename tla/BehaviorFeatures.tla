---------------------------- MODULE BehaviorFeatures ----------------------------
(***************************************************************************)
(* What a set of events says of the behaviour of an image                  *)
(* (backend/src/porygon_api/baseline.py) and how far an observation is     *)
(* from a profile (backend/src/porygon_api/scoring.py).                    *)
(*                                                                         *)
(* Proportions are fractions of Unit.  The Jensen-Shannon distance and the *)
(* numeric deviation need logarithms and roots: of the former the model    *)
(* keeps that it is 0 for equal distributions, Unit for disjoint ones and  *)
(* one of Partial in between, of the latter only that it is in 0..Unit.    *)
(***************************************************************************)
EXTENDS Integers, FiniteSets, FiniteSetsExt

CONSTANTS
  Events,     (* events the database may hold                                 *)
  EventOf,    (* [Events -> ExecEvents \union DockerEvents]                   *)
  Programs,   (* executables, program names and their parents                 *)
  Uids, Hosts, (* users and containers                                        *)
  DockerActions,
  Ids,        (* [Events -> Nat]: the order of event_id                       *)
  Partial,    (* distances of distributions that overlap without being equal  *)
  None

ExecEvents ==
  [kind : {"process"}, at : Nat, container : Hosts \union {None}, name : Programs,
   program : Programs, parent : Programs, uid : Uids \union {None}]
DockerEvents ==
  [kind : {"runtime"}, at : Nat, container : Hosts \union {None}, action : DockerActions]

Unit == 10000

ASSUME FeaturesAssumption ==
  /\ IsFiniteSet(Events)
  /\ EventOf \in [Events -> ExecEvents \union DockerEvents]
  /\ Ids \in [Events -> Nat]
  /\ Partial \subseteq 1..(Unit - 1)

Processes(E) == {e \in E : EventOf[e].kind = "process"}
Runtime(E) == E \ Processes(E)

-------------------------------------------------------------------------------
(* The distributions of a behaviour document. *)

ProcessFamilies == {"process_name", "executable", "parent_child", "user_uid"}
Families == ProcessFamilies \union {"runtime_action", "process_sequence_bigram"}

Precedes(d, e) ==
  \/ EventOf[d].at < EventOf[e].at
  \/ EventOf[d].at = EventOf[e].at /\ Ids[d] < Ids[e]

(* Neighbours in the sequence of processes of one container.                *)
Bigrams(E) ==
  LET placed == {e \in Processes(E) : EventOf[e].container # None}
      Of(e) == {d \in placed : EventOf[d].container = EventOf[e].container} IN
  {p \in placed \X placed :
     /\ p[1] \in Of(p[2]) /\ Precedes(p[1], p[2])
     /\ ~\E m \in Of(p[2]) : Precedes(p[1], m) /\ Precedes(m, p[2])}

(* What a family counts: events, or pairs of them.                          *)
Occurrences(f, E) ==
  CASE f \in ProcessFamilies -> Processes(E)
    [] f = "runtime_action" -> Runtime(E)
    [] f = "process_sequence_bigram" -> Bigrams(E)

Token(f, o) ==
  CASE f = "process_name" -> EventOf[o].name
    [] f = "executable" -> EventOf[o].program
    [] f = "parent_child" -> <<EventOf[o].parent, EventOf[o].program>>
    [] f = "user_uid" -> EventOf[o].uid
    [] f = "runtime_action" -> EventOf[o].action
    [] f = "process_sequence_bigram" -> <<EventOf[o[1]].program, EventOf[o[2]].program>>

Tokens(f, E) == {Token(f, o) : o \in Occurrences(f, E)}
Count(f, t, E) == Cardinality({o \in Occurrences(f, E) : Token(f, o) = t})
Total(f, E) == Cardinality(Occurrences(f, E))

-------------------------------------------------------------------------------
(* The quality of a training selection. *)

WindowCount(start, end, seconds) == Max({1, (end - start + seconds - 1) \div seconds})

WindowIndex(e, start, end, seconds) ==
  Min({Max({0, (EventOf[e].at - start) \div seconds}), WindowCount(start, end, seconds) - 1})

NonemptyWindows(E, start, end, seconds) ==
  Cardinality({WindowIndex(e, start, end, seconds) : e \in E})

QualityPassed(E, start, end, seconds, minimumEvents, minimumWindows) ==
  /\ Cardinality(Processes(E)) >= minimumEvents
  /\ NonemptyWindows(E, start, end, seconds) >= minimumWindows

-------------------------------------------------------------------------------
(* The distance of the observation O from the baseline B. *)

SameDistribution(f, B, O) ==
  \A t \in Tokens(f, B) \union Tokens(f, O) :
    Count(f, t, B) * Total(f, O) = Count(f, t, O) * Total(f, B)

(* jensen_shannon_distance, of a family that was observed.  Of a baseline   *)
(* that has no tokens it is Unit.                                           *)
Distances(f, B, O) ==
  IF Tokens(f, B) \intersect Tokens(f, O) = {} THEN {Unit}
  ELSE IF SameDistribution(f, B, O) THEN {0} ELSE Partial

(* The probability mass of what the baseline never saw.                     *)
Novelty(f, B, O) ==
  (Unit * Cardinality({o \in Occurrences(f, O) : Token(f, o) \notin Tokens(f, B)}))
    \div Total(f, O)

Weight ==
  [process_name |-> 15, executable |-> 25, parent_child |-> 20, user_uid |-> 10,
   runtime_action |-> 10, process_sequence_bigram |-> 20]

(* The values of the families in F, each times its weight.                  *)
WeightedSum(value, F) ==
  LET part(f) == IF f \in F THEN Weight[f] * value[f] ELSE 0
  IN  part("process_name") + part("executable") + part("parent_child") + part("user_uid")
        + part("runtime_action") + part("process_sequence_bigram")

(* Mutant: the weight of a family that was not observed is not given to the *)
(* others.                                                                  *)
UnscaledAverage(value, F) == WeightedSum(value, F) \div 100

(* A family that was not observed is left out, its weight with it.          *)
WeightedAverage(value, F) ==
  WeightedSum(value, F) \div WeightedSum([f \in F |-> 1], F)

score_band(total) ==
  CASE total < 2500 -> "baseline_like"
    [] total >= 2500 /\ total < 5000 -> "elevated"
    [] total >= 5000 /\ total < 7500 -> "high"
    [] total >= 7500 -> "extreme"

Observed(O) == {f \in Families : Occurrences(f, O) # {}}

(* The distances of the observed families, at their bounds.                 *)
CategoricalScores(B, O) ==
  LET F == Observed(O)
      Vectors == {v \in [F -> Partial \union {0, Unit}] : \A f \in F : v[f] \in Distances(f, B, O)}
  IN {WeightedAverage(v, F) : v \in Vectors}

(* Without events only the numeric deviation is left.                       *)
TotalScores(B, O) ==
  IF Observed(O) = {} THEN {0, Unit}
  ELSE LET F == Observed(O)
           novelty == WeightedAverage([f \in F |-> Novelty(f, B, O)], F) IN
       {(50 * c + 30 * novelty + 20 * deviation) \div 100 :
          c \in CategoricalScores(B, O), deviation \in {0, Unit}}

Bands(B, O) == {score_band(t) : t \in TotalScores(B, O)}
===============================================================================
