----------------------------- MODULE MCResponseApi -----------------------------
(* Instances of ResponseApi for TLC. *)
EXTENDS ResponseApi, TLC

CONSTANTS i1, r1, x1, x2, w1, w2, c1

(* Evidence for observing and pausing.                                      *)
Pausable == [severity |-> 75, confidence |-> 60, strong_rule |-> FALSE]

PausableEvidence == [r \in Recommendations |-> Pausable]
OneIncident      == [r \in Recommendations |-> i1]
OneContainer     == [r \in Recommendations |-> c1]

Symmetry == Permutations(Workers) \union Permutations(Executors)
===============================================================================
