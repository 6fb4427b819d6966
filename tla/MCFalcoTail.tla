----------------------------- MODULE MCFalcoTail -----------------------------
(* Instances of FalcoTail for TLC. *)
EXTENDS FalcoTail

CONSTANTS e1, e2, bad, other

(* What Falco writes.                                                       *)
Log == <<e1, bad, e2, other>>

(* A line for each event, named like it, a malformed and a foreign line.    *)
LineEvents == [l \in Lines |-> IF l \in Events THEN l
                               ELSE IF l = bad THEN Malformed ELSE Foreign]
===============================================================================
