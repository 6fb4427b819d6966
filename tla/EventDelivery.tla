---------------------------- MODULE EventDelivery ----------------------------
(***************************************************************************)
(* What a sensor and the backend promise about one stream of events: an    *)
(* event once captured is owed to the backend until it is stored, and an   *)
(* event once stored is never owed again.  Nothing else may happen to it.  *)
(***************************************************************************)
CONSTANT Events

VARIABLES owed, stored

Init == owed = {} /\ stored = {}

Capture == \E e \in Events \ (owed \union stored) :
             owed' = owed \union {e} /\ UNCHANGED stored

Store == \E S \in SUBSET owed : 
           /\ S # {}
           /\ stored' = stored \union S
           /\ owed' = owed \ S

Next == Capture \/ Store

Spec == Init /\ [][Next]_<<owed, stored>>
===============================================================================
