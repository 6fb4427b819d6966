----------------------------- MODULE MCIngestion ------------------------------
(* Three events of container k, two of them at one time, one of container l  *)
(* of the same image; a shell started in k and a command it runs, whose      *)
(* reported id is also a prefix of l's.                                      *)
EXTENDS Ingestion, TLC

CONSTANTS k, l, img, e1, e2, e3, e4, shell, child, w1, w2

MCContainerOf == [e \in RuntimeEvents |-> IF e = e4 THEN l ELSE k]
MCImageOf == [c \in Containers |-> img]
MCSeenAt == [e \in RuntimeEvents |-> IF e = e1 THEN 1 ELSE 2]
MCExecOf ==
  [x \in Execs |->
     IF x = shell THEN [pid |-> 1, ppid |-> 0, at |-> 1, reports |-> {k}]
     ELSE [pid |-> 2, ppid |-> 1, at |-> 2, reports |-> {k, l}]]
MCIdOrder == <<child, shell>>
WorkerSymmetry == Permutations(Workers)

(* Either all four events and no exec, or one event of each container and   *)
(* the execs.                                                               *)
NoExecs ==
  /\ everRow = {} /\ txn = [w \in Workers |-> Idle] /\ aborts = MaxAborts
  /\ runtime = delivered
MCNext == Next /\ (NoExecs' \/ Captured' \subseteq {e1, e4})
MCSpec == Init /\ [][MCNext]_vars
===============================================================================
