------------------------------ MODULE MCScanQueue ------------------------------
(* Instances of ScanQueue for TLC. *)
EXTENDS ScanQueue, TLC

CONSTANTS k1, k2, p1, p2, w1, w2, h1, h2, cveA, cveB

(* Two scanners with instance ids of their own; p1 and its replacement, or  *)
(* two replicas, with the configured id they share.                         *)
OwnIds    == [p \in Scanners |-> IF p = p1 THEN "scanner-01" ELSE "scanner-02"]
SharedId  == [p \in Scanners |-> "scanner-01"]

AllServed  == [p \in Scanners |-> Scans]

(* Reports that share a CVE.                                                *)
SharedCve == [k \in Scans |-> IF k = k1 THEN {cveA, cveB} ELSE {cveA}]

Symmetry == Permutations(Workers)
===============================================================================
