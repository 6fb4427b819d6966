----------------------------- MODULE ScanLifecycle -----------------------------
(***************************************************************************)
(* What the image-scan queue promises about the scan of one key, without   *)
(* leases, scanners or handlers: a requested scan ends once and is not     *)
(* started again ("Resubmitting identical parameters returns existing      *)
(* records without re-running scans", README.md), and at most one report   *)
(* is ever stored for it, which nothing replaces.                          *)
(***************************************************************************)
EXTENDS Naturals

CONSTANT Scans

VARIABLES phase, report    \* report[k]: the attempt it is from, 0 when there is none

Init ==
  /\ phase = [k \in Scans |-> "unknown"]
  /\ report = [k \in Scans |-> 0]

Request(k) ==
  /\ phase[k] = "unknown"
  /\ phase' = [phase EXCEPT ![k] = "waiting"]
  /\ UNCHANGED report

Store(k) ==
  /\ report[k] = 0
  /\ report' = [report EXCEPT ![k] = report'[k]]
  /\ report'[k] \in Nat \ {0}

(* With a report or, when the scan failed, without one.                     *)
End(k) ==
  /\ phase[k] = "waiting"
  /\ phase' = [phase EXCEPT ![k] = "ended"]
  /\ UNCHANGED report \/ Store(k)

(* The completion that lost a race with a failure still stores its report.  *)
LateReport(k) ==
  /\ phase[k] = "ended"
  /\ Store(k)
  /\ UNCHANGED phase

Next == \E k \in Scans : Request(k) \/ End(k) \/ LateReport(k)

Spec == Init /\ [][Next]_<<phase, report>>

===============================================================================
