------------------------------- MODULE ScanQueue -------------------------------
(***************************************************************************)
(* The image-scan queue: the tables image_scans, sbom_artifacts,           *)
(* vulnerability_report_artifacts and vulnerability_intel, the handlers of *)
(* backend/src/porygon_api/main.py that change them, and the scan and      *)
(* lease-renewal loops of the scanners that call those handlers.           *)
(*                                                                         *)
(* As in ResponseApi a handler that reads its row with db.get is two steps *)
(* of a worker, a Read step and a Commit step that flushes the columns     *)
(* whose value differs from the one loaded.  The claim handler locks its   *)
(* row (FOR UPDATE SKIP LOCKED) and is one step.                           *)
(*                                                                         *)
(* A scan is identified by its scan_key (uq_image_scans_key).  What is     *)
(* stored for a scan, its SBOM and its report, is represented by the       *)
(* attempt that produced it.                                               *)
(***************************************************************************)
EXTENDS Naturals

CONSTANTS
  Scans,        (* scan keys                                                  *)
  Hosts,        (* docker_host_id values the images are known on              *)
  NoHost,
  Scanners,     (* scanner processes                                          *)
  InstanceOf,   (* [Scanners -> scanner_instance_id]                          *)
  NoInstance,   (* scanner_instance_id is NULL                                *)
  ServedBy,     (* [Scanners -> SUBSET Scans]: those of its scanner version   *)
  Cves,         (* cve ids                                                    *)
  CvesOf,       (* [Scans -> SUBSET Cves]: what the report of the scan finds  *)
  Oversized,    (* scans whose report or SBOM the backend refuses             *)
  Workers,      (* handlers the backend may be running at one time            *)
  NoWorker,
  MaxFaults     (* bound: crashes, restarts, lost calls, leases lost          *)

NoError   == "none"
Internal  == "executor_internal_error"
ScanError == "scanner_error"    \* stands for the codes of scanner.ScanError
Codes     == {Internal, ScanError}
Instances == {InstanceOf[p] : p \in Scanners}

ASSUME ConstantsAssumption ==
  /\ DOMAIN InstanceOf = Scanners
  /\ NoInstance \notin Instances
  /\ ServedBy \in [Scanners -> SUBSET Scans]
  /\ CvesOf \in [Scans -> SUBSET Cves]
  /\ NoHost \notin Hosts
  /\ NoWorker \notin Workers
  /\ MaxFaults \in Nat

VARIABLES
  scans,       (* image_scans                                                 *)
  reports,     (* [Scans -> attempt whose SBOM and report are stored, or 0]   *)
  intel,       (* cve ids of vulnerability_intel                              *)
  txns,        (* [Workers -> open transaction or Idle]                       *)
  scanners,    (* [Scanners -> what the scan loop is doing]                   *)
  clock,       (* orders created_at                                           *)
  faults       (* how many faults may still happen                            *)

vars == <<scans, reports, intel, txns, scanners, clock, faults>>

-------------------------------------------------------------------------------
(* Rows, transactions and scan loops. *)

Terminal == {"completed", "failed"}

(* "lease" abstracts lease_expires_at: NULL, in the future, in the past.    *)
ScanRow ==
  [status : {"absent", "queued", "claimed"} \union Terminal,
   host : Hosts \union {NoHost},
   instance : Instances \union {NoInstance},
   lease : {"none", "running", "expired"},
   attempt_count : Nat,
   error_code : Codes \union {NoError},
   created_at : Nat]

AbsentScan ==
  [status |-> "absent", host |-> NoHost, instance |-> NoInstance, lease |-> "none",
   attempt_count |-> 0, error_code |-> NoError, created_at |-> 0]

CreateTxn   == [op : {"create"}, scan : Scans, new : ScanRow]
RenewTxn    == [op : {"renew"}, scan : Scans, seen : ScanRow, new : ScanRow]
CompleteTxn == [op : {"complete"}, scan : Scans, seen : ScanRow, new : ScanRow,
                attempt : Nat \ {0}, missing : SUBSET Cves]
FailTxn     == [op : {"fail"}, scan : Scans, seen : ScanRow, new : ScanRow]
Idle        == [op |-> "idle"]
Transaction == CreateTxn \union RenewTxn \union CompleteTxn \union FailTxn

(* "call" is the handler the loop waits for.  "error" is the code it posts. *)
Busy  == [at : {"scanning", "completing", "failing"}, scan : Scans,
          attempt : Nat \ {0}, call : Workers \union {NoWorker},
          error : Codes \union {NoError}]
Polls == [at |-> "polling", call |-> NoWorker]

TypeOK ==
  /\ scans \in [Scans -> ScanRow]
  /\ reports \in [Scans -> Nat]
  /\ intel \subseteq Cves
  /\ txns \in [Workers -> Transaction \union {Idle}]
  /\ scanners \in [Scanners -> Busy \union {Polls}]
  /\ clock \in Nat
  /\ faults \in Nat

(* Mutant: every column is written, as without dirty tracking.              *)
FlushRow(seen, new, current) == new

(* The ORM writes the changed columns only.                                 *)
Flush(seen, new, current) ==
  [c \in DOMAIN current |-> IF new[c] # seen[c] THEN new[c] ELSE current[c]]

Present(k) == scans[k].status # "absent"
Works(p) == scanners[p].at # "polling"

Init ==
  /\ scans = [k \in Scans |-> AbsentScan]
  /\ reports = [k \in Scans |-> 0]
  /\ intel = {}
  /\ txns = [w \in Workers |-> Idle]
  /\ scanners = [p \in Scanners |-> Polls]
  /\ clock = 1
  /\ faults = MaxFaults

Open(w, t) == txns[w] = Idle /\ txns' = [txns EXCEPT ![w] = t]
Close(w) == txns' = [txns EXCEPT ![w] = Idle]

-------------------------------------------------------------------------------
(* Operator requests. *)

(* create_image_scan for a host: an existing record of the key is returned. *)
CreateRead(w, k, h) ==
  /\ ~Present(k)
  /\ Open(w, [op |-> "create", scan |-> k,
              new |-> [AbsentScan EXCEPT !.status = "queued", !.host = h,
                                         !.created_at = clock]])
  /\ clock' = clock + 1
  /\ UNCHANGED <<scans, reports, intel, scanners, faults>>

(* scan_key is unique: a request that lost the race gets the other's row.   *)
CommitCreate(w) ==
  LET t == txns[w] IN
  /\ t.op = "create"
  /\ scans' = [scans EXCEPT ![t.scan] = IF Present(t.scan) THEN @ ELSE t.new]
  /\ Close(w)
  /\ UNCHANGED <<reports, intel, scanners, clock, faults>>

-------------------------------------------------------------------------------
(* Claims. *)

(* Mutant: a claim is never taken over.                                     *)
ClaimableOnce(k) == scans[k].status = "queued"

Claimable(k) ==
  \/ scans[k].status = "queued"
  \/ scans[k].status = "claimed" /\ scans[k].lease = "expired"

(* A handler that is committing holds the lock of its row.                  *)
MayBeLocked(k) == \E w \in Workers : txns[w] # Idle /\ txns[w].scan = k

(* Oldest first, past the locked rows.                                      *)
IsNext(p, k) ==
  /\ k \in ServedBy[p] /\ Claimable(k)
  /\ \A j \in ServedBy[p] :
       Claimable(j) /\ scans[j].created_at < scans[k].created_at => MayBeLocked(j)

ClaimedBy(p, row) ==
  [row EXCEPT !.status = "claimed", !.instance = InstanceOf[p], !.lease = "running",
              !.attempt_count = @ + 1]

(* claim_image_scan, and the scan the loop starts on the answer.            *)
Claim(p, k) ==
  /\ ~Works(p)
  /\ IsNext(p, k)
  /\ scans' = [scans EXCEPT ![k] = ClaimedBy(p, @)]
  /\ scanners' = [scanners EXCEPT ![p] =
                    [at |-> "scanning", scan |-> k, attempt |-> scans'[k].attempt_count,
                     call |-> NoWorker, error |-> NoError]]
  /\ UNCHANGED <<reports, intel, txns, clock, faults>>

(* The answer is lost; the loop polls again.                                *)
ClaimAnswerLost(p, k) ==
  /\ faults > 0 /\ faults' = faults - 1
  /\ ~Works(p)
  /\ IsNext(p, k)
  /\ scans' = [scans EXCEPT ![k] = ClaimedBy(p, @)]
  /\ UNCHANGED <<reports, intel, txns, scanners, clock>>

(* _require_scan_claim, and the same test in renew_image_scan_lease.        *)
HoldsClaim(p, k) ==
  scans[k].status = "claimed" /\ scans[k].instance = InstanceOf[p]

(* renew_scan_lease runs beside the scan and both of its final calls; its   *)
(* errors are only logged.                                                  *)
RenewRead(w, p) ==
  LET k == scanners[p].scan IN
  /\ Works(p) /\ HoldsClaim(p, k)
  /\ Open(w, [op |-> "renew", scan |-> k, seen |-> scans[k],
              new |-> [scans[k] EXCEPT !.lease = "running"]])
  /\ UNCHANGED <<scans, reports, intel, scanners, clock, faults>>

(* The new expiry always differs from the loaded one, so it is written.     *)
CommitRenew(w) ==
  LET t == txns[w] IN
  /\ t.op = "renew"
  /\ scans' = [scans EXCEPT ![t.scan] =
                 [Flush(t.seen, t.new, @) EXCEPT !.lease = "running"]]
  /\ Close(w)
  /\ UNCHANGED <<reports, intel, scanners, clock, faults>>

-------------------------------------------------------------------------------
(* Results. *)

(* The loop after an error of its current call: a completion is followed by *)
(* a failure report, a failure report by polling.                           *)
AfterError(s) ==
  IF s.at = "failing" THEN Polls
  ELSE [s EXCEPT !.at = "failing", !.call = NoWorker, !.error = Internal]

(* Handler w answers the loop that still waits for it, if there is one.     *)
Answer(w, After(_)) ==
  scanners' = [p \in Scanners |->
                 IF scanners[p].call = w THEN After(scanners[p]) ELSE scanners[p]]

AfterSuccess(s) == Polls

(* TrivyScanner.scan raises                                                 *)
ScanFails(p) ==
  /\ scanners[p].at = "scanning"
  /\ \E code \in Codes :
       scanners' = [scanners EXCEPT ![p].at = "failing", ![p].error = code]
  /\ UNCHANGED <<scans, reports, intel, txns, clock, faults>>

Ended(row, status) == [row EXCEPT !.status = status, !.lease = "none"]

(* complete_image_scan up to its commit: intel rows are looked up one by    *)
(* one and those not found will be inserted.                                *)
CompleteRead(w, p) ==
  LET k == scanners[p].scan IN
  /\ scanners[p].at = "scanning"
  /\ HoldsClaim(p, k) /\ k \notin Oversized
  /\ Open(w, [op |-> "complete", scan |-> k, seen |-> scans[k],
              new |-> [Ended(scans[k], "completed") EXCEPT !.error_code = NoError],
              attempt |-> scanners[p].attempt, missing |-> CvesOf[k] \ intel])
  /\ scanners' = [scanners EXCEPT ![p].at = "completing", ![p].call = w]
  /\ UNCHANGED <<scans, reports, intel, clock, faults>>

(* Its early answers: the record is already completed, or 409, 413 or 422.  *)
CompleteAnswered(p) ==
  LET k == scanners[p].scan IN
  /\ scanners[p].at = "scanning"
  /\ \/ /\ scans[k].status = "completed"
        /\ scanners' = [scanners EXCEPT ![p] = Polls]
     \/ /\ scans[k].status # "completed"
        /\ ~HoldsClaim(p, k) \/ k \in Oversized
        /\ scanners' = [scanners EXCEPT ![p] = AfterError(@)]
  /\ UNCHANGED <<scans, reports, intel, txns, clock, faults>>

(* uq_sbom_artifacts_scan, and the primary key of vulnerability_intel.      *)
Conflict(t) == reports[t.scan] # 0 \/ t.missing \intersect intel # {}

(* Mutant: a conflict rolls back the inserts only.                          *)
CommitCompleteInParts(w) ==
  LET t == txns[w] IN
  /\ t.op = "complete"
  /\ scans' = [scans EXCEPT ![t.scan] = Flush(t.seen, t.new, @)]
  /\ IF Conflict(t) THEN UNCHANGED <<reports, intel>>
     ELSE /\ reports' = [reports EXCEPT ![t.scan] = t.attempt]
          /\ intel' = intel \union t.missing
  /\ Answer(w, AfterSuccess)
  /\ Close(w)
  /\ UNCHANGED <<clock, faults>>

(* A conflict rolls the transaction back and is answered with an error.     *)
CommitComplete(w) ==
  LET t == txns[w] IN
  /\ t.op = "complete"
  /\ \/ /\ Conflict(t)
        /\ Answer(w, AfterError)
        /\ UNCHANGED <<scans, reports, intel>>
     \/ /\ ~Conflict(t)
        /\ scans' = [scans EXCEPT ![t.scan] = Flush(t.seen, t.new, @)]
        /\ reports' = [reports EXCEPT ![t.scan] = t.attempt]
        /\ intel' = intel \union t.missing
        /\ Answer(w, AfterSuccess)
  /\ Close(w)
  /\ UNCHANGED <<clock, faults>>

(* fail_image_scan up to its commit                                         *)
FailRead(w, p) ==
  LET k == scanners[p].scan IN
  /\ scanners[p].at = "failing" /\ scanners[p].call = NoWorker
  /\ HoldsClaim(p, k)
  /\ Open(w, [op |-> "fail", scan |-> k, seen |-> scans[k],
              new |-> [Ended(scans[k], "failed") EXCEPT
                         !.error_code = scanners[p].error]])
  /\ scanners' = [scanners EXCEPT ![p].call = w]
  /\ UNCHANGED <<scans, reports, intel, clock, faults>>

(* Its early answers: the record has already ended, or 409.                 *)
FailAnswered(p) ==
  /\ scanners[p].at = "failing" /\ scanners[p].call = NoWorker
  /\ ~HoldsClaim(p, scanners[p].scan)
  /\ scanners' = [scanners EXCEPT ![p] = Polls]
  /\ UNCHANGED <<scans, reports, intel, txns, clock, faults>>

CommitFail(w) ==
  LET t == txns[w] IN
  /\ t.op = "fail"
  /\ scans' = [scans EXCEPT ![t.scan] = Flush(t.seen, t.new, @)]
  /\ Answer(w, AfterSuccess)
  /\ Close(w)
  /\ UNCHANGED <<reports, intel, clock, faults>>

-------------------------------------------------------------------------------
(* Time and faults. *)

(* A loop renews the lease of this claim.                                   *)
Renewed(k) == \E p \in Scanners : Works(p) /\ scanners[p].scan = k /\ HoldsClaim(p, k)

(* A lease runs out when nobody renews it, or, a fault, in spite of it.     *)
LeaseExpires(k) ==
  /\ scans[k].lease = "running"
  /\ faults' = IF Renewed(k) THEN faults - 1 ELSE faults
  /\ faults' \in Nat
  /\ scans' = [scans EXCEPT ![k].lease = "expired"]
  /\ UNCHANGED <<reports, intel, txns, scanners, clock>>

(* The call fails or times out at the scanner before it reaches a handler,  *)
(* or while the handler runs on.                                            *)
CallLost(p) ==
  /\ faults > 0 /\ faults' = faults - 1
  /\ Works(p)
  /\ scanners' = [scanners EXCEPT ![p] = AfterError(@)]
  /\ UNCHANGED <<scans, reports, intel, txns, clock>>

(* The process stops, its requests run on, and it starts again.             *)
ScannerCrashes(p) ==
  /\ faults > 0 /\ faults' = faults - 1
  /\ Works(p)
  /\ scanners' = [scanners EXCEPT ![p] = Polls]
  /\ UNCHANGED <<scans, reports, intel, txns, clock>>

(* Open transactions are rolled back; the calls that waited for them fail.  *)
BackendRestarts ==
  /\ faults > 0 /\ faults' = faults - 1
  /\ txns' = [w \in Workers |-> Idle]
  /\ scanners' = [p \in Scanners |->
                    IF scanners[p].call # NoWorker THEN AfterError(scanners[p])
                    ELSE scanners[p]]
  /\ UNCHANGED <<scans, reports, intel, clock>>

Commit(w) ==
  CommitCreate(w) \/ CommitRenew(w) \/ CommitComplete(w) \/ CommitFail(w)

(* What the scan loop of p does by itself.                                  *)
ScanLoop(p) ==
  \/ \E k \in Scans : Claim(p, k)
  \/ ScanFails(p) \/ CompleteAnswered(p) \/ FailAnswered(p)
  \/ \E w \in Workers : CompleteRead(w, p) \/ FailRead(w, p)

Fault ==
  \/ \E p \in Scanners :
       \/ CallLost(p) \/ ScannerCrashes(p)
       \/ \E k \in Scans : ClaimAnswerLost(p, k)
  \/ BackendRestarts

Next ==
  \/ \E w \in Workers :
       \/ Commit(w)
       \/ \E k \in Scans, h \in Hosts : CreateRead(w, k, h)
       \/ \E p \in Scanners : RenewRead(w, p)
  \/ \E p \in Scanners : ScanLoop(p)
  \/ \E k \in Scans : LeaseExpires(k)
  \/ Fault

Spec == Init /\ [][Next]_vars

(* Handlers return; a call waits in a fair queue for a thread of the        *)
(* backend while renewals compete for it; time passes.                      *)
Fairness ==
  /\ \A w \in Workers : WF_vars(Commit(w))
  /\ \A p \in Scanners : SF_vars(ScanLoop(p))
  /\ \A k \in Scans : WF_vars(LeaseExpires(k) /\ ~Renewed(k))

FairSpec == Spec /\ Fairness

-------------------------------------------------------------------------------
(* Properties. *)

(* A completed scan has its report and SBOM, and every CVE of that report   *)
(* has its row of intelligence; a failed scan says why.  The three are      *)
(* written by handlers that may interleave with others on the same row.     *)
OutcomeHasEvidence ==
  \A k \in Scans :
    /\ scans[k].status = "completed" => reports[k] # 0
    /\ reports[k] # 0 => CvesOf[k] \subseteq intel
    /\ scans[k].status = "failed" => scans[k].error_code # NoError

(* Every queued or claimed scan of a version some scanner runs ends.        *)
EveryScanEnds ==
  \A k \in UNION {ServedBy[p] : p \in Scanners} :
    scans[k].status \in {"queued", "claimed"} ~> scans[k].status \in Terminal

(* "distinct, immutable scan records" (README.md), and fail_image_scan      *)
(* returns a completed record as it is: a completed scan stays completed.   *)
CompletedIsFinal ==
  [][\A k \in Scans :
       scans[k].status = "completed" => scans'[k].status = "completed"]_vars

-------------------------------------------------------------------------------
(* What the invariants rest on: a handler that read a claimed row finds, at *)
(* its commit, a row that is claimed or has ended, and carries in the       *)
(* columns it will write what the outcome needs.                            *)

Started(k) == scans[k].status \in {"claimed"} \union Terminal

TransactionSound(w) ==
  LET t == txns[w] IN
  /\ t.op = "create" => t.new.status = "queued" /\ t.new.error_code = NoError
  /\ t.op \in {"renew", "complete", "fail"} =>
       Started(t.scan) /\ t.seen.status = "claimed" /\ t.seen.error_code = NoError
  /\ t.op = "renew" => t.new = [t.seen EXCEPT !.lease = "running"]
  /\ t.op = "complete" =>
       /\ t.new.status = "completed"
       /\ CvesOf[t.scan] \subseteq intel \union t.missing
  /\ t.op = "fail" => t.new.status = "failed" /\ t.new.error_code # NoError

UnfinishedIsClean ==
  \A k \in Scans :
    scans[k].status \notin Terminal => scans[k].error_code = NoError /\ reports[k] = 0

FailingHasCode ==
  \A p \in Scanners : scanners[p].at = "failing" => scanners[p].error # NoError

Inductive ==
  /\ TypeOK
  /\ OutcomeHasEvidence
  /\ UnfinishedIsClean
  /\ FailingHasCode
  /\ \A w \in Workers : TransactionSound(w)

-------------------------------------------------------------------------------
(* Refinement. *)

Phase(k) ==
  CASE scans[k].status = "absent" -> "unknown"
    [] scans[k].status \in Terminal -> "ended"
    [] OTHER -> "waiting"

Lifecycle == INSTANCE ScanLifecycle
               WITH phase <- [k \in Scans |-> Phase(k)], report <- reports

(* The tables go through the life ScanLifecycle promises.                   *)
LifecycleSpec == Lifecycle!Spec

===============================================================================
