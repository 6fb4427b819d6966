---------------------------- MODULE ScanQueueProofs ----------------------------
(***************************************************************************)
(* Proofs about ScanQueue, for every set of scans, scanners, hosts and     *)
(* concurrent handlers.                                                    *)
(***************************************************************************)
EXTENDS ScanQueue, TLAPS

-------------------------------------------------------------------------------
(* Type correctness. *)

(* An open transaction is of the kind its op says.                          *)
LEMMA TransactionKinds ==
  ASSUME NEW t \in Transaction \union {Idle}
  PROVE  /\ t.op = "create" => t \in CreateTxn
         /\ t.op = "renew" => t \in RenewTxn
         /\ t.op = "complete" => t \in CompleteTxn
         /\ t.op = "fail" => t \in FailTxn
BY DEF Transaction, Idle, CreateTxn, RenewTxn, CompleteTxn, FailTxn

(* Writing the changed columns of a row into a row gives a row.             *)
LEMMA FlushType ==
  ASSUME NEW seen \in ScanRow, NEW new \in ScanRow, NEW current \in ScanRow
  PROVE  Flush(seen, new, current) \in ScanRow
BY DEF Flush, ScanRow

LEMMA QueuedRow ==
  ASSUME NEW h \in Hosts, NEW n \in Nat
  PROVE  [AbsentScan EXCEPT !.status = "queued", !.host = h, !.created_at = n] \in ScanRow
BY DEF AbsentScan, ScanRow

LEMMA ClaimedRow ==
  ASSUME NEW p \in Scanners, NEW row \in ScanRow
  PROVE  ClaimedBy(p, row) \in ScanRow /\ ClaimedBy(p, row).attempt_count \in Nat \ {0}
<1>1. InstanceOf[p] \in Instances \union {NoInstance}
  BY DEF Instances
<1>2. row.attempt_count + 1 \in Nat \ {0}
  BY DEF ScanRow
<1>3. /\ ClaimedBy(p, row) =
           [row EXCEPT !.status = "claimed", !.instance = InstanceOf[p],
                       !.lease = "running", !.attempt_count = row.attempt_count + 1]
      /\ ClaimedBy(p, row).attempt_count = row.attempt_count + 1
  BY DEF ClaimedBy, ScanRow
<1>4. ASSUME NEW i \in Instances \union {NoInstance}, NEW n \in Nat
      PROVE  [row EXCEPT !.status = "claimed", !.instance = i, !.lease = "running",
                         !.attempt_count = n] \in ScanRow
  BY DEF ScanRow
<1>5. QED
  BY <1>1, <1>2, <1>3, <1>4

LEMMA LeasedRow ==
  ASSUME NEW row \in ScanRow, NEW l \in {"running", "expired"}
  PROVE  [row EXCEPT !.lease = l] \in ScanRow
BY DEF ScanRow

LEMMA EndedRow ==
  ASSUME NEW row \in ScanRow, NEW s \in Terminal, NEW e \in Codes \union {NoError}
  PROVE  [Ended(row, s) EXCEPT !.error_code = e] \in ScanRow
BY DEF Ended, ScanRow

(* An error takes a working loop to another state of the loop.              *)
LEMMA ErrorType ==
  ASSUME NEW s \in Busy
  PROVE  AfterError(s) \in Busy \union {Polls}
BY DEF AfterError, Busy, Codes

LEMMA WorkingLoop ==
  ASSUME TypeOK, NEW p \in Scanners, Works(p) \/ scanners[p].call # NoWorker
  PROVE  scanners[p] \in Busy
BY DEF TypeOK, Works, Polls

LEMMA TypeInit == ConstantsAssumption /\ Init => TypeOK
<1>1. AbsentScan \in ScanRow
  BY DEF AbsentScan, ScanRow
<1>2. QED
  BY <1>1 DEF Init, TypeOK, ConstantsAssumption

LEMMA TypeAnswer ==
  ASSUME ConstantsAssumption, TypeOK, NEW w \in Workers,
         Answer(w, AfterError) \/ Answer(w, AfterSuccess)
  PROVE  scanners' \in [Scanners -> Busy \union {Polls}]
<1>1. \A p \in Scanners : scanners[p] \in Busy \union {Polls}
  BY DEF TypeOK
<1>2. ASSUME NEW p \in Scanners, scanners[p].call = w
      PROVE  AfterError(scanners[p]) \in Busy \union {Polls}
  <2>1. scanners[p].call # NoWorker
    BY <1>2 DEF ConstantsAssumption
  <2>2. QED
    BY <2>1, WorkingLoop, ErrorType
<1>3. QED
  BY <1>1, <1>2 DEF Answer, AfterSuccess

LEMMA TypeCommit ==
  ASSUME ConstantsAssumption, TypeOK, NEW w \in Workers, Commit(w)
  PROVE  TypeOK'
<1> DEFINE t == txns[w]
<1>1. t \in Transaction \union {Idle}
  BY DEF TypeOK
<1>2. Close(w) => txns' \in [Workers -> Transaction \union {Idle}]
  BY DEF TypeOK, Close
<1>3. CASE CommitCreate(w)
  <2>1. t \in CreateTxn
    BY <1>1, <1>3, TransactionKinds DEF CommitCreate
  <2>2. scans' \in [Scans -> ScanRow]
    BY <1>3, <2>1 DEF CommitCreate, CreateTxn, TypeOK
  <2>3. QED
    BY <1>2, <1>3, <2>2 DEF CommitCreate, TypeOK
<1>4. CASE CommitRenew(w)
  <2>1. t \in RenewTxn
    BY <1>1, <1>4, TransactionKinds DEF CommitRenew
  <2>2. scans[t.scan] \in ScanRow /\ t.scan \in Scans
    BY <2>1 DEF RenewTxn, TypeOK
  <2>3. Flush(t.seen, t.new, scans[t.scan]) \in ScanRow
    BY <2>1, <2>2, FlushType DEF RenewTxn
  <2>4. [Flush(t.seen, t.new, scans[t.scan]) EXCEPT !.lease = "running"] \in ScanRow
    BY <2>3, LeasedRow
  <2>5. scans' \in [Scans -> ScanRow]
    BY <1>4, <2>2, <2>4 DEF CommitRenew, TypeOK
  <2>6. QED
    BY <1>2, <1>4, <2>5 DEF CommitRenew, TypeOK
<1>5. CASE CommitComplete(w)
  <2>1. t \in CompleteTxn
    BY <1>1, <1>5, TransactionKinds DEF CommitComplete
  <2>2. scans[t.scan] \in ScanRow /\ t.scan \in Scans
    BY <2>1 DEF CompleteTxn, TypeOK
  <2>3. Flush(t.seen, t.new, scans[t.scan]) \in ScanRow
    BY <2>1, <2>2, FlushType DEF CompleteTxn
  <2>4. scanners' \in [Scanners -> Busy \union {Polls}]
    BY <1>5, TypeAnswer DEF CommitComplete
  <2>5. /\ scans' \in [Scans -> ScanRow]
        /\ reports' \in [Scans -> Nat]
        /\ intel' \subseteq Cves
    BY <1>5, <2>1, <2>2, <2>3 DEF CommitComplete, CompleteTxn, TypeOK
  <2>6. QED
    BY <1>2, <1>5, <2>4, <2>5 DEF CommitComplete, TypeOK
<1>6. CASE CommitFail(w)
  <2>1. t \in FailTxn
    BY <1>1, <1>6, TransactionKinds DEF CommitFail
  <2>2. scans[t.scan] \in ScanRow /\ t.scan \in Scans
    BY <2>1 DEF FailTxn, TypeOK
  <2>3. Flush(t.seen, t.new, scans[t.scan]) \in ScanRow
    BY <2>1, <2>2, FlushType DEF FailTxn
  <2>4. scanners' \in [Scanners -> Busy \union {Polls}]
    BY <1>6, TypeAnswer DEF CommitFail
  <2>5. scans' \in [Scans -> ScanRow]
    BY <1>6, <2>2, <2>3 DEF CommitFail, TypeOK
  <2>6. QED
    BY <1>2, <1>6, <2>4, <2>5 DEF CommitFail, TypeOK
<1>7. QED
  BY <1>3, <1>4, <1>5, <1>6 DEF Commit

(* A handler that read a row opens a transaction of its kind.               *)
LEMMA TypeRead ==
  ASSUME ConstantsAssumption, TypeOK, NEW w \in Workers, NEW p \in Scanners,
         RenewRead(w, p) \/ CompleteRead(w, p) \/ FailRead(w, p)
  PROVE  TypeOK'
<1> DEFINE k == scanners[p].scan
           s == scanners[p]
<1>1. s \in Busy
  BY WorkingLoop DEF RenewRead, CompleteRead, FailRead, Works
<1>2. k \in Scans /\ scans[k] \in ScanRow
  BY <1>1 DEF Busy, TypeOK
<1>3. CASE RenewRead(w, p)
  <2>1. [scans[k] EXCEPT !.lease = "running"] \in ScanRow
    BY <1>2, LeasedRow
  <2>2. QED
    BY <1>2, <1>3, <2>1 DEF RenewRead, Open, TypeOK, Transaction, RenewTxn
<1>4. CASE CompleteRead(w, p)
  <2> DEFINE new == [Ended(scans[k], "completed") EXCEPT !.error_code = NoError]
             t == [op |-> "complete", scan |-> k, seen |-> scans[k], new |-> new,
                   attempt |-> s.attempt, missing |-> CvesOf[k] \ intel]
  <2>1. new \in ScanRow
    BY <1>2, EndedRow DEF Terminal
  <2>2. CvesOf[k] \ intel \in SUBSET Cves
    BY <1>2 DEF ConstantsAssumption
  <2>3. t \in CompleteTxn
    BY <1>1, <1>2, <2>1, <2>2 DEF CompleteTxn, Busy
  <2>4. txns' \in [Workers -> Transaction \union {Idle}]
    BY <1>4, <2>3 DEF CompleteRead, Open, TypeOK, Transaction
  <2>5. [s EXCEPT !.at = "completing", !.call = w] \in Busy
    BY <1>1 DEF Busy
  <2>6. scanners' \in [Scanners -> Busy \union {Polls}]
    BY <1>4, <2>5 DEF CompleteRead, TypeOK
  <2>7. QED
    BY <1>4, <2>4, <2>6 DEF CompleteRead, TypeOK
<1>5. CASE FailRead(w, p)
  <2> DEFINE new == [Ended(scans[k], "failed") EXCEPT !.error_code = s.error]
             t == [op |-> "fail", scan |-> k, seen |-> scans[k], new |-> new]
  <2>1. s.error \in Codes \union {NoError}
    BY <1>1 DEF Busy
  <2>2. new \in ScanRow
    BY <1>2, <2>1, EndedRow DEF Terminal
  <2>3. t \in FailTxn
    BY <1>2, <2>2 DEF FailTxn
  <2>4. txns' \in [Workers -> Transaction \union {Idle}]
    BY <1>5, <2>3 DEF FailRead, Open, TypeOK, Transaction
  <2>5. [s EXCEPT !.call = w] \in Busy
    BY <1>1 DEF Busy
  <2>6. scanners' \in [Scanners -> Busy \union {Polls}]
    BY <1>5, <2>5 DEF FailRead, TypeOK
  <2>7. QED
    BY <1>5, <2>4, <2>6 DEF FailRead, TypeOK
<1>6. QED
  BY <1>3, <1>4, <1>5

LEMMA TypeLoop ==
  ASSUME ConstantsAssumption, TypeOK, NEW p \in Scanners,
         \/ \E k \in Scans : Claim(p, k)
         \/ ScanFails(p) \/ CompleteAnswered(p) \/ FailAnswered(p)
  PROVE  TypeOK'
<1>1. ASSUME NEW k \in Scans, Claim(p, k) PROVE TypeOK'
  <2> DEFINE row == ClaimedBy(p, scans[k])
             s == [at |-> "scanning", scan |-> k, attempt |-> row.attempt_count,
                   call |-> NoWorker, error |-> NoError]
  <2>1. row \in ScanRow /\ row.attempt_count \in Nat \ {0}
    BY ClaimedRow DEF TypeOK
  <2>2. scans' = [scans EXCEPT ![k] = row]
    BY <1>1 DEF Claim
  <2>3. scans' \in [Scans -> ScanRow] /\ scans'[k] = row
    BY <2>1, <2>2 DEF TypeOK
  <2>4. s \in Busy
    BY <2>1 DEF Busy
  <2>5. scanners' = [scanners EXCEPT ![p] = s]
    BY <1>1, <2>3 DEF Claim
  <2>6. scanners' \in [Scanners -> Busy \union {Polls}]
    BY <2>4, <2>5 DEF TypeOK
  <2>7. QED
    BY <1>1, <2>3, <2>6 DEF Claim, TypeOK
<1>2. CASE ScanFails(p)
  <2>1. PICK code \in Codes :
          scanners' = [scanners EXCEPT ![p].at = "failing", ![p].error = code]
    BY <1>2 DEF ScanFails
  <2>2. scanners[p] \in Busy
    BY <1>2, WorkingLoop DEF ScanFails, Works
  <2>3. [scanners[p] EXCEPT !.at = "failing", !.error = code] \in Busy
    BY <2>2 DEF Busy
  <2>4. scanners' = [scanners EXCEPT ![p] = [scanners[p] EXCEPT !.at = "failing",
                                                               !.error = code]]
    BY <2>1 DEF TypeOK
  <2>5. scanners' \in [Scanners -> Busy \union {Polls}]
    BY <2>3, <2>4 DEF TypeOK
  <2>6. QED
    BY <1>2, <2>5 DEF ScanFails, TypeOK
<1>3. CASE CompleteAnswered(p)
  <2>1. AfterError(scanners[p]) \in Busy \union {Polls}
    BY <1>3, WorkingLoop, ErrorType DEF CompleteAnswered, Works
  <2>2. scanners' \in [Scanners -> Busy \union {Polls}]
    BY <1>3, <2>1 DEF CompleteAnswered, TypeOK
  <2>3. QED
    BY <1>3, <2>2 DEF CompleteAnswered, TypeOK
<1>4. CASE FailAnswered(p)
  BY <1>4 DEF FailAnswered, TypeOK
<1>5. QED
  BY <1>1, <1>2, <1>3, <1>4

LEMMA TypeFault ==
  ASSUME ConstantsAssumption, TypeOK, Fault
  PROVE  TypeOK'
<1>0. faults > 0 => faults - 1 \in Nat
  BY DEF TypeOK
<1>1. ASSUME NEW p \in Scanners, CallLost(p) PROVE TypeOK'
  <2>1. AfterError(scanners[p]) \in Busy \union {Polls}
    BY <1>1, WorkingLoop, ErrorType DEF CallLost
  <2>2. QED
    BY <1>0, <1>1, <2>1 DEF CallLost, TypeOK
<1>2. ASSUME NEW p \in Scanners, ScannerCrashes(p) PROVE TypeOK'
  BY <1>0, <1>2 DEF ScannerCrashes, TypeOK
<1>3. ASSUME NEW p \in Scanners, NEW k \in Scans, ClaimAnswerLost(p, k) PROVE TypeOK'
  <2>1. ClaimedBy(p, scans[k]) \in ScanRow
    BY ClaimedRow DEF TypeOK
  <2>2. QED
    BY <1>0, <1>3, <2>1 DEF ClaimAnswerLost, TypeOK
<1>4. CASE BackendRestarts
  <2>1. ASSUME NEW p \in Scanners, scanners[p].call # NoWorker
        PROVE  AfterError(scanners[p]) \in Busy \union {Polls}
    BY <2>1, WorkingLoop, ErrorType
  <2>2. scanners' \in [Scanners -> Busy \union {Polls}]
    BY <1>4, <2>1 DEF BackendRestarts, TypeOK
  <2>3. QED
    BY <1>0, <1>4, <2>2 DEF BackendRestarts, TypeOK
<1>5. QED
  BY <1>1, <1>2, <1>3, <1>4 DEF Fault

LEMMA TypeStep ==
  ASSUME ConstantsAssumption, TypeOK, [Next]_vars
  PROVE  TypeOK'
<1>1. ASSUME NEW w \in Workers, NEW k \in Scans, NEW h \in Hosts, CreateRead(w, k, h)
      PROVE  TypeOK'
  <2> DEFINE new == [AbsentScan EXCEPT !.status = "queued", !.host = h,
                                       !.created_at = clock]
  <2>1. new \in ScanRow
    BY QueuedRow DEF TypeOK
  <2>2. [op |-> "create", scan |-> k, new |-> new] \in CreateTxn
    BY <2>1 DEF CreateTxn
  <2>3. txns' \in [Workers -> Transaction \union {Idle}]
    BY <1>1, <2>2 DEF CreateRead, Open, TypeOK, Transaction
  <2>4. QED
    BY <1>1, <2>3 DEF CreateRead, TypeOK
<1>2. ASSUME NEW k \in Scans, LeaseExpires(k) PROVE TypeOK'
  <2>1. [scans[k] EXCEPT !.lease = "expired"] \in ScanRow
    BY LeasedRow DEF TypeOK
  <2>2. scans' = [scans EXCEPT ![k] = [scans[k] EXCEPT !.lease = "expired"]]
    BY <1>2 DEF LeaseExpires, TypeOK
  <2>3. QED
    BY <1>2, <2>1, <2>2 DEF LeaseExpires, TypeOK
<1>3. CASE UNCHANGED vars
  BY <1>3 DEF vars, TypeOK
<1>4. QED
  BY <1>1, <1>2, <1>3, TypeCommit, TypeRead, TypeLoop, TypeFault DEF Next, ScanLoop

(* The tables, the open transactions and the scan loops keep their types.   *)
THEOREM TypeCorrect == Spec => []TypeOK
<1>1. TypeOK /\ [Next]_vars => TypeOK'
  BY ConstantsAssumption, TypeStep
<1>2. QED
  BY <1>1, ConstantsAssumption, TypeInit, PTL DEF Spec

-------------------------------------------------------------------------------
(* The inductive invariant. *)

(* No step requeues a row a handler may have read as claimed, or takes      *)
(* intelligence back, so an open transaction stays sound until its commit.  *)
LEMMA SoundnessKept ==
  ASSUME TypeOK, NEW w \in Workers, TransactionSound(w), txns'[w] = txns[w],
         intel \subseteq intel', \A k \in Scans : Started(k) => Started(k)'
  PROVE  TransactionSound(w)'
<1> DEFINE t == txns[w]
<1>1. t \in Transaction \union {Idle}
  BY DEF TypeOK
<1>2. t.op \in {"renew", "complete", "fail"} => t.scan \in Scans
  BY <1>1, TransactionKinds DEF RenewTxn, CompleteTxn, FailTxn
<1>3. QED
  BY <1>2 DEF TransactionSound

LEMMA IdleIsSound ==
  ASSUME NEW w \in Workers, txns'[w] = Idle
  PROVE  TransactionSound(w)'
BY DEF TransactionSound, Idle

(* Rows that change neither status nor error code, with the same reports    *)
(* and intelligence, keep the invariants of the tables.                     *)
LEMMA TablesKept ==
  ASSUME OutcomeHasEvidence, UnfinishedIsClean, UNCHANGED <<reports, intel>>,
         \A k \in Scans : /\ scans'[k].status = scans[k].status
                          /\ scans'[k].error_code = scans[k].error_code
  PROVE  OutcomeHasEvidence' /\ UnfinishedIsClean'
BY DEF OutcomeHasEvidence, UnfinishedIsClean

(* What a commit makes of the columns it decides by.                        *)
LEMMA FlushedRenewal ==
  ASSUME NEW seen \in ScanRow, NEW current \in ScanRow,
         NEW new, new = [seen EXCEPT !.lease = "running"]
  PROVE  LET row == [Flush(seen, new, current) EXCEPT !.lease = "running"]
         IN  row.status = current.status /\ row.error_code = current.error_code
<1>1. DOMAIN current = {"status", "host", "instance", "lease", "attempt_count",
                        "error_code", "created_at"}
  BY DEF ScanRow
<1>2. new.status = seen.status /\ new.error_code = seen.error_code
  BY DEF ScanRow
<1>3. /\ Flush(seen, new, current).status = current.status
      /\ Flush(seen, new, current).error_code = current.error_code
  BY <1>1, <1>2 DEF Flush
<1>4. QED
  BY <1>3, FlushType, LeasedRow DEF Flush, ScanRow

LEMMA FlushedEnd ==
  ASSUME NEW seen \in ScanRow, NEW new \in ScanRow, NEW current \in ScanRow,
         seen.status # new.status
  PROVE  /\ Flush(seen, new, current).status = new.status
         /\ new.error_code # seen.error_code =>
              Flush(seen, new, current).error_code = new.error_code
<1>1. {"status", "error_code"} \subseteq DOMAIN current
  BY DEF ScanRow
<1>2. QED
  BY <1>1 DEF Flush

LEMMA ErrorHasCode ==
  ASSUME NEW s \in Busy
  PROVE  AfterError(s).at = "failing" => AfterError(s).error # NoError
BY DEF AfterError, Busy, Polls, Internal, NoError

LEMMA AnswerHasCode ==
  ASSUME ConstantsAssumption, TypeOK, FailingHasCode, NEW w \in Workers,
         Answer(w, AfterError) \/ Answer(w, AfterSuccess)
  PROVE  FailingHasCode'
<1>1. ASSUME NEW p \in Scanners, scanners[p].call = w
      PROVE  AfterError(scanners[p]).at = "failing" =>
               AfterError(scanners[p]).error # NoError
  <2>1. scanners[p].call # NoWorker
    BY <1>1 DEF ConstantsAssumption
  <2>2. QED
    BY <2>1, WorkingLoop, ErrorHasCode
<1>2. QED
  BY <1>1 DEF FailingHasCode, Answer, AfterSuccess, Polls

(* A commit leaves the other transactions sound and its own worker idle, so *)
(* the tables are what remains to be shown.                                 *)
LEMMA InductiveCommit ==
  ASSUME ConstantsAssumption, Inductive, NEW w \in Workers, Commit(w)
  PROVE  Inductive'
<1> DEFINE t == txns[w]
<1>1. TypeOK /\ TypeOK' /\ TransactionSound(w)
  BY TypeCommit DEF Inductive
<1>2. t \in Transaction \union {Idle}
  BY <1>1 DEF TypeOK
<1>3. txns' = [txns EXCEPT ![w] = Idle]
  BY DEF Commit, CommitCreate, CommitRenew, CommitComplete, CommitFail, Close
<1>4. SUFFICES /\ OutcomeHasEvidence' /\ UnfinishedIsClean' /\ FailingHasCode'
               /\ intel \subseteq intel'
               /\ \A k \in Scans : Started(k) => Started(k)'
  <2>1. \A v \in Workers \ {w} : TransactionSound(v)'
    BY <1>1, <1>3, <1>4, SoundnessKept DEF Inductive, TypeOK
  <2>2. TransactionSound(w)'
    BY <1>1, <1>3, IdleIsSound DEF TypeOK
  <2>3. QED
    BY <1>1, <1>4, <2>1, <2>2 DEF Inductive
<1>5. CASE CommitCreate(w)
  <2>1. t \in CreateTxn /\ t.new.status = "queued" /\ t.new.error_code = NoError
    BY <1>1, <1>2, <1>5, TransactionKinds DEF CommitCreate, TransactionSound
  <2>2. UNCHANGED <<reports, intel, scanners>>
    BY <1>5 DEF CommitCreate
  <2>3. ASSUME NEW k \in Scans
        PROVE  \/ scans'[k] = scans[k]
               \/ scans[k].status = "absent" /\ scans'[k] = t.new
    BY <1>1, <1>5, <2>1 DEF CommitCreate, Present, TypeOK
  <2>4. OutcomeHasEvidence' /\ UnfinishedIsClean'
    BY <2>1, <2>2, <2>3 DEF Inductive, OutcomeHasEvidence, UnfinishedIsClean, Terminal
  <2>5. QED
    BY <2>2, <2>3, <2>4 DEF Inductive, FailingHasCode, Started, Terminal
<1>6. CASE CommitRenew(w)
  <2>1. /\ t \in RenewTxn
        /\ t.new = [t.seen EXCEPT !.lease = "running"]
    BY <1>1, <1>2, <1>6, TransactionKinds DEF CommitRenew, TransactionSound
  <2>2. UNCHANGED <<reports, intel, scanners>>
    BY <1>6 DEF CommitRenew
  <2>3. t.seen \in ScanRow /\ t.scan \in Scans /\ scans[t.scan] \in ScanRow
    BY <1>1, <2>1 DEF RenewTxn, TypeOK
  <2>4. scans' = [scans EXCEPT ![t.scan] =
                    [Flush(t.seen, t.new, scans[t.scan]) EXCEPT !.lease = "running"]]
    BY <1>6 DEF CommitRenew
  <2>5. ASSUME NEW k \in Scans
        PROVE  scans'[k].status = scans[k].status /\ scans'[k].error_code = scans[k].error_code
    <3>1. CASE k = t.scan
      BY <1>1, <2>1, <2>3, <2>4, <3>1, FlushedRenewal DEF TypeOK
    <3>2. CASE k # t.scan
      BY <1>1, <2>4, <3>2 DEF TypeOK
    <3>3. QED
      BY <3>1, <3>2
  <2>6. OutcomeHasEvidence' /\ UnfinishedIsClean'
    BY <2>2, <2>5, TablesKept DEF Inductive
  <2>7. QED
    BY <2>2, <2>5, <2>6 DEF Inductive, FailingHasCode, Started
<1>7. CASE CommitComplete(w) /\ Conflict(t)
  <2>1. UNCHANGED <<scans, reports, intel>>
    BY <1>7 DEF CommitComplete
  <2>2. FailingHasCode'
    BY <1>1, <1>7, AnswerHasCode DEF CommitComplete, Inductive
  <2>3. QED
    BY <2>1, <2>2, TablesKept DEF Inductive, Started
<1>8. CASE CommitComplete(w) /\ ~Conflict(t)
  <2>1. /\ t \in CompleteTxn
        /\ t.seen.status = "claimed" /\ t.new.status = "completed"
        /\ CvesOf[t.scan] \subseteq intel \union t.missing
    BY <1>1, <1>2, <1>8, TransactionKinds DEF CommitComplete, TransactionSound
  <2>2. /\ t.scan \in Scans /\ scans[t.scan] \in ScanRow
        /\ t.seen \in ScanRow /\ t.new \in ScanRow /\ t.attempt \in Nat \ {0}
    BY <1>1, <2>1 DEF CompleteTxn, TypeOK
  <2>3. /\ scans' = [scans EXCEPT ![t.scan] = Flush(t.seen, t.new, scans[t.scan])]
        /\ reports' = [reports EXCEPT ![t.scan] = t.attempt]
        /\ intel' = intel \union t.missing
    BY <1>8 DEF CommitComplete
  <2>4. scans'[t.scan].status = "completed" /\ reports'[t.scan] # 0
    BY <1>1, <2>1, <2>2, <2>3, FlushedEnd DEF TypeOK
  <2>5. ASSUME NEW k \in Scans, k # t.scan
        PROVE  scans'[k] = scans[k] /\ reports'[k] = reports[k]
    BY <1>1, <2>3, <2>5 DEF TypeOK
  <2>6. FailingHasCode'
    BY <1>1, <1>8, AnswerHasCode DEF CommitComplete, Inductive
  <2>7. OutcomeHasEvidence'
    BY <2>1, <2>3, <2>4, <2>5 DEF Inductive, OutcomeHasEvidence
  <2>8. UnfinishedIsClean'
    BY <2>4, <2>5 DEF Inductive, UnfinishedIsClean, Terminal
  <2>9. QED
    BY <2>3, <2>4, <2>5, <2>6, <2>7, <2>8 DEF Started, Terminal
<1>9. CASE CommitFail(w)
  <2>1. /\ t \in FailTxn /\ Started(t.scan)
        /\ t.seen.status = "claimed" /\ t.seen.error_code = NoError
        /\ t.new.status = "failed" /\ t.new.error_code # NoError
    BY <1>1, <1>2, <1>9, TransactionKinds DEF CommitFail, TransactionSound
  <2>2. /\ t.scan \in Scans /\ scans[t.scan] \in ScanRow
        /\ t.seen \in ScanRow /\ t.new \in ScanRow
    BY <1>1, <2>1 DEF FailTxn, TypeOK
  <2>3. scans' = [scans EXCEPT ![t.scan] = Flush(t.seen, t.new, scans[t.scan])]
    BY <1>9 DEF CommitFail
  <2>4. UNCHANGED <<reports, intel>>
    BY <1>9 DEF CommitFail
  <2>5. scans'[t.scan].status = "failed" /\ scans'[t.scan].error_code # NoError
    <3> DEFINE row == Flush(t.seen, t.new, scans[t.scan])
    <3>1. row.status = t.new.status /\ row.error_code = t.new.error_code
      BY <2>1, <2>2, FlushedEnd
    <3>2. scans'[t.scan] = row
      BY <1>1, <2>2, <2>3 DEF TypeOK
    <3>3. QED
      BY <2>1, <3>1, <3>2
  <2>6. ASSUME NEW k \in Scans, k # t.scan PROVE scans'[k] = scans[k]
    BY <1>1, <2>3, <2>6 DEF TypeOK
  <2>7. FailingHasCode'
    BY <1>1, <1>9, AnswerHasCode DEF CommitFail, Inductive
  <2>8. OutcomeHasEvidence' /\ UnfinishedIsClean'
    BY <2>4, <2>5, <2>6 DEF Inductive, OutcomeHasEvidence, UnfinishedIsClean, Terminal
  <2>9. QED
    BY <2>4, <2>5, <2>6, <2>7, <2>8 DEF Started, Terminal
<1>10. QED
  BY <1>5, <1>6, <1>7, <1>8, <1>9 DEF Commit

(* A handler that read a claimed row without an error code opens a sound    *)
(* transaction.                                                             *)
LEMMA InductiveRead ==
  ASSUME ConstantsAssumption, Inductive, NEW w \in Workers, NEW p \in Scanners,
         RenewRead(w, p) \/ CompleteRead(w, p) \/ FailRead(w, p)
  PROVE  Inductive'
<1> DEFINE k == scanners[p].scan
           row == scans[k]
<1>1. TypeOK /\ TypeOK'
  BY TypeRead DEF Inductive
<1>2. scanners[p] \in Busy
  BY <1>1, WorkingLoop DEF RenewRead, CompleteRead, FailRead, Works
<1>3. k \in Scans /\ row \in ScanRow
  BY <1>1, <1>2 DEF Busy, TypeOK
<1>4. row.status = "claimed" /\ row.error_code = NoError
  BY <1>3 DEF RenewRead, CompleteRead, FailRead, HoldsClaim, Inductive,
              UnfinishedIsClean, Terminal
<1>5. UNCHANGED <<scans, reports, intel>>
  BY DEF RenewRead, CompleteRead, FailRead
<1>6. \E t : txns' = [txns EXCEPT ![w] = t]
  BY DEF RenewRead, CompleteRead, FailRead, Open
<1>7. \A v \in Workers \ {w} : TransactionSound(v)'
  BY <1>1, <1>5, <1>6, SoundnessKept DEF Inductive, TypeOK, Started
<1>8. CASE RenewRead(w, p)
  <2>1. txns'[w] = [op |-> "renew", scan |-> k, seen |-> row,
                    new |-> [row EXCEPT !.lease = "running"]]
    BY <1>1, <1>8 DEF RenewRead, Open, TypeOK
  <2>2. TransactionSound(w)'
    BY <1>4, <1>5, <2>1 DEF TransactionSound, Started
  <2>3. FailingHasCode'
    BY <1>8 DEF RenewRead, Inductive, FailingHasCode
  <2>4. QED
    BY <1>1, <1>5, <1>7, <2>2, <2>3, TablesKept DEF Inductive
<1>9. CASE CompleteRead(w, p)
  <2> DEFINE new == [Ended(row, "completed") EXCEPT !.error_code = NoError]
  <2>1. txns'[w] = [op |-> "complete", scan |-> k, seen |-> row, new |-> new,
                    attempt |-> scanners[p].attempt, missing |-> CvesOf[k] \ intel]
    BY <1>1, <1>9 DEF CompleteRead, Open, TypeOK
  <2>2. new.status = "completed"
    BY <1>3 DEF Ended, ScanRow
  <2> HIDE DEF new
  <2>3. TransactionSound(w)'
    <3> DEFINE t == txns'[w]
    <3>1. /\ t.op = "complete" /\ t.scan = k /\ t.seen = row
          /\ t.new.status = "completed" /\ t.missing = CvesOf[k] \ intel
      BY <2>1, <2>2
    <3>2. QED
      BY <1>4, <1>5, <3>1 DEF TransactionSound, Started
  <2>4. scanners'[p].at = "completing"
    BY <1>1, <1>2, <1>9 DEF CompleteRead, Busy, TypeOK
  <2>5. \A q \in Scanners \ {p} : scanners'[q] = scanners[q]
    BY <1>1, <1>9 DEF CompleteRead, TypeOK
  <2>6. FailingHasCode'
    BY <2>4, <2>5 DEF Inductive, FailingHasCode
  <2>7. QED
    BY <1>1, <1>5, <1>7, <2>3, <2>6, TablesKept DEF Inductive
<1>10. CASE FailRead(w, p)
  <2> DEFINE new == [Ended(row, "failed") EXCEPT !.error_code = scanners[p].error]
  <2>1. txns'[w] = [op |-> "fail", scan |-> k, seen |-> row, new |-> new]
    BY <1>1, <1>10 DEF FailRead, Open, TypeOK
  <2>2. scanners[p].error # NoError
    BY <1>10 DEF FailRead, Inductive, FailingHasCode
  <2>3. new.status = "failed" /\ new.error_code # NoError
    BY <1>3, <2>2 DEF Ended, ScanRow
  <2> HIDE DEF new
  <2>4. TransactionSound(w)'
    <3> DEFINE t == txns'[w]
    <3>1. /\ t.op = "fail" /\ t.scan = k /\ t.seen = row
          /\ t.new.status = "failed" /\ t.new.error_code # NoError
      BY <2>1, <2>3
    <3>2. QED
      BY <1>4, <1>5, <3>1 DEF TransactionSound, Started
  <2>5. scanners'[p].error = scanners[p].error
    BY <1>1, <1>2, <1>10 DEF FailRead, Busy, TypeOK
  <2>6. \A q \in Scanners \ {p} : scanners'[q] = scanners[q]
    BY <1>1, <1>10 DEF FailRead, TypeOK
  <2>7. FailingHasCode'
    BY <2>2, <2>5, <2>6 DEF Inductive, FailingHasCode
  <2>8. QED
    BY <1>1, <1>5, <1>7, <2>4, <2>7, TablesKept DEF Inductive
<1>11. QED
  BY <1>8, <1>9, <1>10

(* Steps that open no transaction and end no scan.                          *)
LEMMA InductiveKept ==
  ASSUME Inductive, TypeOK', FailingHasCode', UNCHANGED <<reports, intel>>,
         \A w \in Workers : txns'[w] \in {txns[w], Idle},
         \A k \in Scans :
           \/ /\ scans'[k].status = scans[k].status
              /\ scans'[k].error_code = scans[k].error_code
           \/ /\ scans[k].status \in {"queued", "claimed"}
              /\ scans'[k].status = "claimed"
              /\ scans'[k].error_code = scans[k].error_code
  PROVE  Inductive'
<1>1. OutcomeHasEvidence' /\ UnfinishedIsClean'
  BY DEF Inductive, OutcomeHasEvidence, UnfinishedIsClean, Terminal
<1>2. \A k \in Scans : Started(k) => Started(k)'
  BY DEF Started
<1>3. \A w \in Workers : TransactionSound(w)'
  BY <1>2, SoundnessKept, IdleIsSound DEF Inductive
<1>4. QED
  BY <1>1, <1>3 DEF Inductive

LEMMA ClaimKeepsCode ==
  ASSUME NEW p \in Scanners, NEW row \in ScanRow
  PROVE  ClaimedBy(p, row).status = "claimed" /\ ClaimedBy(p, row).error_code = row.error_code
BY DEF ClaimedBy, ScanRow

LEMMA InductiveLoop ==
  ASSUME ConstantsAssumption, Inductive, NEW p \in Scanners,
         \/ \E k \in Scans : Claim(p, k)
         \/ ScanFails(p) \/ CompleteAnswered(p) \/ FailAnswered(p)
  PROVE  Inductive'
<1>1. TypeOK /\ TypeOK'
  BY TypeLoop DEF Inductive
<1>2. ASSUME NEW k \in Scans, Claim(p, k) PROVE Inductive'
  <2>1. scans' = [scans EXCEPT ![k] = ClaimedBy(p, scans[k])]
    BY <1>2 DEF Claim
  <2>2. scans[k].status \in {"queued", "claimed"}
    BY <1>2 DEF Claim, IsNext, Claimable
  <2>3. scans'[k].status = "claimed" /\ scans'[k].error_code = scans[k].error_code
    BY <1>1, <2>1, ClaimKeepsCode DEF TypeOK
  <2>4. \A j \in Scans \ {k} : scans'[j] = scans[j]
    BY <1>1, <2>1 DEF TypeOK
  <2>5. FailingHasCode'
    BY <1>1, <1>2 DEF Claim, Inductive, FailingHasCode, TypeOK
  <2>6. UNCHANGED <<reports, intel, txns>>
    BY <1>2 DEF Claim
  <2>7. QED
    BY <1>1, <2>2, <2>3, <2>4, <2>5, <2>6, InductiveKept
<1>3. ASSUME ScanFails(p) \/ CompleteAnswered(p) \/ FailAnswered(p) PROVE Inductive'
  <2>1. UNCHANGED <<scans, reports, intel, txns>>
    BY <1>3 DEF ScanFails, CompleteAnswered, FailAnswered
  <2>2. scanners[p] \in Busy
    BY <1>1, <1>3, WorkingLoop DEF ScanFails, CompleteAnswered, FailAnswered, Works
  <2>3. \A q \in Scanners \ {p} : scanners'[q] = scanners[q]
    BY <1>1, <1>3 DEF ScanFails, CompleteAnswered, FailAnswered, TypeOK
  <2>4. scanners'[p].at = "failing" => scanners'[p].error # NoError
    <3>1. CASE ScanFails(p)
      <4>1. PICK code \in Codes :
              scanners' = [scanners EXCEPT ![p].at = "failing", ![p].error = code]
        BY <3>1 DEF ScanFails
      <4>2. scanners'[p].error = code
        BY <1>1, <2>2, <4>1 DEF TypeOK, Busy
      <4>3. QED
        BY <4>2 DEF Codes, Internal, ScanError, NoError
    <3>2. CASE CompleteAnswered(p)
      <4>1. scanners'[p] \in {Polls, AfterError(scanners[p])}
        BY <1>1, <3>2 DEF CompleteAnswered, TypeOK
      <4>2. QED
        BY <2>2, <4>1, ErrorHasCode DEF Polls
    <3>3. CASE FailAnswered(p)
      BY <1>1, <3>3 DEF FailAnswered, Polls, TypeOK
    <3>4. QED
      BY <1>3, <3>1, <3>2, <3>3
  <2>5. FailingHasCode'
    BY <2>3, <2>4 DEF Inductive, FailingHasCode
  <2>6. QED
    BY <1>1, <2>1, <2>5, InductiveKept
<1>4. QED
  BY <1>2, <1>3

LEMMA InductiveFault ==
  ASSUME ConstantsAssumption, Inductive, Fault
  PROVE  Inductive'
<1>1. TypeOK /\ TypeOK'
  BY TypeFault DEF Inductive
<1>2. ASSUME NEW p \in Scanners, CallLost(p) \/ ScannerCrashes(p) PROVE Inductive'
  <2>1. scanners[p] \in Busy
    BY <1>1, <1>2, WorkingLoop DEF CallLost, ScannerCrashes
  <2>2. scanners'[p] \in {Polls, AfterError(scanners[p])}
    BY <1>1, <1>2 DEF CallLost, ScannerCrashes, TypeOK
  <2>3. \A q \in Scanners \ {p} : scanners'[q] = scanners[q]
    BY <1>1, <1>2 DEF CallLost, ScannerCrashes, TypeOK
  <2>4. FailingHasCode'
    BY <2>1, <2>2, <2>3, ErrorHasCode DEF Inductive, FailingHasCode, Polls
  <2>5. UNCHANGED <<scans, reports, intel, txns>>
    BY <1>2 DEF CallLost, ScannerCrashes
  <2>6. QED
    BY <1>1, <2>4, <2>5, InductiveKept
<1>3. ASSUME NEW p \in Scanners, NEW k \in Scans, ClaimAnswerLost(p, k) PROVE Inductive'
  <2>1. scans' = [scans EXCEPT ![k] = ClaimedBy(p, scans[k])]
    BY <1>3 DEF ClaimAnswerLost
  <2>2. scans[k].status \in {"queued", "claimed"}
    BY <1>3 DEF ClaimAnswerLost, IsNext, Claimable
  <2>3. scans'[k].status = "claimed" /\ scans'[k].error_code = scans[k].error_code
    BY <1>1, <2>1, ClaimKeepsCode DEF TypeOK
  <2>4. \A j \in Scans \ {k} : scans'[j] = scans[j]
    BY <1>1, <2>1 DEF TypeOK
  <2>5. UNCHANGED <<reports, intel, txns, scanners>>
    BY <1>3 DEF ClaimAnswerLost
  <2>6. FailingHasCode'
    BY <2>5 DEF Inductive, FailingHasCode
  <2>7. QED
    BY <1>1, <2>2, <2>3, <2>4, <2>5, <2>6, InductiveKept
<1>4. CASE BackendRestarts
  <2>1. ASSUME NEW p \in Scanners
        PROVE  scanners'[p].at = "failing" => scanners'[p].error # NoError
    <3>1. CASE scanners[p].call # NoWorker
      <4>1. AfterError(scanners[p]).at = "failing" =>
              AfterError(scanners[p]).error # NoError
        BY <1>1, <3>1, WorkingLoop, ErrorHasCode
      <4>2. QED
        BY <1>4, <3>1, <4>1 DEF BackendRestarts
    <3>2. CASE scanners[p].call = NoWorker
      BY <1>4, <3>2 DEF BackendRestarts, Inductive, FailingHasCode
    <3>3. QED
      BY <3>1, <3>2
  <2>2. FailingHasCode'
    BY <2>1 DEF FailingHasCode
  <2>3. UNCHANGED <<scans, reports, intel>> /\ \A w \in Workers : txns'[w] = Idle
    BY <1>4 DEF BackendRestarts
  <2>4. QED
    BY <1>1, <2>2, <2>3, InductiveKept
<1>5. QED
  BY <1>2, <1>3, <1>4 DEF Fault

LEMMA InductiveStep ==
  ASSUME ConstantsAssumption, Inductive, [Next]_vars
  PROVE  Inductive'
<1>1. TypeOK /\ TypeOK'
  BY TypeStep DEF Inductive
<1>2. ASSUME NEW w \in Workers, NEW k \in Scans, NEW h \in Hosts, CreateRead(w, k, h)
      PROVE  Inductive'
  <2> DEFINE new == [AbsentScan EXCEPT !.status = "queued", !.host = h,
                                       !.created_at = clock]
  <2>1. txns' = [txns EXCEPT ![w] = [op |-> "create", scan |-> k, new |-> new]]
    BY <1>2 DEF CreateRead, Open
  <2>2. new.status = "queued" /\ new.error_code = NoError
    BY DEF AbsentScan
  <2> HIDE DEF new
  <2>3. UNCHANGED <<scans, reports, intel, scanners>>
    BY <1>2 DEF CreateRead
  <2>4. TransactionSound(w)'
    BY <1>1, <2>1, <2>2 DEF TransactionSound, TypeOK
  <2>5. \A v \in Workers \ {w} : TransactionSound(v)'
    BY <1>1, <2>1, <2>3, SoundnessKept DEF Inductive, TypeOK, Started
  <2>6. FailingHasCode'
    BY <2>3 DEF Inductive, FailingHasCode
  <2>7. QED
    BY <1>1, <2>3, <2>4, <2>5, <2>6, TablesKept DEF Inductive
<1>3. ASSUME NEW k \in Scans, LeaseExpires(k) PROVE Inductive'
  <2>1. UNCHANGED <<reports, intel, txns, scanners>>
    BY <1>3 DEF LeaseExpires
  <2>2. scans' = [scans EXCEPT ![k].lease = "expired"]
    BY <1>3 DEF LeaseExpires
  <2>3. \A j \in Scans : /\ scans'[j].status = scans[j].status
                         /\ scans'[j].error_code = scans[j].error_code
    BY <1>1, <2>2 DEF TypeOK, ScanRow
  <2>4. FailingHasCode'
    BY <2>1 DEF Inductive, FailingHasCode
  <2>5. QED
    BY <1>1, <2>1, <2>3, <2>4, InductiveKept
<1>4. CASE UNCHANGED vars
  <2>1. FailingHasCode'
    BY <1>4 DEF vars, Inductive, FailingHasCode
  <2>2. QED
    BY <1>1, <1>4, <2>1, InductiveKept DEF vars
<1>5. QED
  BY <1>2, <1>3, <1>4, InductiveCommit, InductiveRead, InductiveLoop, InductiveFault
  DEF Next, ScanLoop

LEMMA InductiveInit == ConstantsAssumption /\ Init => Inductive
<1> SUFFICES ASSUME ConstantsAssumption, Init PROVE Inductive
  OBVIOUS
<1>1. TypeOK
  BY TypeInit
<1>2. \A k \in Scans : /\ scans[k].status = "absent" /\ scans[k].error_code = NoError
                       /\ reports[k] = 0
  BY DEF Init, AbsentScan
<1>3. OutcomeHasEvidence /\ UnfinishedIsClean
  BY <1>2 DEF OutcomeHasEvidence, UnfinishedIsClean
<1>4. FailingHasCode /\ \A w \in Workers : TransactionSound(w)
  BY DEF Init, FailingHasCode, TransactionSound, Polls, Idle
<1>5. QED
  BY <1>1, <1>3, <1>4 DEF Inductive

THEOREM InductiveInvariant == Spec => []Inductive
<1>1. Inductive /\ [Next]_vars => Inductive'
  BY ConstantsAssumption, InductiveStep
<1>2. QED
  BY <1>1, ConstantsAssumption, InductiveInit, PTL DEF Spec

(* A completed scan has its report, its SBOM and their intelligence, and a  *)
(* failed scan its error code, whatever handlers interleaved on its row.    *)
THEOREM OutcomesHaveEvidence == Spec => []OutcomeHasEvidence
<1>1. Inductive => OutcomeHasEvidence
  BY DEF Inductive
<1>2. QED
  BY <1>1, InductiveInvariant, PTL

-------------------------------------------------------------------------------
(* Refinement. *)

(* Scans whose status and report stay, or move within a phase, do nothing   *)
(* ScanLifecycle sees.                                                      *)
LEMMA PhaseStutters ==
  ASSUME UNCHANGED reports, \A k \in Scans : Phase(k)' = Phase(k)
  PROVE  UNCHANGED <<[k \in Scans |-> Phase(k)], reports>>
OBVIOUS

(* A step on one scan is a step of ScanLifecycle if it is one of its moves. *)
LEMMA PhaseMoves ==
  ASSUME TypeOK, TypeOK', NEW k \in Scans,
         \A j \in Scans \ {k} : scans'[j] = scans[j] /\ reports'[j] = reports[j],
         \/ Phase(k) = "unknown" /\ Phase(k)' = "waiting" /\ reports'[k] = reports[k]
         \/ /\ Phase(k) = "waiting" /\ Phase(k)' = "ended"
            /\ reports'[k] = reports[k] \/ (reports[k] = 0 /\ reports'[k] # 0)
         \/ /\ Phase(k) = "ended" /\ Phase(k)' = "ended"
            /\ reports[k] = 0 /\ reports'[k] # 0
  PROVE  Lifecycle!Next
<1> DEFINE phase == [j \in Scans |-> Phase(j)]
<1>1. phase' = [phase EXCEPT ![k] = Phase(k)']
  <2>1. \A j \in Scans \ {k} : Phase(j)' = Phase(j)
    BY DEF Phase
  <2>2. QED
    BY <2>1
<1>2. reports' = [reports EXCEPT ![k] = reports'[k]] /\ reports'[k] \in Nat
  BY DEF TypeOK
<1>3. phase[k] = Phase(k)
  OBVIOUS
<1>4. CASE Phase(k) = "unknown" /\ Phase(k)' = "waiting" /\ reports'[k] = reports[k]
  <2>1. reports' = reports
    BY <1>2, <1>4 DEF TypeOK
  <2>2. Lifecycle!Request(k)
    BY <1>1, <1>3, <1>4, <2>1 DEF Lifecycle!Request
  <2>3. QED
    BY <2>2 DEF Lifecycle!Next
<1>5. CASE Phase(k) = "waiting" /\ Phase(k)' = "ended" /\ reports'[k] = reports[k]
  <2>1. reports' = reports
    BY <1>2, <1>5 DEF TypeOK
  <2>2. Lifecycle!End(k)
    BY <1>1, <1>3, <1>5, <2>1 DEF Lifecycle!End
  <2>3. QED
    BY <2>2 DEF Lifecycle!Next
<1>6. CASE reports[k] = 0 /\ reports'[k] # 0
  <2>1. Lifecycle!Store(k)
    BY <1>2, <1>6 DEF Lifecycle!Store
  <2>2. CASE Phase(k) = "waiting" /\ Phase(k)' = "ended"
    <3>1. Lifecycle!End(k)
      BY <1>1, <1>3, <2>1, <2>2 DEF Lifecycle!End
    <3>2. QED
      BY <3>1 DEF Lifecycle!Next
  <2>3. CASE Phase(k) = "ended" /\ Phase(k)' = "ended"
    <3>1. phase' = phase
      BY <1>1, <2>3
    <3>2. Lifecycle!LateReport(k)
      BY <1>3, <2>1, <2>3, <3>1 DEF Lifecycle!LateReport
    <3>3. QED
      BY <3>2 DEF Lifecycle!Next
  <2>4. QED
    BY <1>6, <2>2, <2>3
<1>7. QED
  BY <1>4, <1>5, <1>6

LEMMA PhaseOfCommit ==
  ASSUME ConstantsAssumption, Inductive, TypeOK', NEW w \in Workers, Commit(w)
  PROVE  Lifecycle!Next \/ UNCHANGED <<[k \in Scans |-> Phase(k)], reports>>
<1> DEFINE t == txns[w]
<1>1. TypeOK /\ TransactionSound(w) /\ t \in Transaction \union {Idle}
  BY DEF Inductive, TypeOK
<1>2. CASE CommitCreate(w)
  <2>1. t \in CreateTxn /\ t.new.status = "queued"
    BY <1>1, <1>2, TransactionKinds DEF CommitCreate, TransactionSound
  <2>2. reports' = reports
    BY <1>2 DEF CommitCreate
  <2> PICK k \in Scans : k = t.scan
    BY <2>1 DEF CreateTxn
  <2>3. \A j \in Scans \ {k} : scans'[j] = scans[j]
    BY <1>1, <1>2 DEF CommitCreate, TypeOK
  <2>4. CASE Present(k)
    <3>1. scans' = scans
      BY <1>1, <1>2, <2>4 DEF CommitCreate, TypeOK
    <3>2. QED
      BY <2>2, <3>1, PhaseStutters DEF Phase
  <2>5. CASE ~Present(k)
    <3>1. scans'[k].status = "queued"
      BY <1>1, <1>2, <2>1, <2>2, <2>5 DEF CommitCreate, TypeOK
    <3>2. Phase(k) = "unknown" /\ Phase(k)' = "waiting"
      BY <2>5, <3>1 DEF Phase, Present, Terminal
    <3>3. QED
      BY <1>1, <2>2, <2>3, <3>2, PhaseMoves
  <2>6. QED
    BY <2>4, <2>5
<1>3. CASE CommitRenew(w)
  <2>1. t \in RenewTxn /\ t.new = [t.seen EXCEPT !.lease = "running"]
    BY <1>1, <1>3, TransactionKinds DEF CommitRenew, TransactionSound
  <2>2. t.seen \in ScanRow /\ t.scan \in Scans /\ scans[t.scan] \in ScanRow
    BY <1>1, <2>1 DEF RenewTxn, TypeOK
  <2>3. scans' = [scans EXCEPT ![t.scan] =
                    [Flush(t.seen, t.new, scans[t.scan]) EXCEPT !.lease = "running"]]
    BY <1>3 DEF CommitRenew
  <2>4. scans'[t.scan].status = scans[t.scan].status
    BY <1>1, <2>1, <2>2, <2>3, FlushedRenewal DEF TypeOK
  <2>5. \A k \in Scans : scans'[k].status = scans[k].status
    BY <1>1, <2>3, <2>4 DEF TypeOK
  <2>6. QED
    BY <1>3, <2>5, PhaseStutters DEF CommitRenew, Phase
<1>4. CASE CommitComplete(w) /\ Conflict(t)
  BY <1>4, PhaseStutters DEF CommitComplete, Phase
<1>5. CASE CommitComplete(w) /\ ~Conflict(t)
  <2>1. /\ t \in CompleteTxn /\ Started(t.scan)
        /\ t.seen.status = "claimed" /\ t.new.status = "completed"
    BY <1>1, <1>5, TransactionKinds DEF CommitComplete, TransactionSound
  <2>2. /\ t.scan \in Scans /\ scans[t.scan] \in ScanRow
        /\ t.seen \in ScanRow /\ t.new \in ScanRow /\ t.attempt \in Nat \ {0}
    BY <1>1, <2>1 DEF CompleteTxn, TypeOK
  <2>3. /\ scans' = [scans EXCEPT ![t.scan] = Flush(t.seen, t.new, scans[t.scan])]
        /\ reports' = [reports EXCEPT ![t.scan] = t.attempt]
        /\ reports[t.scan] = 0
    BY <1>5 DEF CommitComplete, Conflict
  <2> PICK k \in Scans : k = t.scan
    BY <2>2
  <2>4. scans'[k].status = "completed" /\ reports[k] = 0 /\ reports'[k] # 0
    BY <1>1, <2>1, <2>2, <2>3, FlushedEnd DEF TypeOK
  <2>5. \A j \in Scans \ {k} : scans'[j] = scans[j] /\ reports'[j] = reports[j]
    BY <1>1, <2>3 DEF TypeOK
  <2>6. Phase(k) \in {"waiting", "ended"} /\ Phase(k)' = "ended"
    BY <2>1, <2>4 DEF Phase, Started, Terminal
  <2>7. QED
    BY <1>1, <2>4, <2>5, <2>6, PhaseMoves
<1>6. CASE CommitFail(w)
  <2>1. /\ t \in FailTxn /\ Started(t.scan)
        /\ t.seen.status = "claimed" /\ t.new.status = "failed"
    BY <1>1, <1>6, TransactionKinds DEF CommitFail, TransactionSound
  <2>2. /\ t.scan \in Scans /\ scans[t.scan] \in ScanRow
        /\ t.seen \in ScanRow /\ t.new \in ScanRow
    BY <1>1, <2>1 DEF FailTxn, TypeOK
  <2>3. /\ scans' = [scans EXCEPT ![t.scan] = Flush(t.seen, t.new, scans[t.scan])]
        /\ reports' = reports
    BY <1>6 DEF CommitFail
  <2> PICK k \in Scans : k = t.scan
    BY <2>2
  <2>4. scans'[k].status = "failed"
    <3>1. Flush(t.seen, t.new, scans[k]).status = "failed"
      BY <2>1, <2>2, FlushedEnd
    <3>2. QED
      BY <1>1, <2>3, <3>1 DEF TypeOK
  <2>5. \A j \in Scans \ {k} : scans'[j] = scans[j]
    BY <1>1, <2>3 DEF TypeOK
  <2>6. Phase(k)' = "ended"
    BY <2>4 DEF Phase, Terminal
  <2>7. CASE scans[k].status = "claimed"
    <3>1. Phase(k) = "waiting"
      BY <2>7 DEF Phase, Terminal
    <3>2. QED
      BY <1>1, <2>3, <2>5, <2>6, <3>1, PhaseMoves
  <2>8. CASE scans[k].status \in Terminal
    <3>1. Phase(k) = "ended"
      BY <2>8 DEF Phase, Terminal
    <3>2. \A j \in Scans : Phase(j)' = Phase(j)
      BY <2>5, <2>6, <3>1 DEF Phase
    <3>3. QED
      BY <2>3, <3>2, PhaseStutters
  <2>9. QED
    BY <2>1, <2>7, <2>8 DEF Started
<1>7. QED
  BY <1>2, <1>3, <1>4, <1>5, <1>6 DEF Commit

(* The other steps change no status, or claim a scan that is waiting.       *)
LEMMA PhaseElsewhere ==
  ASSUME Inductive, [Next]_vars, ~ \E w \in Workers : Commit(w)
  PROVE  UNCHANGED <<[k \in Scans |-> Phase(k)], reports>>
<1>1. TypeOK
  BY DEF Inductive
<1>2. ASSUME NEW p \in Scanners, NEW k \in Scans, Claim(p, k) \/ ClaimAnswerLost(p, k)
      PROVE  UNCHANGED <<[j \in Scans |-> Phase(j)], reports>>
  <2>1. scans' = [scans EXCEPT ![k] = ClaimedBy(p, scans[k])] /\ reports' = reports
    BY <1>2 DEF Claim, ClaimAnswerLost
  <2>2. scans[k].status \in {"queued", "claimed"}
    BY <1>2 DEF Claim, ClaimAnswerLost, IsNext, Claimable
  <2>3. scans'[k].status = "claimed"
    BY <1>1, <2>1, ClaimKeepsCode DEF TypeOK
  <2>4. \A j \in Scans \ {k} : scans'[j] = scans[j]
    BY <1>1, <2>1 DEF TypeOK
  <2>5. \A j \in Scans : Phase(j)' = Phase(j)
    BY <2>2, <2>3, <2>4 DEF Phase, Terminal
  <2>6. QED
    BY <2>1, <2>5, PhaseStutters
<1>3. ASSUME NEW k \in Scans, LeaseExpires(k)
      PROVE  UNCHANGED <<[j \in Scans |-> Phase(j)], reports>>
  <2>1. \A j \in Scans : scans'[j].status = scans[j].status
    BY <1>1, <1>3 DEF LeaseExpires, TypeOK, ScanRow
  <2>2. QED
    BY <1>3, <2>1, PhaseStutters DEF LeaseExpires, Phase
<1>4. ASSUME UNCHANGED <<scans, reports>>
      PROVE  UNCHANGED <<[j \in Scans |-> Phase(j)], reports>>
  BY <1>4, PhaseStutters DEF Phase
<1>5. ASSUME NEW p \in Scanners,
             \/ ScanFails(p) \/ CompleteAnswered(p) \/ FailAnswered(p)
             \/ CallLost(p) \/ ScannerCrashes(p) \/ BackendRestarts
      PROVE  UNCHANGED <<scans, reports>>
  BY <1>5 DEF ScanFails, CompleteAnswered, FailAnswered, CallLost, ScannerCrashes,
              BackendRestarts
<1>6. ASSUME NEW w \in Workers, NEW p \in Scanners,
             RenewRead(w, p) \/ CompleteRead(w, p) \/ FailRead(w, p)
      PROVE  UNCHANGED <<scans, reports>>
  BY <1>6 DEF RenewRead, CompleteRead, FailRead
<1>7. ASSUME NEW w \in Workers, NEW k \in Scans, NEW h \in Hosts, CreateRead(w, k, h)
      PROVE  UNCHANGED <<scans, reports>>
  BY <1>7 DEF CreateRead
<1>8. BackendRestarts => UNCHANGED <<scans, reports>>
  BY DEF BackendRestarts
<1>9. UNCHANGED vars => UNCHANGED <<scans, reports>>
  BY DEF vars
<1>10. QED
  BY <1>2, <1>3, <1>4, <1>5, <1>6, <1>7, <1>8, <1>9 DEF Next, ScanLoop, Fault

(* The scan queue implements ScanLifecycle: a requested scan ends once, is  *)
(* never started again, and gets at most one report, which stays.           *)
THEOREM QueueImplementsLifecycle == Spec => LifecycleSpec
<1>1. Init => Lifecycle!Init
  <2> SUFFICES ASSUME Init PROVE Lifecycle!Init
    OBVIOUS
  <2>1. \A k \in Scans : Phase(k) = "unknown"
    <3>1. \A k \in Scans : scans[k].status = "absent"
      BY DEF Init, AbsentScan
    <3>2. QED
      BY <3>1 DEF Phase, Terminal
  <2>2. QED
    BY <2>1 DEF Init, Lifecycle!Init
<1>2. Inductive /\ [Next]_vars =>
        [Lifecycle!Next]_<<[k \in Scans |-> Phase(k)], reports>>
  <2> SUFFICES ASSUME Inductive, [Next]_vars
               PROVE  Lifecycle!Next \/ UNCHANGED <<[k \in Scans |-> Phase(k)], reports>>
    OBVIOUS
  <2>1. TypeOK'
    BY ConstantsAssumption, InductiveStep DEF Inductive
  <2>2. CASE \E w \in Workers : Commit(w)
    BY <2>1, <2>2, ConstantsAssumption, PhaseOfCommit
  <2>3. CASE ~ \E w \in Workers : Commit(w)
    BY <2>3, PhaseElsewhere
  <2>4. QED
    BY <2>2, <2>3
<1>3. QED
  BY <1>1, <1>2, ConstantsAssumption, InductiveInvariant, PTL
  DEF Spec, LifecycleSpec, Lifecycle!Spec

===============================================================================
