------------------------------ MODULE ImageReport ------------------------------
(****************************************************************************)
(* What the completion of an image scan stores: the intelligence rows it    *)
(* shares with the scans of other images (EPSS scores and the KEV catalog,  *)
(* fetched by the scanner), and its findings with the evidence of their     *)
(* exposure. A completion reads the rows, and writes the changed columns    *)
(* when it commits; several scans may complete at once.                     *)
(****************************************************************************)
EXTENDS Naturals

CONSTANTS
  ReportCves,   \* the CVEs the report of the image matches
  PackageOf,    \* [ReportCves -> Packages]: the package each was matched on
  Packages,
  Scores,       \* EPSS scores
  Completions,  \* scans under way
  FeedChanges,  \* bound on the changes of the feeds
  NoScore, NoIntel

ASSUME ImageReportAssumption ==
  /\ PackageOf \in [ReportCves -> Packages]
  /\ NoScore \notin Scores /\ FeedChanges \in Nat

VARIABLES
  feed,      \* what EPSS and the KEV catalog say now
  intelRow,  \* vulnerability_intel
  job,       \* per scan, its step and what it has fetched and read
  findings,  \* vulnerability_findings
  seen,      \* what the backend knows of the image at run time
  changes

reportVars == <<feed, intelRow, job, findings, seen, changes>>

Score == Scores \union {NoScore}
Intel == [kev : BOOLEAN, epss_score : Score]

ASSUME NoIntelAssumption == NoIntel \notin Intel

(* One row of merge_intel, with the metadata of its fetch.                  *)
FetchedRow ==
  [kev : BOOLEAN, epss_score : Score, kev_fetch_complete : BOOLEAN,
   epss_fetch_complete : BOOLEAN, epss_record_returned : BOOLEAN]
Stages == {"package_present", "deployed", "runtime_observed", "runtime_observed_and_port_published"}
Finding == [cve : ReportCves, stage : Stages, kev : BOOLEAN]
Seen == [running : BOOLEAN, published : BOOLEAN, executables : SUBSET Packages]

Waiting == [step |-> "scan"]
Ended == [step |-> "ended"]
Jobs ==
  {Waiting, Ended} \union [step : {"complete"}, fetched : [ReportCves -> FetchedRow]]
  \union [step : {"commit"}, fetched : [ReportCves -> FetchedRow], seen : Seen,
          loaded : [ReportCves -> Intel \union {NoIntel}]]

Nothing == [kev |-> FALSE, epss_score |-> NoScore]

(* Either no scan has brought these CVEs yet, or one has stored what the    *)
(* feeds say.                                                               *)
ReportInit ==
  /\ \/ feed = [c \in ReportCves |-> Nothing] /\ intelRow = [c \in ReportCves |-> NoIntel]
     \/ \E i \in Intel : /\ i.kev /\ i.epss_score # NoScore
                         /\ feed = [c \in ReportCves |-> i] /\ intelRow = feed
  /\ job = [s \in Completions |-> Waiting]
  /\ findings = {}
  /\ seen = [running |-> FALSE, published |-> FALSE, executables |-> {}]
  /\ changes = 0

FeedMoves ==
  /\ changes < FeedChanges /\ changes' = changes + 1
  /\ \E c \in ReportCves, i \in Intel : feed' = [feed EXCEPT ![c] = i]
  /\ UNCHANGED <<intelRow, job, findings, seen>>

(* A container of the image runs, publishes a port, or runs a package.      *)
Observe ==
  /\ \/ \E published \in BOOLEAN :
          seen' = [seen EXCEPT !.running = TRUE, !.published = @ \/ published]
     \/ \E p \in Packages : seen' = [seen EXCEPT !.executables = @ \union {p}]
  /\ UNCHANGED <<feed, intelRow, job, findings, changes>>

(* What is parsed of the catalog, one request, and of the scores, one       *)
(* request for each batch, here of one CVE; any of them may fail.           *)
ParsedKev(complete) == [c \in ReportCves |-> complete /\ feed[c].kev]
ParsedEpss(failed) ==
  [c \in ReportCves |-> IF c \in failed THEN NoScore ELSE feed[c].epss_score]

MergeIntel(kev, epss, kevComplete, failed) ==
  [c \in ReportCves |->
     [kev |-> kev[c], epss_score |-> epss[c],
      kev_fetch_complete |-> kevComplete,
      epss_fetch_complete |-> failed = {},
      epss_record_returned |-> epss[c] # NoScore]]

FetchIntel(s) ==
  /\ job[s].step = "scan"
  /\ \E kevComplete \in BOOLEAN, failed \in SUBSET ReportCves :
       job' = [job EXCEPT ![s] =
                 [step |-> "complete", fetched |->
                    MergeIntel(ParsedKev(kevComplete), ParsedEpss(failed), kevComplete, failed)]]
  /\ UNCHANGED <<feed, intelRow, findings, seen, changes>>

ReadIntel(s) ==
  /\ job[s].step = "complete"
  /\ job' = [job EXCEPT ![s] = [step |-> "commit", fetched |-> @.fetched,
                                loaded |-> intelRow, seen |-> seen]]
  /\ UNCHANGED <<feed, intelRow, findings, seen, changes>>

EpssAuthoritative(fetched) == fetched.epss_fetch_complete \/ fetched.epss_record_returned

(* Mutant: what the scanner sends replaces what is stored.                  *)
Replaced(intel, fetched) == [kev |-> fetched.kev, epss_score |-> fetched.epss_score]

(* A failed fetch keeps what an earlier one has brought.                    *)
Merged(intel, fetched) ==
  LET old == IF intel = NoIntel THEN Nothing ELSE intel
  IN [kev |-> IF fetched.kev_fetch_complete THEN fetched.kev ELSE old.kev,
      epss_score |-> IF EpssAuthoritative(fetched) THEN fetched.epss_score ELSE old.epss_score]

Written(intel, new, current) ==
  IF intel = NoIntel THEN new
  ELSE [f \in DOMAIN current |-> IF new[f] = intel[f] THEN current[f] ELSE new[f]]

Stage(package, known) ==
  CASE package \in known.executables /\ known.published -> "runtime_observed_and_port_published"
    [] package \in known.executables /\ ~known.published -> "runtime_observed"
    [] package \notin known.executables /\ known.running -> "deployed"
    [] OTHER -> "package_present"

(* normalize_trivy_report: the matches of the report.                       *)
Matches == {[cve_id |-> c, package_name |-> PackageOf[c]] : c \in ReportCves}

NewFindings(j) ==
  {[cve |-> item.cve_id, stage |-> Stage(item.package_name, j.seen),
    kev |-> Merged(j.loaded[item.cve_id], j.fetched[item.cve_id]).kev] : item \in Matches}

InsertFails(j) == \E c \in ReportCves : j.loaded[c] = NoIntel /\ intelRow[c] # NoIntel

CommitReport(s) ==
  /\ job[s].step = "commit" /\ ~InsertFails(job[s])
  /\ LET j == job[s] IN
       /\ intelRow' = [c \in ReportCves |->
                         Written(j.loaded[c], Merged(j.loaded[c], j.fetched[c]), intelRow[c])]
       /\ findings' = findings \union NewFindings(j)
  /\ job' = [job EXCEPT ![s] = Ended]
  /\ UNCHANGED <<feed, seen, changes>>

(* A CVE both scans brought first is inserted twice: one is rolled back.    *)
RollBackReport(s) ==
  /\ job[s].step = "commit" /\ InsertFails(job[s])
  /\ job' = [job EXCEPT ![s] = Ended]
  /\ UNCHANGED <<feed, intelRow, findings, seen, changes>>

ReportNext ==
  \/ FeedMoves \/ Observe
  \/ \E s \in Completions :
       FetchIntel(s) \/ ReadIntel(s) \/ CommitReport(s) \/ RollBackReport(s)

ReportSpec == ReportInit /\ [][ReportNext]_reportVars

-------------------------------------------------------------------------------
ReportTypeOK ==
  /\ feed \in [ReportCves -> Intel] /\ intelRow \in [ReportCves -> Intel \union {NoIntel}]
  /\ job \in [Completions -> Jobs] /\ findings \subseteq Finding
  /\ seen \in Seen /\ changes \in 0..FeedChanges

(* An outage of a feed takes nothing away: a score or a KEV entry changes   *)
(* only when a fetch of that feed said so, and is dropped only when it was  *)
(* complete, whichever completions overlap.                                 *)
OutageKeepsIntel ==
  [][\A c \in ReportCves : intelRow[c] # NoIntel =>
       /\ \/ intelRow'[c].kev = intelRow[c].kev
          \/ \E s \in Completions :
               /\ job[s].step = "commit" /\ job'[s] = Ended
               /\ job[s].fetched[c].kev_fetch_complete
               /\ intelRow'[c].kev = job[s].fetched[c].kev
       /\ \/ intelRow'[c].epss_score = intelRow[c].epss_score
          \/ \E s \in Completions :
               /\ job[s].step = "commit" /\ job'[s] = Ended
               /\ intelRow'[c].epss_score = job[s].fetched[c].epss_score
               /\ job[s].fetched[c].epss_score = NoScore => job[s].fetched[c].epss_fetch_complete
    ]_reportVars

===============================================================================
