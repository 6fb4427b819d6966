--------------------------------- MODULE Scoring ---------------------------------
(***************************************************************************)
(* Scores of observation windows against behaviour profiles: the table     *)
(* anomaly_scores and compute_anomaly_score of                             *)
(* backend/src/porygon_api/main.py, beside the builds and activations of   *)
(* profiles (BehaviorProfiles), the events they read and the retention     *)
(* that deletes them.                                                      *)
(*                                                                         *)
(* A request counts the events of its window, lists them in a later        *)
(* statement, takes the advisory lock of its observation key and commits.  *)
(* The key is the profile, the window and the set of the listed events.    *)
(*                                                                         *)
(* A profile is what was built from a set of events: its hash covers their *)
(* ids, so the events of the profile p are the constant TrainedOn[p].      *)
(***************************************************************************)
EXTENDS BehaviorProfiles, BehaviorFeatures

CONSTANTS
  ImageOf,         (* [Events -> image digests]                               *)
  TrainingStart, TrainingEnd, WindowSeconds,   (* [Profiles -> Nat]           *)
  TrainedOn,       (* [Profiles -> SUBSET Events]                             *)
  Windows,         (* starts of the windows asked for                         *)
  Now,             (* the time of the requests                                *)
  anomaly_min_process_events, anomaly_max_events,
  Scorers,         (* scoring requests that may be open at one time           *)
  MaxOpen          (* bound: handlers of either kind open at one time         *)

ASSUME ScoringAssumption ==
  /\ TrainedOn \in [Profiles -> SUBSET Events]
  /\ {TrainingStart, TrainingEnd, WindowSeconds} \subseteq [Profiles -> Nat]
  /\ \A p \in Profiles : TrainingStart[p] < TrainingEnd[p] /\ WindowSeconds[p] > 0
  /\ Windows \subseteq Nat
  /\ anomaly_min_process_events \in Nat \ {0}

VARIABLES
  events,     (* [Events -> {"expected", "stored", "deleted"}]                *)
  scores,     (* anomaly_scores                                               *)
  requests    (* [Scorers -> open request or NoRequest]                       *)

scoringVars == <<profiles, txns, events, scores, requests>>

Bandings == {"baseline_like", "elevated", "high", "extreme", "insufficient_data"}

ScoreRow == [profile : Profiles, start : Windows, evidence : SUBSET Events,
             status : {"scored", "insufficient_data"}, score_band : Bandings]

Request == [profile : Profiles, start : Windows, stage : {"counted", "listed", "locked"},
            process_count : Nat, evidence : SUBSET Events]
NoRequest == [stage |-> "none"]

ScoringTypeOK ==
  /\ events \in [Events -> {"expected", "stored", "deleted"}]
  /\ scores \subseteq ScoreRow
  /\ requests \in [Scorers -> Request \union {NoRequest}]
  /\ \A s \in scores : s.status = "insufficient_data" <=> s.score_band = "insufficient_data"

ScoringInit ==
  /\ Init
  /\ events = [e \in Events |-> "expected"]
  /\ scores = {}
  /\ requests = [c \in Scorers |-> NoRequest]

Stored == {e \in Events : events[e] = "stored"}

(* The filters of the queries: events of the digest from start up to end.   *)
Selected(digest, start, end) ==
  {e \in Stored : ImageOf[e] = digest /\ EventOf[e].at >= start /\ EventOf[e].at < end}

OpenHandlers ==
  Cardinality({w \in Workers : txns[w] # Idle})
    + Cardinality({c \in Scorers : requests[c] # NoRequest})

-------------------------------------------------------------------------------
(* Evidence comes, late or not, and goes with retention. *)

Arrive(e) ==
  /\ events[e] = "expected"
  /\ events' = [events EXCEPT ![e] = "stored"]
  /\ UNCHANGED <<profiles, txns, scores, requests>>

Expire(cutoff) ==
  /\ \E e \in Stored : EventOf[e].at < cutoff
  /\ events' = [e \in Events |-> IF e \in Stored /\ EventOf[e].at < cutoff
                                 THEN "deleted" ELSE events[e]]
  /\ UNCHANGED <<profiles, txns, scores, requests>>

-------------------------------------------------------------------------------
(* build_behavior_profile and activate_behavior_profile *)

(* A build that finds these events builds this profile.                     *)
Build(w, p) ==
  /\ OpenHandlers < MaxOpen
  /\ Selected(DigestOf[p], TrainingStart[p], TrainingEnd[p]) = TrainedOn[p]
  /\ BuildRead(w, p)
  /\ UNCHANGED <<events, scores, requests>>

Activate(w, p) ==
  /\ OpenHandlers < MaxOpen
  /\ ActivateRead(w, p)
  /\ UNCHANGED <<events, scores, requests>>

Proceed(w) ==
  /\ BuildLocked(w) \/ CommitBuild(w) \/ ActivateLocked(w) \/ CommitActivate(w)
  /\ UNCHANGED <<events, scores, requests>>

-------------------------------------------------------------------------------
(* compute_anomaly_score *)

WindowEnd(p, start) == start + WindowSeconds[p]

(* Mutant: only windows inside the training interval are refused.           *)
InsideTraining(p, start) ==
  start >= TrainingStart[p] /\ WindowEnd(p, start) <= TrainingEnd[p]

OverlapsTraining(p, start) ==
  start < TrainingEnd[p] /\ WindowEnd(p, start) > TrainingStart[p]

(* A profile that is named, or the active one of the digest.                *)
Usable(p) ==
  \/ profiles[p].status \in {"active", "retired"} /\ p \in Passing
  \/ Active(p)

Window(p, start) == Selected(DigestOf[p], start, WindowEnd(p, start))

CountEvents(c, p, start) ==
  /\ requests[c] = NoRequest /\ OpenHandlers < MaxOpen
  /\ Usable(p)
  /\ WindowEnd(p, start) <= Now
  /\ ~OverlapsTraining(p, start)
  /\ Cardinality(Window(p, start)) <= anomaly_max_events
  /\ requests' = [requests EXCEPT ![c] =
       [profile |-> p, start |-> start, stage |-> "counted", evidence |-> {},
        process_count |-> Cardinality(Processes(Window(p, start)))]]
  /\ UNCHANGED <<profiles, txns, events, scores>>

ListEvents(c) ==
  /\ requests[c].stage = "counted"
  /\ requests' = [requests EXCEPT ![c].stage = "listed",
                    ![c].evidence = Window(requests[c].profile, requests[c].start)]
  /\ UNCHANGED <<profiles, txns, events, scores>>

(* The observation key.                                                     *)
Key(x) == <<x.profile, x.start, x.evidence>>
Scored(key) == \E s \in scores : Key(s) = key

KeyFree(key) == ~\E c \in Scorers : requests[c].stage = "locked" /\ Key(requests[c]) = key

(* An existing score is the answer.                                         *)
LockKey(c) ==
  /\ requests[c].stage = "listed"
  /\ KeyFree(Key(requests[c]))
  /\ requests' = IF Scored(Key(requests[c])) THEN [requests EXCEPT ![c] = NoRequest]
                 ELSE [requests EXCEPT ![c].stage = "locked"]
  /\ UNCHANGED <<profiles, txns, events, scores>>

(* The status is decided by the count, the band by what was listed.         *)
Outcomes(r) ==
  IF r.process_count < anomaly_min_process_events
  THEN {[status |-> "insufficient_data", score_band |-> "insufficient_data"]}
  ELSE {[status |-> "scored", score_band |-> b] : b \in Bands(TrainedOn[r.profile], r.evidence)}

Score(r, outcome) ==
  [profile |-> r.profile, start |-> r.start, evidence |-> r.evidence,
   status |-> outcome.status, score_band |-> outcome.score_band]

(* A key that exists by now is refused and the existing score answered.     *)
CommitScore(c) ==
  /\ requests[c].stage = "locked"
  /\ \E outcome \in Outcomes(requests[c]) :
       scores' = IF Scored(Key(requests[c])) THEN scores
                 ELSE scores \union {Score(requests[c], outcome)}
  /\ requests' = [requests EXCEPT ![c] = NoRequest]
  /\ UNCHANGED <<profiles, txns, events>>

-------------------------------------------------------------------------------
(* The specification. *)

Restart ==
  /\ RestartBackend
  /\ requests' = [c \in Scorers |-> NoRequest]
  /\ UNCHANGED <<events, scores>>

ScoringNext ==
  \/ \E e \in Events : Arrive(e)
  \/ \E cutoff \in {EventOf[e].at + 1 : e \in Events} : Expire(cutoff)
  \/ \E w \in Workers :
       \/ \E p \in Profiles : Build(w, p) \/ Activate(w, p)
       \/ Proceed(w)
  \/ \E c \in Scorers :
       \/ \E p \in Profiles, start \in Windows : CountEvents(c, p, start)
       \/ ListEvents(c) \/ LockKey(c) \/ CommitScore(c)
  \/ Restart

ScoringSpec == ScoringInit /\ [][ScoringNext]_scoringVars

-------------------------------------------------------------------------------
(* Properties. *)

(* "Scoring windows must not overlap the profile training interval"         *)
(* (main.py): no event a score rests on is one its profile was built from,  *)
(* whatever arrived, expired or was activated in between, and the profile   *)
(* was approved and passed its quality gates.                               *)
ScoresAreIndependent ==
  \A s \in scores :
    /\ s.evidence \intersect TrainedOn[s.profile] = {}
    /\ s.profile \in Passing
    /\ profiles[s.profile].status \in {"active", "retired"}

(* A window whose programs the profile has never seen is at least "high",   *)
(* whichever families of features could not be observed in it.              *)
NewProgramsAreHigh ==
  \A s \in scores :
    /\ s.status = "scored"
    /\ Processes(s.evidence) # {}
    /\ \A e \in Processes(s.evidence), d \in Processes(TrainedOn[s.profile]) :
         /\ EventOf[e].program # EventOf[d].program
         /\ EventOf[e].name # EventOf[d].name
    => s.score_band \in {"high", "extreme"}

===============================================================================
