--------------------------- MODULE ResponseLifecycle ---------------------------
(***************************************************************************)
(* What the response engine promises about one recommendation, without     *)
(* tables, columns, leases or workers: it is decided once; an approved     *)
(* action is executed, a successful one may be rolled back, and neither    *)
(* phase is ever entered again once left; only a transient failure is      *)
(* tried again.  FINAL_PHASES.md lists these promises ("One idempotent     *)
(* execution per approved recommendation", "Manual retry only for          *)
(* transient executor failures"), README.md draws the decision.            *)
(*                                                                         *)
(* The handlers serve requests side by side and the last writer wins: a    *)
(* decision is taken on the state a handler reads and written later,       *)
(* whatever the state is by then.  The promise is therefore that every     *)
(* state was the legal outcome of a request at the moment it was read; a   *)
(* request that nothing overtook is a legal move when it is written.  The  *)
(* queue (claims and the requeue of lost ones) reads and writes at once.   *)
(***************************************************************************)
CONSTANT Recommendations

VARIABLES
  life,      (* [Recommendations -> where the recommendation is]              *)
  requests   (* [Recommendations -> moves decided on and not yet written]     *)

QueueMoves ==
  {<<"pending", "claimed">>, <<"claimed", "pending">>,
   <<"rollback_pending", "rollback_claimed">>, <<"rollback_claimed", "rollback_pending">>}

RequestMoves ==
  {<<"absent", "proposed">>,
   <<"proposed", "pending">>, <<"proposed", "rejected">>,
   <<"claimed", "succeeded">>, <<"claimed", "failed">>, <<"claimed", "abandoned">>,
   <<"failed", "pending">>,
   <<"succeeded", "rollback_pending">>,
   <<"rollback_claimed", "rolled_back">>,
   <<"rollback_claimed", "rollback_failed">>, <<"rollback_claimed", "rollback_abandoned">>,
   <<"rollback_failed", "rollback_pending">>}

States == {m[2] : m \in RequestMoves \union QueueMoves} \union {"absent"}

(* Whether a failure may be retried is a column of its own, which an        *)
(* overtaken request may leave as it is.                                    *)
Failures == {{"failed", "abandoned"}, {"rollback_failed", "rollback_abandoned"}}
Leads(m, state) == state = m[2] \/ \E F \in Failures : {m[2], state} \subseteq F

Init ==
  /\ life = [r \in Recommendations |-> "absent"]
  /\ requests = [r \in Recommendations |-> {}]

(* A request is decided on what is there.                                   *)
Decided(r) ==
  \A m \in requests'[r] \ requests[r] : m \in RequestMoves /\ m[1] = life[r]

Moved(r) ==
  \/ life'[r] = life[r]
  \/ <<life[r], life'[r]>> \in QueueMoves
  \/ \E m \in requests[r] : Leads(m, life'[r])

(* One request moves any number of recommendations: a claim requeues what   *)
(* expired, and generation proposes every target of an incident.            *)
Next ==
  /\ life' \in [Recommendations -> States]
  /\ requests' \in [Recommendations -> SUBSET RequestMoves]
  /\ \A r \in Recommendations : Decided(r) /\ Moved(r)

Spec == Init /\ [][Next]_<<life, requests>>

===============================================================================
