---------------------------- MODULE BehaviorProfiles ----------------------------
(***************************************************************************)
(* Versions and activation of behaviour profiles: the table                *)
(* behavior_profiles and the handlers build_behavior_profile and           *)
(* activate_behavior_profile of backend/src/porygon_api/main.py.           *)
(*                                                                         *)
(* Both handlers take a transaction-level advisory lock on the image       *)
(* digest; the build reads the table under the lock, but the activation    *)
(* has read the status of its profile BEFORE it waits for the lock.  A     *)
(* handler is three steps of a worker: what it decides before the lock     *)
(* (txns[w].stage = "waiting"), the statements it runs once it has the     *)
(* lock ("locked"), and its commit, which releases the lock.               *)
(*                                                                         *)
(* A profile is identified by its digest and model hash                    *)
(* (uq_behavior_profiles_digest_model_hash).                               *)
(***************************************************************************)
EXTENDS Naturals

CONSTANTS
  Profiles,   (* the models builds may produce                                *)
  DigestOf,   (* [Profiles -> image digests]                                  *)
  Passing,    (* profiles whose quality document says passed                  *)
  Workers     (* handlers the backend may be running at one time              *)

ASSUME ConstantsAssumption == DOMAIN DigestOf = Profiles /\ Passing \subseteq Profiles

VARIABLES
  profiles,   (* behavior_profiles                                            *)
  txns        (* [Workers -> open transaction or Idle]                        *)

vars == <<profiles, txns>>

(* "retired_at" says whether the column is set.                             *)
ProfileRow == [status : {"absent", "draft", "active", "retired"},
               version : Nat, retired_at : BOOLEAN]

AbsentProfile == [status |-> "absent", version |-> 0, retired_at |-> FALSE]

BuildTxn    == [op : {"build"}, profile : Profiles, stage : {"waiting", "locked"},
                version : Nat]
ActivateTxn == [op : {"activate"}, profile : Profiles, stage : {"waiting", "locked"},
                retiring : SUBSET Profiles]
Idle        == [op |-> "idle", stage |-> "none"]

TypeOK ==
  /\ profiles \in [Profiles -> ProfileRow]
  /\ txns \in [Workers -> BuildTxn \union ActivateTxn \union {Idle}]

Init ==
  /\ profiles = [p \in Profiles |-> AbsentProfile]
  /\ txns = [w \in Workers |-> Idle]

Present(p) == profiles[p].status # "absent"
Active(p) == profiles[p].status = "active"
Siblings(p) == {q \in Profiles : DigestOf[q] = DigestOf[p]} \ {p}

-------------------------------------------------------------------------------
(* The advisory lock. *)

(* Mutant: nobody waits.                                                    *)
NeverLocked(p) == TRUE

(* pg_advisory_xact_lock(hashtext(image_digest)) does not have to wait.     *)
LockFree(p) ==
  \A w \in Workers :
    txns[w].stage = "locked" => DigestOf[txns[w].profile] # DigestOf[p]

-------------------------------------------------------------------------------
(* build_behavior_profile *)

BuildRead(w, p) ==
  /\ txns[w] = Idle
  /\ txns' = [txns EXCEPT ![w] = [op |-> "build", profile |-> p, stage |-> "waiting",
                                  version |-> 0]]
  /\ UNCHANGED profiles

(* The version after the greatest one of the digest; 1 is the first.        *)
IsNextVersion(p, n) ==
  /\ n \in {1} \union {profiles[q].version + 1 : q \in Siblings(p)}
  /\ \A q \in Siblings(p) : profiles[q].version < n

(* Under the lock: an identical profile is refused, else the version read.  *)
BuildLocked(w) ==
  LET t == txns[w] IN
  /\ t.op = "build" /\ t.stage = "waiting"
  /\ LockFree(t.profile)
  /\ \/ /\ Present(t.profile)
        /\ txns' = [txns EXCEPT ![w] = Idle]
     \/ /\ ~Present(t.profile)
        /\ \E n \in {1} \union {profiles[q].version + 1 : q \in Siblings(t.profile)} :
             /\ IsNextVersion(t.profile, n)
             /\ txns' = [txns EXCEPT ![w].stage = "locked", ![w].version = n]
  /\ UNCHANGED profiles

(* The two unique constraints of the table.                                 *)
BuildConflict(t) ==
  \/ Present(t.profile)
  \/ \E q \in Siblings(t.profile) : Present(q) /\ profiles[q].version = t.version

(* A violated constraint is answered with 409.                              *)
CommitBuild(w) ==
  LET t == txns[w] IN
  /\ t.op = "build" /\ t.stage = "locked"
  /\ IF BuildConflict(t) THEN UNCHANGED profiles
     ELSE profiles' = [profiles EXCEPT ![t.profile] =
                         [AbsentProfile EXCEPT !.status = "draft", !.version = t.version]]
  /\ txns' = [txns EXCEPT ![w] = Idle]

-------------------------------------------------------------------------------
(* activate_behavior_profile *)

(* Before the lock: an active profile is returned, a retired one and one    *)
(* that did not pass its quality gates are refused.                         *)
ActivateRead(w, p) ==
  /\ txns[w] = Idle
  /\ profiles[p].status = "draft" /\ p \in Passing
  /\ txns' = [txns EXCEPT ![w] = [op |-> "activate", profile |-> p, stage |-> "waiting",
                                  retiring |-> {}]]
  /\ UNCHANGED profiles

(* Under the lock: the UPDATE that retires the other active profiles.       *)
ActivateLocked(w) ==
  LET t == txns[w] IN
  /\ t.op = "activate" /\ t.stage = "waiting"
  /\ LockFree(t.profile)
  /\ txns' = [txns EXCEPT ![w].stage = "locked",
                          ![w].retiring = {q \in Siblings(t.profile) : Active(q)}]
  /\ UNCHANGED profiles

(* uq_behavior_profiles_one_active_digest                                   *)
ActivateConflict(t) ==
  \E q \in Siblings(t.profile) \ t.retiring : Active(q)

Retired(row) == [row EXCEPT !.status = "retired", !.retired_at = TRUE]

(* Mutant: a profile that is no longer a draft is left alone.               *)
CommitActivateOfDraft(w) ==
  LET t == txns[w] IN
  /\ t.op = "activate" /\ t.stage = "locked"
  /\ IF ActivateConflict(t) THEN UNCHANGED profiles
     ELSE profiles' = [p \in Profiles |->
                         IF p = t.profile /\ profiles[p].status = "draft"
                         THEN [profiles[p] EXCEPT !.status = "active"]
                         ELSE IF p \in t.retiring THEN Retired(profiles[p])
                         ELSE profiles[p]]
  /\ txns' = [txns EXCEPT ![w] = Idle]

(* The status loaded before the lock was "draft", so "active" is written    *)
(* over whatever the row has become; retired_at was loaded as NULL, so its  *)
(* NULL is not written.                                                     *)
CommitActivate(w) ==
  LET t == txns[w] IN
  /\ t.op = "activate" /\ t.stage = "locked"
  /\ IF ActivateConflict(t) THEN UNCHANGED profiles
     ELSE profiles' = [p \in Profiles |->
                         IF p = t.profile THEN [profiles[p] EXCEPT !.status = "active"]
                         ELSE IF p \in t.retiring THEN Retired(profiles[p])
                         ELSE profiles[p]]
  /\ txns' = [txns EXCEPT ![w] = Idle]

-------------------------------------------------------------------------------
(* The specification. *)

(* Open transactions are rolled back, which releases their locks.           *)
RestartBackend ==
  /\ txns' = [w \in Workers |-> Idle]
  /\ UNCHANGED profiles

Next ==
  \/ \E w \in Workers :
       \/ \E p \in Profiles : BuildRead(w, p) \/ ActivateRead(w, p)
       \/ BuildLocked(w) \/ CommitBuild(w)
       \/ ActivateLocked(w) \/ CommitActivate(w)
  \/ RestartBackend

Spec == Init /\ [][Next]_vars

-------------------------------------------------------------------------------
(* Properties. *)

(* "Serialise version assignment and activation decisions for this digest"  *)
(* (main.py): what a handler found under the lock is still so when it       *)
(* commits, so the constraints of the table never refuse its commit.        *)
LockSerialises ==
  \A w \in Workers :
    txns[w].stage = "locked" =>
      IF txns[w].op = "build" THEN ~BuildConflict(txns[w])
      ELSE txns[w].retiring = {q \in Siblings(txns[w].profile) : Active(q)}

(* "one active profile per digest" (FINAL_PHASES.md)                        *)
OneActiveProfile ==
  \A p, q \in Profiles :
    Active(p) /\ Active(q) /\ DigestOf[p] = DigestOf[q] => p = q

(* Once a digest has an active profile it always has one: an activation     *)
(* never retires a profile without putting another in its place.  Scores    *)
(* of the digest are refused while there is none.                           *)
ActiveProfileRemains ==
  [][\A p \in Profiles :
       Active(p) => \E q \in Siblings(p) \union {p} : Active(q)']_vars

-------------------------------------------------------------------------------
(* What the invariants rest on: the lock of a digest has one holder.        *)

LockIsExclusive ==
  \A v, w \in Workers :
    /\ txns[v].stage = "locked" /\ txns[w].stage = "locked"
    /\ DigestOf[txns[v].profile] = DigestOf[txns[w].profile]
    => v = w

Inductive == TypeOK /\ OneActiveProfile /\ LockSerialises /\ LockIsExclusive

===============================================================================
