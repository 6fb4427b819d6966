----------------------------- MODULE ScoringProofs -----------------------------
(***************************************************************************)
(* Proofs about behaviour profiles, their scores and the calibrated        *)
(* models, for every set of models, digests, runs, contexts and concurrent *)
(* handlers.                                                               *)
(***************************************************************************)
EXTENDS Scoring, Calibration, FiniteSetTheorems, TLAPS

-------------------------------------------------------------------------------
(* BehaviorProfiles. *)

Transaction == BuildTxn \union ActivateTxn \union {Idle}

(* An open transaction is of the kind its op says, and has a profile.       *)
LEMMA TransactionKinds ==
  ASSUME NEW t \in Transaction
  PROVE  /\ t.op = "build" => t \in BuildTxn
         /\ t.op = "activate" => t \in ActivateTxn
         /\ t.stage # "none" => t.profile \in Profiles /\ t.op \in {"build", "activate"}
BY DEF Transaction, BuildTxn, ActivateTxn, Idle

(* The next version is a version, and no sibling has it.                    *)
LEMMA NextVersion ==
  ASSUME TypeOK, NEW p \in Profiles, NEW n, IsNextVersion(p, n)
  PROVE  n \in Nat /\ \A q \in Siblings(p) : profiles[q].version # n
<1>1. \A q \in Siblings(p) : profiles[q].version \in Nat
  BY DEF TypeOK, ProfileRow, Siblings
<1>2. QED
  BY <1>1 DEF IsNextVersion

(* The rows a commit writes are rows.                                       *)
LEMMA RowTypes ==
  ASSUME NEW row \in ProfileRow, NEW n \in Nat
  PROVE  /\ [AbsentProfile EXCEPT !.status = "draft", !.version = n] \in ProfileRow
         /\ [row EXCEPT !.status = "active"] \in ProfileRow
         /\ Retired(row) \in ProfileRow
BY DEF AbsentProfile, ProfileRow, Retired

LEMMA TypeStep ==
  ASSUME TypeOK, [Next]_vars
  PROVE  TypeOK'
<1>1. ASSUME NEW w \in Workers, NEW p \in Profiles, BuildRead(w, p) \/ ActivateRead(w, p)
      PROVE  TypeOK'
  BY <1>1 DEF TypeOK, BuildRead, ActivateRead, BuildTxn, ActivateTxn
<1>2. ASSUME NEW w \in Workers, BuildLocked(w) PROVE TypeOK'
  <2> DEFINE t == txns[w]
  <2>1. t \in BuildTxn /\ t.profile \in Profiles
    BY <1>2, TransactionKinds DEF TypeOK, BuildLocked, Transaction, BuildTxn
  <2>2. CASE txns' = [txns EXCEPT ![w] = Idle]
    BY <1>2, <2>2 DEF TypeOK, BuildLocked
  <2>3. ASSUME NEW n, IsNextVersion(t.profile, n),
               txns' = [txns EXCEPT ![w].stage = "locked", ![w].version = n]
        PROVE  TypeOK'
    <3>1. n \in Nat
      BY <2>1, <2>3, NextVersion
    <3>2. [t EXCEPT !.stage = "locked", !.version = n] \in BuildTxn
      BY <2>1, <3>1 DEF BuildTxn
    <3>3. txns' = [txns EXCEPT ![w] = [t EXCEPT !.stage = "locked", !.version = n]]
      BY <2>3 DEF TypeOK
    <3>4. QED
      BY <1>2, <3>2, <3>3 DEF TypeOK, BuildLocked
  <2>4. QED
    BY <1>2, <2>2, <2>3 DEF BuildLocked
<1>3. ASSUME NEW w \in Workers, CommitBuild(w) PROVE TypeOK'
  <2> DEFINE t == txns[w]
  <2>1. t \in BuildTxn
    BY <1>3, TransactionKinds DEF TypeOK, CommitBuild, Transaction
  <2>2. profiles[t.profile] \in ProfileRow /\ t.version \in Nat
    BY <2>1 DEF TypeOK, BuildTxn
  <2>3. [AbsentProfile EXCEPT !.status = "draft", !.version = t.version] \in ProfileRow
    BY <2>2, RowTypes
  <2>4. profiles' \in [Profiles -> ProfileRow]
    BY <1>3, <2>3 DEF TypeOK, CommitBuild
  <2>5. QED
    BY <1>3, <2>4 DEF TypeOK, CommitBuild
<1>4. ASSUME NEW w \in Workers, ActivateLocked(w) PROVE TypeOK'
  <2> DEFINE t == txns[w]
             found == {q \in Siblings(t.profile) : Active(q)}
  <2>1. t \in ActivateTxn
    BY <1>4, TransactionKinds DEF TypeOK, ActivateLocked, Transaction
  <2>2. [t EXCEPT !.stage = "locked", !.retiring = found] \in ActivateTxn
    BY <2>1 DEF ActivateTxn, Siblings
  <2>3. txns' = [txns EXCEPT ![w] = [t EXCEPT !.stage = "locked", !.retiring = found]]
    BY <1>4 DEF TypeOK, ActivateLocked
  <2>4. QED
    BY <1>4, <2>2, <2>3 DEF TypeOK, ActivateLocked
<1>5. ASSUME NEW w \in Workers, CommitActivate(w) PROVE TypeOK'
  <2>1. \A p \in Profiles : /\ profiles[p] \in ProfileRow
                            /\ [profiles[p] EXCEPT !.status = "active"] \in ProfileRow
                            /\ Retired(profiles[p]) \in ProfileRow
    BY RowTypes DEF TypeOK
  <2>2. profiles' \in [Profiles -> ProfileRow]
    BY <1>5, <2>1 DEF TypeOK, CommitActivate
  <2>3. QED
    BY <1>5, <2>2 DEF TypeOK, CommitActivate
<1>6. CASE RestartBackend
  BY <1>6 DEF TypeOK, RestartBackend
<1>7. CASE UNCHANGED vars
  BY <1>7 DEF TypeOK, vars
<1>8. QED
  BY <1>1, <1>2, <1>3, <1>4, <1>5, <1>6, <1>7 DEF Next

(* In every behaviour the table and the transactions keep their types.      *)
THEOREM TypeCorrect == Spec => []TypeOK
<1>1. Init => TypeOK
  BY DEF Init, TypeOK, AbsentProfile, ProfileRow
<1>2. TypeOK /\ [Next]_vars => TypeOK'
  BY TypeStep
<1>3. QED
  BY <1>1, <1>2, PTL DEF Spec

-------------------------------------------------------------------------------
(* What a step does to the transactions of the other handlers. *)

(* A step of one handler leaves the others' transactions alone, and only a  *)
(* handler that finds the lock free takes it.                               *)
Steps(w) ==
  \/ \E p \in Profiles : BuildRead(w, p) \/ ActivateRead(w, p)
  \/ BuildLocked(w) \/ CommitBuild(w) \/ ActivateLocked(w) \/ CommitActivate(w)

LEMMA StepOfOne ==
  ASSUME TypeOK, NEW w \in Workers, Steps(w)
  PROVE  /\ \A v \in Workers \ {w} : txns'[v] = txns[v]
         /\ txns'[w].stage = "locked" =>
              /\ LockFree(txns[w].profile)
              /\ txns'[w].profile = txns[w].profile
              /\ txns'[w].op = txns[w].op
              /\ UNCHANGED profiles
<1>1. CASE \E p \in Profiles : BuildRead(w, p) \/ ActivateRead(w, p)
  BY <1>1 DEF TypeOK, BuildRead, ActivateRead
<1>2. CASE BuildLocked(w)
  <2>1. txns[w] \in BuildTxn
    BY <1>2, TransactionKinds DEF TypeOK, BuildLocked, Transaction
  <2>2. CASE txns' = [txns EXCEPT ![w] = Idle]
    BY <1>2, <2>2 DEF TypeOK, BuildLocked, Idle
  <2>3. ASSUME NEW n, txns' = [txns EXCEPT ![w].stage = "locked", ![w].version = n]
        PROVE  /\ \A v \in Workers \ {w} : txns'[v] = txns[v]
               /\ txns'[w].profile = txns[w].profile
               /\ txns'[w].op = txns[w].op
    BY <2>1, <2>3 DEF TypeOK, BuildTxn
  <2>4. QED
    BY <1>2, <2>2, <2>3 DEF BuildLocked
<1>3. CASE ActivateLocked(w)
  <2>1. txns[w] \in ActivateTxn
    BY <1>3, TransactionKinds DEF TypeOK, ActivateLocked, Transaction
  <2>2. QED
    BY <1>3, <2>1 DEF TypeOK, ActivateLocked, ActivateTxn
<1>4. CASE CommitBuild(w) \/ CommitActivate(w)
  <2>1. txns' = [txns EXCEPT ![w] = Idle]
    BY <1>4 DEF CommitBuild, CommitActivate
  <2>2. QED
    BY <2>1 DEF TypeOK, Idle
<1>5. QED
  BY <1>1, <1>2, <1>3, <1>4 DEF Steps

LEMMA NextCases ==
  ASSUME [Next]_vars
  PROVE  (\E w \in Workers : Steps(w)) \/ RestartBackend \/ UNCHANGED vars
BY DEF Next, Steps

(* The lock of a digest keeps having one holder.                            *)
LEMMA ExclusiveStep ==
  ASSUME TypeOK, LockIsExclusive, [Next]_vars
  PROVE  LockIsExclusive'
<1>1. ASSUME NEW w \in Workers, Steps(w) PROVE LockIsExclusive'
  <2>1. ASSUME NEW v \in Workers, NEW u \in Workers,
               txns'[v].stage = "locked", txns'[u].stage = "locked",
               DigestOf[txns'[v].profile] = DigestOf[txns'[u].profile]
        PROVE  v = u
    BY <1>1, <2>1, StepOfOne DEF LockIsExclusive, LockFree
  <2>2. QED
    BY <2>1 DEF LockIsExclusive
<1>2. CASE RestartBackend
  BY <1>2 DEF RestartBackend, LockIsExclusive, Idle
<1>3. CASE UNCHANGED vars
  BY <1>3 DEF vars, LockIsExclusive
<1>4. QED
  BY <1>1, <1>2, <1>3, NextCases

-------------------------------------------------------------------------------
(* What the two commits do to the table. *)

(* A committed build changes one row, and makes no profile active.          *)
LEMMA BuildEffect ==
  ASSUME TypeOK, NEW w \in Workers, CommitBuild(w)
  PROVE  /\ txns[w].profile \in Profiles
         /\ \A p \in Profiles \ {txns[w].profile} : profiles'[p] = profiles[p]
         /\ \A p \in Profiles : Active(p)' <=> Active(p)
<1> DEFINE t == txns[w]
<1>1. t \in BuildTxn /\ t.profile \in Profiles
  BY TransactionKinds DEF TypeOK, CommitBuild, Transaction, BuildTxn
<1>2. CASE BuildConflict(t)
  BY <1>1, <1>2 DEF CommitBuild, Active
<1>3. CASE ~BuildConflict(t)
  <2> DEFINE row == [AbsentProfile EXCEPT !.status = "draft", !.version = t.version]
  <2>1. row.status = "draft"
    BY DEF AbsentProfile
  <2> HIDE DEF row
  <2>2. profiles' = [profiles EXCEPT ![t.profile] = row]
    BY <1>3 DEF CommitBuild, row
  <2>3. ~Present(t.profile)
    BY <1>3 DEF BuildConflict
  <2>4. QED
    BY <1>1, <2>1, <2>2, <2>3 DEF TypeOK, Active, Present
<1>4. QED
  BY <1>2, <1>3

(* A committed activation changes rows of its digest only; unless it was    *)
(* refused, its profile ends active and the profiles it retires do not.     *)
LEMMA ActivationEffect ==
  ASSUME TypeOK, LockSerialises, NEW w \in Workers, CommitActivate(w)
  PROVE  LET t == txns[w] IN
         /\ t.profile \in Profiles
         /\ \A p \in Profiles :
              p # t.profile /\ p \notin Siblings(t.profile) => profiles'[p] = profiles[p]
         /\ profiles'[t.profile].status = "active"
         /\ \A q \in Siblings(t.profile) : profiles'[q].status # "active"
<1> DEFINE t == txns[w]
<1>1. t \in ActivateTxn /\ t.profile \in Profiles
  BY TransactionKinds DEF TypeOK, CommitActivate, Transaction, ActivateTxn
<1>2. t.retiring = {q \in Siblings(t.profile) : Active(q)}
  BY DEF CommitActivate, LockSerialises
<1>3. ~ActivateConflict(t)
  BY <1>2 DEF ActivateConflict
<1>4. profiles' = [p \in Profiles |->
                     IF p = t.profile THEN [profiles[p] EXCEPT !.status = "active"]
                     ELSE IF p \in t.retiring THEN Retired(profiles[p])
                     ELSE profiles[p]]
  BY <1>3 DEF CommitActivate
<1>5. \A p \in Profiles : /\ [profiles[p] EXCEPT !.status = "active"].status = "active"
                          /\ Retired(profiles[p]).status = "retired"
  BY DEF TypeOK, ProfileRow, Retired
<1>6. t.profile \notin Siblings(t.profile) /\ Siblings(t.profile) \subseteq Profiles
  BY DEF Siblings
<1> HIDE DEF t
<1>7. profiles'[t.profile].status = "active"
  BY <1>1, <1>4, <1>5
<1>8. \A q \in Siblings(t.profile) : profiles'[q].status # "active"
  <2>1. ASSUME NEW q \in Siblings(t.profile) PROVE profiles'[q].status # "active"
    <3>1. CASE q \in t.retiring
      BY <1>4, <1>5, <1>6, <2>1, <3>1
    <3>2. CASE q \notin t.retiring
      BY <1>2, <1>4, <1>6, <2>1, <3>2 DEF Active
    <3>3. QED
      BY <3>1, <3>2
  <2>2. QED
    BY <2>1
<1>9. \A p \in Profiles :
        p # t.profile /\ p \notin Siblings(t.profile) => profiles'[p] = profiles[p]
  BY <1>2, <1>4
<1>10. QED
  BY <1>1, <1>7, <1>8, <1>9 DEF t

(* At most one profile of a digest is active after any step.                *)
LEMMA OneActiveStep ==
  ASSUME Inductive, [Next]_vars
  PROVE  OneActiveProfile'
<1> USE DEF Inductive
<1>1. ASSUME NEW w \in Workers, CommitBuild(w) PROVE OneActiveProfile'
  <2>1. \A p \in Profiles : Active(p)' <=> Active(p)
    BY <1>1, BuildEffect
  <2>2. QED
    BY <2>1 DEF OneActiveProfile
<1>2. ASSUME NEW w \in Workers, CommitActivate(w) PROVE OneActiveProfile'
  <2>1. PICK x \in Profiles :
          /\ \A p \in Profiles : p # x /\ p \notin Siblings(x) => profiles'[p] = profiles[p]
          /\ \A q \in Siblings(x) : profiles'[q].status # "active"
    BY <1>2, ActivationEffect
  <2>2. ASSUME NEW p \in Profiles, NEW q \in Profiles, Active(p)', Active(q)',
               DigestOf[p] = DigestOf[q]
        PROVE  p = q
    <3>1. p \notin Siblings(x) /\ q \notin Siblings(x)
      BY <2>1, <2>2 DEF Active
    <3>2. CASE p = x \/ q = x
      BY <2>2, <3>1, <3>2 DEF Siblings
    <3>3. CASE p # x /\ q # x
      BY <2>1, <2>2, <3>1, <3>3 DEF Active, OneActiveProfile
    <3>4. QED
      BY <3>2, <3>3
  <2>3. QED
    BY <2>2 DEF OneActiveProfile
<1>3. CASE UNCHANGED profiles
  BY <1>3 DEF OneActiveProfile, Active
<1>4. QED
  BY <1>1, <1>2, <1>3, NextCases
     DEF Steps, BuildRead, ActivateRead, BuildLocked, ActivateLocked, RestartBackend, vars

-------------------------------------------------------------------------------
(* What was found under the lock stays so. *)

(* The truth of LockSerialises for one transaction.                         *)
StillSo(t) ==
  IF t.op = "build" THEN ~BuildConflict(t)
  ELSE t.retiring = {q \in Siblings(t.profile) : Active(q)}

(* It depends on the rows of the digest only.                               *)
LEMMA StillSoFrame ==
  ASSUME NEW t, t.profile \in Profiles, StillSo(t),
         \A q \in Profiles : DigestOf[q] = DigestOf[t.profile] => profiles'[q] = profiles[q]
  PROVE  StillSo(t)'
<1>1. \A q \in Siblings(t.profile) \union {t.profile} : profiles'[q] = profiles[q]
  BY DEF Siblings
<1>2. QED
  BY <1>1 DEF StillSo, BuildConflict, Present, Active

(* A step of one handler does not touch the digest another has locked.      *)
LEMMA OtherDigest ==
  ASSUME Inductive, NEW w \in Workers, Steps(w),
         NEW v \in Workers \ {w}, txns[v].stage = "locked",
         NEW q \in Profiles, DigestOf[q] = DigestOf[txns[v].profile]
  PROVE  profiles'[q] = profiles[q]
<1> USE DEF Inductive
<1>1. CASE CommitBuild(w)
  <2>1. DigestOf[txns[w].profile] # DigestOf[q]
    BY <1>1 DEF LockIsExclusive, CommitBuild
  <2>2. QED
    BY <1>1, <2>1, BuildEffect
<1>2. CASE CommitActivate(w)
  <2>1. DigestOf[txns[w].profile] # DigestOf[q]
    BY <1>2 DEF LockIsExclusive, CommitActivate
  <2>2. q # txns[w].profile /\ q \notin Siblings(txns[w].profile)
    BY <2>1 DEF Siblings
  <2>3. QED
    BY <1>2, <2>2, ActivationEffect
<1>3. CASE UNCHANGED profiles
  BY <1>3
<1>4. QED
  BY <1>1, <1>2, <1>3 DEF Steps, BuildRead, ActivateRead, BuildLocked, ActivateLocked

(* What a handler finds when it gets the lock is so.                        *)
LEMMA FoundUnderLock ==
  ASSUME TypeOK, NEW w \in Workers, Steps(w), txns'[w].stage = "locked",
         NEW t, t = txns'[w]
  PROVE  StillSo(t)'
<1>1. CASE \E p \in Profiles : BuildRead(w, p) \/ ActivateRead(w, p)
  BY <1>1 DEF TypeOK, BuildRead, ActivateRead
<1>2. CASE BuildLocked(w)
  <2>1. txns[w] \in BuildTxn /\ txns[w].profile \in Profiles
    BY <1>2, TransactionKinds DEF TypeOK, BuildLocked, Transaction, BuildTxn
  <2>2. txns' # [txns EXCEPT ![w] = Idle]
    BY DEF TypeOK, Idle
  <2>3. PICK n : /\ IsNextVersion(txns[w].profile, n)
                 /\ txns' = [txns EXCEPT ![w].stage = "locked", ![w].version = n]
                 /\ ~Present(txns[w].profile)
    BY <1>2, <2>2 DEF BuildLocked
  <2>4. t.op = "build" /\ t.profile = txns[w].profile /\ t.version = n
    BY <2>1, <2>3 DEF TypeOK, BuildTxn
  <2>5. \A q \in Siblings(t.profile) : profiles[q].version # n
    BY <2>1, <2>3, <2>4, NextVersion
  <2>6. UNCHANGED profiles
    BY <1>2 DEF BuildLocked
  <2>7. ~Present(t.profile)
    BY <2>3, <2>4
  <2>8. ~BuildConflict(t)
    BY <2>4, <2>5, <2>7 DEF BuildConflict
  <2>9. StillSo(t)
    BY <2>4, <2>8 DEF StillSo
  <2>10. t.profile \in Profiles
    BY <2>1, <2>4
  <2>11. QED
    BY <2>6, <2>9, <2>10, StillSoFrame
<1>3. CASE ActivateLocked(w)
  <2>1. txns[w] \in ActivateTxn /\ txns[w].profile \in Profiles
    BY <1>3, TransactionKinds DEF TypeOK, ActivateLocked, Transaction, ActivateTxn
  <2>2. /\ t.op = "activate" /\ t.profile = txns[w].profile
        /\ t.retiring = {q \in Siblings(txns[w].profile) : Active(q)}
    BY <1>3, <2>1 DEF TypeOK, ActivateLocked, ActivateTxn
  <2>3. StillSo(t) /\ t.profile \in Profiles
    BY <2>1, <2>2 DEF StillSo
  <2>4. UNCHANGED profiles
    BY <1>3 DEF ActivateLocked
  <2>5. QED
    BY <2>3, <2>4, StillSoFrame
<1>4. CASE CommitBuild(w) \/ CommitActivate(w)
  BY <1>4 DEF TypeOK, CommitBuild, CommitActivate, Idle
<1>5. QED
  BY <1>1, <1>2, <1>3, <1>4 DEF Steps

LEMMA SerialisesStep ==
  ASSUME Inductive, [Next]_vars
  PROVE  LockSerialises'
<1> USE DEF Inductive
<1>1. ASSUME NEW w \in Workers, Steps(w) PROVE LockSerialises'
  <2>1. ASSUME NEW v \in Workers, txns'[v].stage = "locked",
               NEW t, t = txns'[v]
        PROVE  StillSo(t)'
    <3>1. CASE v = w
      BY <1>1, <2>1, <3>1, FoundUnderLock
    <3>2. CASE v # w
      <4>1. txns'[v] = txns[v]
        BY <1>1, <3>2, StepOfOne
      <4>2. StillSo(t)
        BY <2>1, <4>1 DEF LockSerialises, StillSo
      <4>3. t.profile \in Profiles
        BY <2>1, <4>1, TransactionKinds DEF TypeOK, Transaction
      <4>4. \A q \in Profiles : DigestOf[q] = DigestOf[t.profile] => profiles'[q] = profiles[q]
        BY <1>1, <2>1, <3>2, <4>1, OtherDigest
      <4>5. QED
        BY <4>2, <4>3, <4>4, StillSoFrame
    <3>3. QED
      BY <3>1, <3>2
  <2>2. QED
    BY <2>1 DEF LockSerialises, StillSo
<1>2. CASE RestartBackend
  BY <1>2 DEF RestartBackend, LockSerialises, Idle
<1>3. CASE UNCHANGED vars
  BY <1>3 DEF vars, LockSerialises, BuildConflict, Present, Active
<1>4. QED
  BY <1>1, <1>2, <1>3, NextCases

-------------------------------------------------------------------------------
(* The theorems. *)

LEMMA InductiveInit == Init => Inductive
<1>1. ASSUME Init PROVE TypeOK
  BY <1>1 DEF Init, TypeOK, AbsentProfile, ProfileRow
<1>2. ASSUME Init PROVE OneActiveProfile /\ LockSerialises /\ LockIsExclusive
  BY <1>2 DEF Init, OneActiveProfile, Active, AbsentProfile, LockSerialises,
              LockIsExclusive, Idle
<1>3. QED
  BY <1>1, <1>2 DEF Inductive

(* One lock holder per digest, whose findings stay true, and one active     *)
(* profile per digest: together they are inductive.                         *)
THEOREM InductiveInvariant == Spec => []Inductive
<1>1. Inductive /\ [Next]_vars => Inductive'
  BY TypeStep, OneActiveStep, SerialisesStep, ExclusiveStep DEF Inductive
<1>2. QED
  BY <1>1, InductiveInit, PTL DEF Spec

(* What a handler found under the advisory lock is still so when it         *)
(* commits: versions never collide, no activation is refused by the table.  *)
THEOREM DecisionsAreSerialised == Spec => []LockSerialises
<1>1. Inductive => LockSerialises
  BY DEF Inductive
<1>2. QED
  BY <1>1, InductiveInvariant, PTL

(* A digest has at most one active profile.                                 *)
THEOREM ActiveProfileIsUnique == Spec => []OneActiveProfile
<1>1. Inductive => OneActiveProfile
  BY DEF Inductive
<1>2. QED
  BY <1>1, InductiveInvariant, PTL

(* A digest that has an active profile never loses it without another one   *)
(* becoming active in the same commit.                                      *)
THEOREM ActiveIsReplaced == Spec => ActiveProfileRemains
<1> DEFINE Remains == \A p \in Profiles :
             Active(p) => \E q \in Siblings(p) \union {p} : Active(q)'
<1>1. ASSUME Inductive, [Next]_vars PROVE Remains
  <2>1. ASSUME NEW w \in Workers, CommitBuild(w) PROVE Remains
    BY <1>1, <2>1, BuildEffect DEF Inductive
  <2>2. ASSUME NEW w \in Workers, CommitActivate(w) PROVE Remains
    <3>1. PICK x \in Profiles :
            /\ \A p \in Profiles : p # x /\ p \notin Siblings(x) => profiles'[p] = profiles[p]
            /\ profiles'[x].status = "active"
      BY <1>1, <2>2, ActivationEffect DEF Inductive
    <3>2. ASSUME NEW p \in Profiles, Active(p)
          PROVE  \E q \in Siblings(p) \union {p} : Active(q)'
      <4>1. CASE p = x \/ p \in Siblings(x)
        <5>1. x \in Siblings(p) \union {p}
          BY <4>1 DEF Siblings
        <5>2. QED
          BY <3>1, <5>1 DEF Active
      <4>2. CASE p # x /\ p \notin Siblings(x)
        BY <3>1, <3>2, <4>2 DEF Active
      <4>3. QED
        BY <4>1, <4>2
    <3>3. QED
      BY <3>2
  <2>3. CASE UNCHANGED profiles
    BY <2>3 DEF Active
  <2>4. QED
    BY <1>1, <2>1, <2>2, <2>3, NextCases
       DEF Steps, BuildRead, ActivateRead, BuildLocked, ActivateLocked, RestartBackend, vars
<1>2. Inductive /\ [Next]_vars => [Remains]_vars
  BY <1>1
<1>3. QED
  BY <1>2, InductiveInvariant, PTL DEF Spec, ActiveProfileRemains

-------------------------------------------------------------------------------
(* Calibration. *)

(* A rating is a rating, whatever becomes of the request.                   *)
LEMMA RatedType ==
  ASSUME NEW m \in Model, NEW run \in Runs, NEW context \in Contexts, NEW statistic \in Claimed
  PROVE  /\ Rated(m, run, context, statistic) \in Rating
         /\ Rated(m, run, context, statistic).model = m
         /\ Rated(m, run, context, statistic).run = run
<1>1. m.calibration \subseteq Runs
  BY DEF Model
<1>2. IsFiniteSet(m.calibration) /\ IsFiniteSet(Exceedances(m, statistic))
  BY <1>1, CalibrationAssumption, FS_Subset DEF CalibrationAssumption, Exceedances
<1>3. Cardinality(m.calibration) \in Nat /\ 1 + Cardinality(Exceedances(m, statistic)) \in Nat
  BY <1>2, FS_CardinalityType
<1>4. QED
  BY <1>3 DEF Rated, Rating

(* What a request keeps to insert is of the kind its table says.            *)
LEMMA InsertionKinds ==
  ASSUME NEW i \in Insertion
  PROVE  /\ i # NoRow => i.row.by \in Callers
         /\ i.table = "models" => i.row \in Row(Model)
         /\ i.table = "ratings" => i.row \in Row(Rating)
BY DEF Insertion, NoRow, Row

(* The split was valid when it was asked for.                               *)
CallsAreChecked ==
  \A c \in Callers : calls[c].table = "models" => ValidSplit(calls[c].row.content)

IInv == CalibrationTypeOK /\ OneRowPerKey /\ CallsAreChecked

LEMMA InitEstablishesIInv == CalibrationInit => IInv
BY DEF CalibrationInit, IInv, CalibrationTypeOK, OneRowPerKey, CallsAreChecked,
       Contents, Insertion, NoRow

(* Commits keep what a table holds and add at most the row of the request.  *)
LEMMA InsertedRows ==
  ASSUME NEW table, NEW row
  PROVE  /\ table \subseteq Inserted(table, row)
         /\ Inserted(table, row) \subseteq table \union {row}
         /\ Contents(table) \subseteq Contents(Inserted(table, row))
         /\ (\A r, s \in table : r.content = s.content => r = s)
              => \A r, s \in Inserted(table, row) : r.content = s.content => r = s
BY DEF Inserted, Contents

LEMMA RequestModelStep ==
  ASSUME IInv, NEW c \in Callers, RequestModel(c)
  PROVE  IInv'
<1>1. PICK m \in Model : ValidSplit(m) /\ Insert(c, "models", m)
  BY DEF RequestModel
<1> DEFINE i == [table |-> "models", row |-> [content |-> m, by |-> c]]
<1>2. i \in Insertion
  BY DEF Insertion, Row
<1>3. calls' = [calls EXCEPT ![c] = i] /\ UNCHANGED <<models, ratings>>
  BY <1>1 DEF Insert
<1>4. CalibrationTypeOK'
  BY <1>2, <1>3 DEF IInv, CalibrationTypeOK, Contents
<1>5. CallsAreChecked'
  BY <1>1, <1>3 DEF IInv, CalibrationTypeOK, CallsAreChecked, Contents, ValidSplit, EnoughRuns
<1>6. QED
  BY <1>3, <1>4, <1>5 DEF IInv, OneRowPerKey, Contents

LEMMA RequestRatingStep ==
  ASSUME IInv, NEW c \in Callers, RequestRating(c)
  PROVE  IInv'
<1>1. PICK m \in Contents(models), run \in Runs, context \in Contexts, statistic \in Claimed :
         Insert(c, "ratings", Rated(m, run, context, statistic))
  BY DEF RequestRating
<1>2. m \in Model
  BY DEF IInv, CalibrationTypeOK, Contents, Row
<1> DEFINE rating == Rated(m, run, context, statistic)
           i == [table |-> "ratings", row |-> [content |-> rating, by |-> c]]
<1>3. rating \in Rating /\ rating.model = m /\ rating.run = run
  BY <1>2, RatedType
<1> HIDE DEF rating
<1>4. i \in Insertion
  BY <1>3 DEF Insertion, Row
<1>5. calls' = [calls EXCEPT ![c] = i] /\ UNCHANGED <<models, ratings>>
  BY <1>1 DEF Insert, rating
<1>6. CalibrationTypeOK'
  BY <1>4, <1>5 DEF IInv, CalibrationTypeOK, Contents
<1>7. CallsAreChecked'
  BY <1>1, <1>3, <1>5 DEF IInv, CalibrationTypeOK, CallsAreChecked, Contents, ValidSplit,
     EnoughRuns
<1>8. QED
  BY <1>5, <1>6, <1>7 DEF IInv, OneRowPerKey, Contents

LEMMA CommitStep ==
  ASSUME IInv, NEW c \in Callers, Commit(c)
  PROVE  IInv'
<1> DEFINE i == calls[c]
<1>1. i \in Insertion /\ i # NoRow
  BY DEF IInv, CalibrationTypeOK, Commit
<1>2. calls' = [calls EXCEPT ![c] = NoRow] /\ NoRow \in Insertion /\ NoRow.table = "none"
  BY DEF Commit, Insertion, NoRow
<1>3. /\ models \subseteq models' /\ Contents(models) \subseteq Contents(models')
      /\ ratings \subseteq ratings'
  BY InsertedRows DEF Commit
<1>4. OneRowPerKey'
  BY InsertedRows DEF Commit, IInv, OneRowPerKey
<1>5. \A r \in models' : r \in models \/ (i.table = "models" /\ r = i.row)
  BY InsertedRows DEF Commit
<1>6. \A r \in ratings' : r \in ratings \/ (i.table = "ratings" /\ r = i.row)
  BY InsertedRows DEF Commit
<1>7. CalibrationTypeOK'
  <2>1. calls' \in [Callers -> Insertion]
    BY <1>2 DEF IInv, CalibrationTypeOK
  <2>2. models' \subseteq Row(Model)
    BY <1>1, <1>5, InsertionKinds DEF IInv, CalibrationTypeOK
  <2>3. ratings' \subseteq Row(Rating)
    BY <1>1, <1>6, InsertionKinds DEF IInv, CalibrationTypeOK
  <2>4. \A m \in Contents(models') : m.fit \intersect m.calibration = {} /\ EnoughRuns(m)
    BY <1>5 DEF IInv, CalibrationTypeOK, CallsAreChecked, ValidSplit, Contents, EnoughRuns
  <2>5. QED
    BY <2>1, <2>2, <2>3, <2>4 DEF CalibrationTypeOK, Contents, EnoughRuns
<1>8. CallsAreChecked'
  BY <1>2, <1>3 DEF IInv, CalibrationTypeOK, CallsAreChecked, ValidSplit, EnoughRuns
<1>9. QED
  BY <1>4, <1>7, <1>8 DEF IInv

LEMMA DropStep ==
  ASSUME IInv, NEW c \in Callers, Drop(c)
  PROVE  IInv'
<1>1. NoRow \in Insertion /\ NoRow.table = "none"
  BY DEF Insertion, NoRow
<1>2. calls' = [calls EXCEPT ![c] = NoRow] /\ UNCHANGED <<models, ratings>>
  BY DEF Drop
<1>3. CalibrationTypeOK' /\ CallsAreChecked'
  BY <1>1, <1>2 DEF IInv, CalibrationTypeOK, CallsAreChecked, Contents, ValidSplit, EnoughRuns
<1>4. QED
  BY <1>2, <1>3 DEF IInv, OneRowPerKey, Contents

LEMMA IInvStep == IInv /\ [CalibrationNext]_calibrationVars => IInv'
<1> SUFFICES ASSUME IInv, [CalibrationNext]_calibrationVars PROVE IInv'
  OBVIOUS
<1>1. CASE CalibrationNext
  BY <1>1, RequestModelStep, RequestRatingStep, CommitStep, DropStep DEF CalibrationNext
<1>2. CASE UNCHANGED calibrationVars
  BY <1>2 DEF calibrationVars, IInv, CalibrationTypeOK, OneRowPerKey,
     CallsAreChecked, Contents, ValidSplit, EnoughRuns
<1>3. QED
  BY <1>1, <1>2

LEMMA SpecIInv == CalibrationSpec => []IInv
BY InitEstablishesIInv, IInvStep, PTL DEF CalibrationSpec

(* The stored models keep their split and their minimum of runs, the rows   *)
(* and the requests their types, whatever requests overlap.                 *)
THEOREM CalibrationTypeCorrect == CalibrationSpec => []CalibrationTypeOK
<1>1. IInv => CalibrationTypeOK
  BY DEF IInv
<1>2. QED
  BY SpecIInv, <1>1, PTL

(* Concurrent identical requests end in one row, for any number of callers. *)
THEOREM KeysAreUnique == CalibrationSpec => []OneRowPerKey
<1>1. IInv => OneRowPerKey
  BY DEF IInv
<1>2. QED
  BY SpecIInv, <1>1, PTL

-------------------------------------------------------------------------------
(* Conservative p-values. *)

(* A finite set of numbers has a least one.                                 *)
LEMMA LeastOne ==
  ASSUME NEW S, IsFiniteSet(S), S # {}, NEW f, \A x \in S : f[x] \in Nat
  PROVE  \E x \in S : \A y \in S : f[x] <= f[y]
<1> DEFINE Above(x) == {y \in S : f[y] < f[x]}
           Bad == {T \in SUBSET S : \E x \in S : T = Above(x)}
<1>1. PICK x \in S : TRUE
  OBVIOUS
<1>2. Above(x) \in Bad
  BY <1>1
<1>3. Bad \subseteq SUBSET S /\ Bad # {}
  BY <1>2
<1> HIDE DEF Bad
<1>4. IsWellFoundedOn(StrictSubsetOrdering(S), FiniteSubsetsOf(S))
      /\ FiniteSubsetsOf(S) = SUBSET S
  BY FS_StrictSubsetOrderingWellFounded, FS_FiniteSubsetsOfFinite
<1>5. PICK T \in Bad : \A U \in Bad : <<U, T>> \notin StrictSubsetOrdering(S)
  BY <1>3, <1>4, WFMin
<1>6. PICK z \in S : T = Above(z)
  BY <1>5 DEF Bad
<1>7. ASSUME NEW y \in S, f[y] < f[z] PROVE FALSE
  <2>1. Above(y) \in Bad /\ T \in SUBSET S /\ Above(y) \in SUBSET S
    BY <1>7, <1>3, <1>5 DEF Bad
  <2>2. Above(y) \subseteq T /\ Above(y) # T
    BY <1>6, <1>7
  <2>3. <<Above(y), T>> \in StrictSubsetOrdering(S)
    BY <2>1, <2>2 DEF StrictSubsetOrdering
  <2>4. QED
    BY <1>5, <2>1, <2>3
<1>8. \A y \in S : f[z] <= f[y]
  BY <1>7
<1>9. QED
  BY <1>8

(* Every rating is what the request computed.                               *)
AsRated(r) == r = Rated(r.model, r.run, r.context, r.statistic)

RatingsAsRated ==
  /\ \A r \in Contents(ratings) : AsRated(r)
  /\ \A c \in Callers : calls[c].table = "ratings" => AsRated(calls[c].row.content)

LEMMA RatedAsRated ==
  ASSUME NEW m, NEW run, NEW context, NEW statistic
  PROVE  AsRated(Rated(m, run, context, statistic))
<1> DEFINE r == Rated(m, run, context, statistic)
<1>1. r.model = m /\ r.run = run /\ r.context = context /\ r.statistic = statistic
  BY DEF Rated
<1>2. QED
  BY <1>1 DEF AsRated

LEMMA RatedStep ==
  ASSUME IInv, RatingsAsRated, [CalibrationNext]_calibrationVars
  PROVE  RatingsAsRated'
<1>0. calls \in [Callers -> Insertion]
  BY DEF IInv, CalibrationTypeOK
<1>1. ASSUME NEW c \in Callers, RequestModel(c) PROVE RatingsAsRated'
  <2>1. PICK m : /\ ratings' = ratings
                 /\ calls' = [calls EXCEPT ![c] =
                                [table |-> "models", row |-> [content |-> m, by |-> c]]]
    BY <1>1 DEF RequestModel, Insert
  <2>2. ASSUME NEW d \in Callers, calls'[d].table = "ratings"
        PROVE  AsRated(calls'[d].row.content)
    BY <1>0, <2>1, <2>2 DEF RatingsAsRated
  <2>3. QED
    BY <2>1, <2>2 DEF RatingsAsRated, Contents, AsRated, Rated, Exceedances
<1>2. ASSUME NEW c \in Callers, RequestRating(c) PROVE RatingsAsRated'
  <2>1. PICK m, run, context, statistic : Insert(c, "ratings", Rated(m, run, context, statistic))
    BY <1>2 DEF RequestRating
  <2> DEFINE rating == Rated(m, run, context, statistic)
  <2>2. AsRated(rating)
    BY RatedAsRated
  <2> HIDE DEF rating
  <2>3. /\ ratings' = ratings
        /\ calls' = [calls EXCEPT ![c] =
                       [table |-> "ratings", row |-> [content |-> rating, by |-> c]]]
    BY <2>1 DEF Insert, rating
  <2>4. ASSUME NEW d \in Callers, calls'[d].table = "ratings"
        PROVE  AsRated(calls'[d].row.content)
    BY <1>0, <2>2, <2>3, <2>4 DEF RatingsAsRated
  <2>5. QED
    BY <2>3, <2>4 DEF RatingsAsRated, Contents, AsRated, Rated, Exceedances
<1>3. ASSUME NEW c \in Callers, Commit(c) PROVE RatingsAsRated'
  <2>1. \A r \in ratings' : r \in ratings \/ (calls[c].table = "ratings" /\ r = calls[c].row)
    BY <1>3, InsertedRows DEF Commit
  <2>2. \A r \in Contents(ratings') : AsRated(r)
    BY <2>1 DEF RatingsAsRated, Contents
  <2>3. \A d \in Callers : calls'[d].table = "ratings" => AsRated(calls'[d].row.content)
    BY <1>0, <1>3 DEF Commit, RatingsAsRated, NoRow
  <2>4. QED
    BY <2>2, <2>3 DEF RatingsAsRated, Contents, AsRated, Rated, Exceedances
<1>4. ASSUME NEW c \in Callers, Drop(c) PROVE RatingsAsRated'
  <2>1. \A d \in Callers : calls'[d].table = "ratings" => AsRated(calls'[d].row.content)
    BY <1>0, <1>4 DEF Drop, RatingsAsRated, NoRow
  <2>2. ratings' = ratings
    BY <1>4 DEF Drop
  <2>3. QED
    BY <2>1, <2>2 DEF RatingsAsRated, Contents, AsRated, Rated, Exceedances
<1>5. CASE UNCHANGED calibrationVars
  BY <1>5 DEF calibrationVars, RatingsAsRated, Contents, AsRated, Rated, Exceedances
<1>6. QED
  BY <1>1, <1>2, <1>3, <1>4, <1>5 DEF CalibrationNext

(* Of the runs with a low p-value the one with the least statistic has all  *)
(* the others among its exceedances: they are no more than its rank.        *)
LEMMA LowRanksAreFew ==
  ASSUME CalibrationAssumption, RatingsAsRated, NEW all \in SUBSET Runs, NEW k \in Nat
  PROVE  Cardinality({run \in all :
           \E r \in Contents(ratings) :
             /\ r.run = run /\ r.status = "scored"
             /\ r.statistic = StatisticOf[run]
             /\ r.model.calibration = all \ {run}
             /\ r.tail <= k}) <= k
<1> DEFINE Low == {run \in all :
             \E r \in Contents(ratings) :
               /\ r.run = run /\ r.status = "scored"
               /\ r.statistic = StatisticOf[run]
               /\ r.model.calibration = all \ {run}
               /\ r.tail <= k}
           Above(run) == {q \in all \ {run} : StatisticOf[q] >= StatisticOf[run]}
<1>1. IsFiniteSet(all) /\ IsFiniteSet(Low) /\ \A q \in Runs : StatisticOf[q] \in Nat
  <2>1. Low \in SUBSET all
    OBVIOUS
  <2>2. IsFiniteSet(all)
    BY FS_Subset DEF CalibrationAssumption
  <2>3. IsFiniteSet(Low)
    BY <2>1, <2>2, FS_Subset
  <2>4. QED
    BY <2>2, <2>3 DEF CalibrationAssumption
<1>2. ASSUME NEW run \in Low PROVE 1 + Cardinality(Above(run)) <= k
  <2>1. PICK r \in Contents(ratings) :
          /\ r.status = "scored" /\ r.statistic = StatisticOf[run]
          /\ r.model.calibration = all \ {run} /\ r.tail <= k
    BY <1>2
  <2>2. r = Rated(r.model, r.run, r.context, r.statistic)
    BY DEF RatingsAsRated, AsRated
  <2>3. r.tail = 1 + Cardinality(Exceedances(r.model, r.statistic))
    BY <2>1, <2>2 DEF Rated
  <2>4. Exceedances(r.model, r.statistic) = Above(run)
    BY <2>1 DEF Exceedances
  <2>5. QED
    BY <2>1, <2>3, <2>4
<1> HIDE DEF Low
<1>3. CASE Low = {}
  <2>1. Cardinality(Low) = 0
    BY <1>3, FS_EmptySet
  <2>2. QED
    BY <2>1 DEF Low
<1>4. CASE Low # {}
  <2>1. PICK x \in Low : \A y \in Low : StatisticOf[x] <= StatisticOf[y]
    <3>1. \A y \in Low : StatisticOf[y] \in Nat
      BY <1>1 DEF Low
    <3>2. QED
      BY <1>1, <1>4, <3>1, LeastOne
  <2>2. x \in all /\ Low \subseteq Above(x) \union {x}
    BY <1>1, <2>1 DEF Low
  <2> DEFINE A == Above(x)
  <2>3. A \in SUBSET all /\ x \notin A
    OBVIOUS
  <2> HIDE DEF A
  <2>4. IsFiniteSet(A) /\ Cardinality(A) \in Nat
    BY <1>1, <2>3, FS_Subset, FS_CardinalityType
  <2>5. IsFiniteSet(A \union {x}) /\ Cardinality(A \union {x}) = Cardinality(A) + 1
    BY <2>3, <2>4, FS_AddElement
  <2>6. Low \in SUBSET (A \union {x})
    BY <2>2 DEF A
  <2>7. Cardinality(Low) <= Cardinality(A \union {x}) /\ Cardinality(Low) \in Nat
    BY <1>1, <2>5, <2>6, FS_Subset, FS_CardinalityType
  <2>8. 1 + Cardinality(A) <= k
    BY <1>2, <2>1 DEF A
  <2>9. Cardinality(Low) <= k
    BY <2>4, <2>5, <2>7, <2>8
  <2>10. QED
    BY <2>9 DEF Low
<1>5. QED
  BY <1>3, <1>4

(* "Ties count against the test": ranked each against all the others, at    *)
(* most k of the runs get one of the k lowest p-values, whatever they and   *)
(* their statistics are.                                                    *)
THEOREM PValuesAreConservative == CalibrationSpec => []PValueIsConservative
<1>1. CalibrationInit => RatingsAsRated
  BY DEF CalibrationInit, RatingsAsRated, Contents, NoRow
<1>2. IInv /\ RatingsAsRated /\ [CalibrationNext]_calibrationVars => RatingsAsRated'
  BY RatedStep
<1>3. RatingsAsRated => PValueIsConservative
  <2> SUFFICES ASSUME RatingsAsRated, NEW all \in SUBSET Runs, NEW k \in 1..Cardinality(all)
               PROVE  Cardinality({run \in all :
                        \E r \in Contents(ratings) :
                          /\ r.run = run /\ r.status = "scored"
                          /\ r.statistic = StatisticOf[run]
                          /\ r.model.calibration = all \ {run}
                          /\ r.tail <= k}) <= k
    BY DEF PValueIsConservative
  <2>1. k \in Nat
    <3>1. IsFiniteSet(all)
      BY CalibrationAssumption, FS_Subset DEF CalibrationAssumption
    <3>2. Cardinality(all) \in Nat
      BY <3>1, FS_CardinalityType
    <3>3. QED
      BY <3>2
  <2>2. QED
    BY <2>1, CalibrationAssumption, LowRanksAreFew
<1>4. QED
  BY <1>1, <1>2, <1>3, SpecIInv, PTL DEF CalibrationSpec

-------------------------------------------------------------------------------
(* Scores. *)

(* To the profiles, scoring is what BehaviorProfiles allows.                *)
LEMMA ScoringStepsAreProfileSteps ==
  ASSUME [ScoringNext]_scoringVars
  PROVE  [Next]_vars
BY DEF ScoringNext, Arrive, Expire, Build, Activate, Proceed, CountEvents, ListEvents, LockKey,
       CommitScore, Restart, Next, scoringVars, vars

THEOREM ScoringImplementsProfiles == ScoringSpec => Spec
<1>1. ScoringInit => Init
  BY DEF ScoringInit
<1>2. [ScoringNext]_scoringVars => [Next]_vars
  BY ScoringStepsAreProfileSteps
<1>3. QED
  BY <1>1, <1>2, PTL DEF ScoringSpec, Spec

(* A profile that exists was built from events of its training interval.    *)
TrainedInside(p) ==
  \A e \in TrainedOn[p] :
    EventOf[e].at >= TrainingStart[p] /\ EventOf[e].at < TrainingEnd[p]

(* Only a profile that passed its gates is, or is going to be, active.      *)
ProfilesSound ==
  /\ \A p \in Profiles : Present(p) => TrainedInside(p)
  /\ \A p \in Profiles : profiles[p].status \in {"active", "retired"} => p \in Passing
  /\ \A w \in Workers : txns[w] # Idle =>
       /\ txns[w].profile \in Profiles
       /\ TrainedInside(txns[w].profile)
       /\ txns[w].op = "activate" => txns[w].profile \in Passing

(* A request, or a score, asked of a usable profile for a window outside    *)
(* its training, rests on events of that window.                            *)
Asked(x) ==
  /\ x.profile \in Profiles \intersect Passing
  /\ profiles[x.profile].status \in {"active", "retired"}
  /\ x.start \in Windows
  /\ ~OverlapsTraining(x.profile, x.start)
  /\ \A e \in x.evidence :
       e \in Events /\ EventOf[e].at >= x.start /\ EventOf[e].at < WindowEnd(x.profile, x.start)

ScoresSound ==
  /\ requests \in [Scorers -> Request \union {NoRequest}]
  /\ ProfilesSound
  /\ \A c \in Scorers : requests[c] # NoRequest => Asked(requests[c])
  /\ \A s \in scores : Asked(s)

(* What the two commits make of a row.                                      *)
LEMMA RowAfter ==
  ASSUME Inductive, NEW w \in Workers, Steps(w), NEW p \in Profiles
  PROVE  \/ profiles'[p] = profiles[p]
         \/ p = txns[w].profile /\ txns[w].op = "build" /\ txns[w] # Idle
              /\ ~Present(p) /\ profiles'[p].status = "draft"
         \/ p = txns[w].profile /\ txns[w].op = "activate" /\ txns[w] # Idle
              /\ profiles'[p].status = "active"
         \/ Active(p) /\ profiles'[p].status = "retired"
<1> DEFINE t == txns[w]
<1> USE DEF Inductive
<1>1. CASE CommitBuild(w)
  <2>1. CASE BuildConflict(t)
    BY <1>1, <2>1 DEF CommitBuild
  <2>2. CASE ~BuildConflict(t)
    <3> DEFINE row == [AbsentProfile EXCEPT !.status = "draft", !.version = t.version]
    <3>1. row.status = "draft"
      BY DEF AbsentProfile
    <3> HIDE DEF row
    <3>2. profiles' = [profiles EXCEPT ![t.profile] = row] /\ ~Present(t.profile)
      BY <1>1, <2>2 DEF CommitBuild, row, BuildConflict
    <3>3. t # Idle /\ t.op = "build"
      BY <1>1 DEF CommitBuild, Idle
    <3>4. QED
      BY <3>1, <3>2, <3>3 DEF TypeOK
  <2>3. QED
    BY <2>1, <2>2
<1>2. CASE CommitActivate(w)
  <2>1. t.retiring = {q \in Siblings(t.profile) : Active(q)}
    BY <1>2 DEF CommitActivate, LockSerialises
  <2>2. ~ActivateConflict(t) /\ t # Idle /\ t.op = "activate"
    BY <1>2, <2>1 DEF ActivateConflict, CommitActivate, Idle
  <2>3. profiles'[p] = IF p = t.profile THEN [profiles[p] EXCEPT !.status = "active"]
                       ELSE IF p \in t.retiring THEN Retired(profiles[p])
                       ELSE profiles[p]
    BY <1>2, <2>2 DEF CommitActivate
  <2>4. /\ [profiles[p] EXCEPT !.status = "active"].status = "active"
        /\ Retired(profiles[p]).status = "retired"
    BY DEF TypeOK, ProfileRow, Retired
  <2>5. QED
    BY <2>1, <2>2, <2>3, <2>4
<1>3. CASE UNCHANGED profiles
  BY <1>3
<1>4. QED
  BY <1>1, <1>2, <1>3 DEF Steps, BuildRead, ActivateRead, BuildLocked, ActivateLocked

(* A transaction keeps what it is about until it ends.                      *)
LEMMA TxnAfter ==
  ASSUME TypeOK, NEW w \in Workers, Proceed(w), NEW v \in Workers, txns'[v] # Idle
  PROVE  /\ txns[v] # Idle
         /\ txns'[v].profile = txns[v].profile
         /\ txns'[v].op = txns[v].op
<1>1. Steps(w)
  BY DEF Proceed, Steps
<1>2. CASE v # w
  BY <1>1, <1>2, StepOfOne
<1>3. CASE v = w
  <2>1. txns' # [txns EXCEPT ![w] = Idle]
    BY <1>3 DEF TypeOK
  <2>2. BuildLocked(w) \/ ActivateLocked(w)
    BY <2>1 DEF Proceed, CommitBuild, CommitActivate
  <2>3. txns[w] # Idle
    BY <2>2 DEF BuildLocked, ActivateLocked, Idle
  <2>4. txns'[w].profile = txns[w].profile /\ txns'[w].op = txns[w].op
    <3>1. CASE BuildLocked(w)
      <4>1. txns[w] \in BuildTxn
        BY <3>1, TransactionKinds DEF TypeOK, BuildLocked, Transaction
      <4>2. PICK n : txns' = [txns EXCEPT ![w].stage = "locked", ![w].version = n]
        BY <2>1, <3>1 DEF BuildLocked
      <4>3. QED
        BY <4>1, <4>2 DEF TypeOK, BuildTxn
    <3>2. CASE ActivateLocked(w)
      <4>1. txns[w] \in ActivateTxn
        BY <3>2, TransactionKinds DEF TypeOK, ActivateLocked, Transaction
      <4>2. QED
        BY <3>2, <4>1 DEF TypeOK, ActivateLocked, ActivateTxn
    <3>3. QED
      BY <2>2, <3>1, <3>2
  <2>5. QED
    BY <1>3, <2>3, <2>4
<1>4. QED
  BY <1>2, <1>3

LEMMA ProfilesSoundStep ==
  ASSUME ScoringAssumption, Inductive, ProfilesSound, [ScoringNext]_scoringVars
  PROVE  /\ ProfilesSound'
         /\ \A p \in Profiles :
              profiles[p].status \in {"active", "retired"} =>
                profiles'[p].status \in {"active", "retired"}
<1>0. TypeOK
  BY DEF Inductive
<1>1. ASSUME UNCHANGED profiles, \A w \in Workers : txns'[w] = txns[w] \/ txns'[w] = Idle
      PROVE  ProfilesSound'
  BY <1>1 DEF ProfilesSound, Present, TrainedInside
<1>2. ASSUME NEW w \in Workers, NEW p \in Profiles, Build(w, p) PROVE ProfilesSound'
  <2>1. TrainedInside(p)
    BY <1>2 DEF Build, Selected, TrainedInside
  <2>2. /\ UNCHANGED profiles
        /\ txns' = [txns EXCEPT ![w] = [op |-> "build", profile |-> p, stage |-> "waiting",
                                        version |-> 0]]
    BY <1>2 DEF Build, BuildRead
  <2>3. QED
    BY <1>0, <2>1, <2>2 DEF ProfilesSound, Present, TrainedInside, TypeOK
<1>3. ASSUME NEW w \in Workers, NEW p \in Profiles, Activate(w, p) PROVE ProfilesSound'
  <2>1. p \in Passing /\ TrainedInside(p)
    BY <1>3 DEF Activate, ActivateRead, ProfilesSound, Present
  <2>2. /\ UNCHANGED profiles
        /\ txns' = [txns EXCEPT ![w] = [op |-> "activate", profile |-> p,
                                        stage |-> "waiting", retiring |-> {}]]
    BY <1>3 DEF Activate, ActivateRead
  <2>3. QED
    BY <1>0, <2>1, <2>2 DEF ProfilesSound, Present, TrainedInside, TypeOK
<1>4. ASSUME NEW w \in Workers, Proceed(w)
      PROVE  /\ ProfilesSound'
             /\ \A p \in Profiles :
                  profiles[p].status \in {"active", "retired"} =>
                    profiles'[p].status \in {"active", "retired"}
  <2>1. Steps(w)
    BY <1>4 DEF Proceed, Steps
  <2>2. ASSUME NEW p \in Profiles
        PROVE  /\ Present(p)' => TrainedInside(p)
               /\ profiles'[p].status \in {"active", "retired"} => p \in Passing
               /\ profiles[p].status \in {"active", "retired"} =>
                    profiles'[p].status \in {"active", "retired"}
    BY <2>1, RowAfter DEF ProfilesSound, Present, Active
  <2>3. \A v \in Workers : txns'[v] # Idle =>
          /\ txns'[v].profile \in Profiles
          /\ TrainedInside(txns'[v].profile)
          /\ txns'[v].op = "activate" => txns'[v].profile \in Passing
    BY <1>0, <1>4, TxnAfter DEF ProfilesSound
  <2>4. QED
    BY <2>2, <2>3 DEF ProfilesSound, Present, TrainedInside
<1>5. CASE Restart
  BY <1>1, <1>5 DEF Restart, RestartBackend
<1>6. CASE UNCHANGED <<profiles, txns>>
  BY <1>1, <1>6
<1>7. UNCHANGED profiles \/ \E w \in Workers : Proceed(w)
  BY DEF ScoringNext, Arrive, Expire, Build, BuildRead, Activate, ActivateRead, CountEvents,
         ListEvents, LockKey, CommitScore, Restart, RestartBackend, scoringVars
<1>8. QED
  BY <1>2, <1>3, <1>4, <1>5, <1>6, <1>7
  DEF ScoringNext, Arrive, Expire, CountEvents, ListEvents, LockKey, CommitScore, scoringVars

(* A profile that was usable stays usable to the request.                   *)
LEMMA AskedKept ==
  ASSUME NEW x, Asked(x),
         \A p \in Profiles : profiles[p].status \in {"active", "retired"} =>
                             profiles'[p].status \in {"active", "retired"}
  PROVE  Asked(x)'
BY DEF Asked, OverlapsTraining, WindowEnd

LEMMA WindowEvents ==
  ASSUME NEW p, NEW start, NEW e \in Window(p, start)
  PROVE  e \in Events /\ EventOf[e].at >= start /\ EventOf[e].at < WindowEnd(p, start)
BY DEF Window, Selected, Stored

LEMMA RequestKinds ==
  ASSUME NEW r \in Request \union {NoRequest}, r.stage \in {"counted", "listed", "locked"}
  PROVE  r \in Request /\ r # NoRequest
BY DEF NoRequest

LEMMA OneRequestChanges ==
  ASSUME requests \in [Scorers -> Request \union {NoRequest}],
         \A d \in Scorers : requests[d] # NoRequest => Asked(requests[d]),
         NEW c \in Scorers, NEW q \in Request \union {NoRequest},
         q # NoRequest => Asked(q), requests' = [requests EXCEPT ![c] = q]
  PROVE  /\ requests' \in [Scorers -> Request \union {NoRequest}]
         /\ \A d \in Scorers : requests'[d] # NoRequest => Asked(requests'[d])
<1>1. \A d \in Scorers : requests'[d] = IF d = c THEN q ELSE requests[d]
  OBVIOUS
<1>2. QED
  BY <1>1

LEMMA RequestStep ==
  ASSUME ScoringAssumption, FeaturesAssumption, Inductive, ScoresSound, NEW c \in Scorers,
         \/ \E p \in Profiles, start \in Windows : CountEvents(c, p, start)
         \/ ListEvents(c) \/ LockKey(c) \/ CommitScore(c)
  PROVE  /\ requests' \in [Scorers -> Request \union {NoRequest}]
         /\ \A d \in Scorers : requests'[d] # NoRequest => Asked(requests'[d])
         /\ \A s \in scores' : Asked(s)
<1> DEFINE r == requests[c]
<1>1. /\ requests \in [Scorers -> Request \union {NoRequest}]
      /\ \A s \in scores : Asked(s)
      /\ \A d \in Scorers : requests[d] # NoRequest => Asked(requests[d])
  BY DEF ScoresSound
<1>2. ASSUME NEW p \in Profiles, NEW start \in Windows, CountEvents(c, p, start)
      PROVE  /\ requests' \in [Scorers -> Request \union {NoRequest}]
             /\ \A d \in Scorers : requests'[d] # NoRequest => Asked(requests'[d])
             /\ \A s \in scores' : Asked(s)
  <2> DEFINE n == Cardinality(Processes(Window(p, start)))
             q == [profile |-> p, start |-> start, stage |-> "counted", evidence |-> {},
                   process_count |-> n]
  <2>1. n \in Nat
    <3>1. Processes(Window(p, start)) \in SUBSET Events
      BY WindowEvents DEF Processes
    <3>2. IsFiniteSet(Processes(Window(p, start)))
      BY <3>1, FS_Subset DEF FeaturesAssumption
    <3>3. QED
      BY <3>2, FS_CardinalityType
  <2>2. requests' = [requests EXCEPT ![c] = q] /\ UNCHANGED scores
    BY <1>2 DEF CountEvents
  <2>3. q \in Request
    BY <2>1 DEF Request
  <2>4. Asked(q)
    BY <1>2 DEF CountEvents, Usable, Active, ProfilesSound, ScoresSound, Asked
  <2>5. QED
    BY <1>1, <2>2, <2>3, <2>4, OneRequestChanges
<1>3. CASE ListEvents(c)
  <2> DEFINE E == Window(r.profile, r.start)
             q == [r EXCEPT !.stage = "listed", !.evidence = E]
  <2>1. r \in Request /\ Asked(r)
    BY <1>1, <1>3, RequestKinds DEF ListEvents
  <2>2. \A e \in E : e \in Events /\ EventOf[e].at >= r.start
                    /\ EventOf[e].at < WindowEnd(r.profile, r.start)
    BY WindowEvents
  <2> HIDE DEF E
  <2>3. q \in Request
    BY <2>1, <2>2 DEF Request
  <2>4. q.profile = r.profile /\ q.start = r.start /\ q.evidence = E
    BY <2>1 DEF Request
  <2> HIDE DEF q
  <2>5. Asked(q)
    BY <2>1, <2>2, <2>4 DEF Asked
  <2>6. requests' = [requests EXCEPT ![c] = q] /\ UNCHANGED scores
    BY <1>1, <1>3 DEF ListEvents, E, q
  <2>7. QED
    BY <1>1, <2>3, <2>5, <2>6, OneRequestChanges
<1>4. CASE LockKey(c)
  <2>1. CASE requests' = [requests EXCEPT ![c] = NoRequest]
    BY <1>1, <1>4, <2>1, OneRequestChanges DEF LockKey
  <2>2. CASE requests' = [requests EXCEPT ![c].stage = "locked"]
    <3> DEFINE q == [r EXCEPT !.stage = "locked"]
    <3>1. r \in Request /\ Asked(r)
      BY <1>1, <1>4, RequestKinds DEF LockKey
    <3>2. q \in Request /\ q.profile = r.profile /\ q.start = r.start /\ q.evidence = r.evidence
      BY <3>1 DEF Request
    <3> HIDE DEF q
    <3>3. Asked(q)
      BY <3>1, <3>2 DEF Asked
    <3>4. requests' = [requests EXCEPT ![c] = q] /\ UNCHANGED scores
      BY <1>1, <1>4, <2>2 DEF LockKey, q
    <3>5. QED
      BY <1>1, <3>2, <3>3, <3>4, OneRequestChanges
  <2>3. QED
    BY <1>4, <2>1, <2>2 DEF LockKey
<1>5. CASE CommitScore(c)
  <2>1. Asked(r)
    BY <1>1, <1>5, RequestKinds DEF CommitScore
  <2>2. \A o : Asked(Score(r, o))
    BY <2>1 DEF Asked, Score
  <2>3. requests' = [requests EXCEPT ![c] = NoRequest]
    BY <1>5 DEF CommitScore
  <2>4. \E o : scores' \subseteq scores \union {Score(r, o)}
    BY <1>5 DEF CommitScore
  <2>5. \A s \in scores' : Asked(s)
    BY <1>1, <2>2, <2>4
  <2>6. QED
    BY <1>1, <2>3, <2>5, OneRequestChanges
<1>6. QED
  BY <1>2, <1>3, <1>4, <1>5

LEMMA ScoresSoundStep ==
  ASSUME ScoringAssumption, FeaturesAssumption, Inductive, ScoresSound,
         [ScoringNext]_scoringVars
  PROVE  ScoresSound'
<1>1. ProfilesSound' /\ \A p \in Profiles :
        profiles[p].status \in {"active", "retired"} =>
          profiles'[p].status \in {"active", "retired"}
  BY ProfilesSoundStep DEF ScoresSound
<1>2. /\ requests' \in [Scorers -> Request \union {NoRequest}]
      /\ \A d \in Scorers : requests'[d] # NoRequest => Asked(requests'[d])
      /\ \A s \in scores' : Asked(s)
  <2>1. CASE UNCHANGED <<scores, requests>>
    BY <2>1 DEF ScoresSound
  <2>2. CASE Restart
    BY <2>2 DEF Restart, ScoresSound
  <2>3. QED
    BY <2>1, <2>2, RequestStep
    DEF ScoringNext, Arrive, Expire, Build, Activate, Proceed, scoringVars
<1>3. QED
  BY <1>1, <1>2, AskedKept DEF ScoresSound

(* No event a score rests on is one its profile was built from, and the     *)
(* profile was approved and passed, whatever arrived, expired, was built or *)
(* activated while the request was open.                                    *)
THEOREM ScoresOfOtherWindows == ScoringSpec => []ScoresAreIndependent
<1>1. ScoringInit => ScoresSound
  BY DEF ScoringInit, Init, ScoresSound, ProfilesSound, Present, AbsentProfile
<1>2. Inductive /\ ScoresSound /\ [ScoringNext]_scoringVars => ScoresSound'
  BY ScoringAssumption, FeaturesAssumption, ScoresSoundStep
<1>3. Inductive /\ ScoresSound => ScoresAreIndependent
  <2> SUFFICES ASSUME Inductive, ScoresSound, NEW s \in scores
               PROVE  /\ s.evidence \intersect TrainedOn[s.profile] = {}
                      /\ s.profile \in Passing
                      /\ profiles[s.profile].status \in {"active", "retired"}
    BY DEF ScoresAreIndependent
  <2> DEFINE p == s.profile
  <2>1. Asked(s) /\ p \in Profiles /\ TrainedInside(p)
    BY DEF ScoresSound, ProfilesSound, Asked, Present
  <2>2. /\ TrainingStart[p] \in Nat /\ TrainingEnd[p] \in Nat /\ WindowSeconds[p] \in Nat
        /\ s.start \in Nat
    BY <2>1, ScoringAssumption DEF ScoringAssumption, Asked
  <2>3. ASSUME NEW e \in s.evidence, e \in TrainedOn[p] PROVE FALSE
    <3>1. EventOf[e].at \in Nat
      BY <2>1, <2>3, FeaturesAssumption
      DEF Asked, FeaturesAssumption, ExecEvents, DockerEvents
    <3>2. /\ EventOf[e].at >= s.start /\ EventOf[e].at < s.start + WindowSeconds[p]
          /\ EventOf[e].at >= TrainingStart[p] /\ EventOf[e].at < TrainingEnd[p]
      BY <2>1, <2>3 DEF Asked, TrainedInside, WindowEnd
    <3>3. s.start >= TrainingEnd[p] \/ s.start + WindowSeconds[p] <= TrainingStart[p]
      BY <2>1, <2>2 DEF Asked, OverlapsTraining, WindowEnd
    <3>4. QED
      BY <2>2, <3>1, <3>2, <3>3
  <2>4. QED
    BY <2>1, <2>3 DEF Asked
<1>4. QED
  BY <1>1, <1>2, <1>3, InductiveInvariant, ScoringImplementsProfiles, PTL DEF ScoringSpec

-------------------------------------------------------------------------------
(* New programs. *)

LEMMA Positive == ASSUME NEW E, IsFiniteSet(E), E # {} PROVE Cardinality(E) \in Nat \ {0}
<1>1. Cardinality(E) \in Nat
  BY FS_CardinalityType
<1>2. Cardinality(E) # 0
  BY FS_EmptySet
<1>3. QED
  BY <1>1, <1>2

LEMMA OccurrencesFinite ==
  ASSUME FeaturesAssumption, NEW E \in SUBSET Events, NEW f \in Families
  PROVE  IsFiniteSet(Occurrences(f, E))
<1>1. IsFiniteSet(E)
  BY FS_Subset DEF FeaturesAssumption
<1>2. IsFiniteSet(Processes(E)) /\ IsFiniteSet(Runtime(E))
  BY <1>1, FS_Subset DEF Processes, Runtime
<1>3. IsFiniteSet(Bigrams(E))
  <2> DEFINE placed == {e \in Processes(E) : EventOf[e].container # None}
  <2>1. IsFiniteSet(placed)
    BY <1>2, FS_Subset
  <2>2. IsFiniteSet(placed \X placed)
    BY <2>1, FS_Product
  <2>3. Bigrams(E) \subseteq placed \X placed
    BY DEF Bigrams
  <2>4. QED
    BY <2>2, <2>3, FS_Subset
<1>4. QED
  BY <1>2, <1>3 DEF Occurrences, Families, ProcessFamilies

(* Of an observed family that shares nothing with the baseline everything   *)
(* is new.                                                                  *)
LEMMA NoveltyBounds ==
  ASSUME FeaturesAssumption, NEW B, NEW O \in SUBSET Events, NEW f \in Observed(O)
  PROVE  /\ Novelty(f, B, O) \in Nat
         /\ Tokens(f, B) \intersect Tokens(f, O) = {} => Novelty(f, B, O) = Unit
<1> DEFINE all == Occurrences(f, O)
           new == {o \in all : Token(f, o) \notin Tokens(f, B)}
<1>1. f \in Families /\ all # {}
  BY DEF Observed
<1>2. IsFiniteSet(all) /\ IsFiniteSet(new)
  BY <1>1, OccurrencesFinite, FS_Subset
<1>3. Cardinality(all) \in Nat \ {0} /\ Cardinality(new) \in Nat
  BY <1>1, <1>2, Positive, FS_CardinalityType
<1>4. Novelty(f, B, O) = (Unit * Cardinality(new)) \div Cardinality(all)
  BY DEF Novelty, Total
<1>5. ASSUME Tokens(f, B) \intersect Tokens(f, O) = {} PROVE new = all
  <2>1. \A o \in all : Token(f, o) \in Tokens(f, O)
    BY DEF Tokens
  <2>2. QED
    BY <1>5, <2>1
<1> HIDE DEF all, new
<1>6. \A n \in Nat, k \in Nat \ {0} : (Unit * n) \div k \in Nat /\ (Unit * k) \div k = Unit
  BY DEF Unit
<1>7. QED
  BY <1>3, <1>4, <1>5, <1>6

(* What the families of programs that are all new weigh, of any families.   *)
LEMMA NewWeight ==
  ASSUME NEW F \in SUBSET Families, NEW value,
         \A f \in F : value[f] \in Nat,
         \A f \in {"process_name", "executable", "parent_child"} : f \in F /\ value[f] = Unit,
         "process_sequence_bigram" \in F => value["process_sequence_bigram"] = Unit
  PROVE  WeightedAverage(value, F) \in Nat /\ WeightedAverage(value, F) >= 7500
<1> DEFINE uid == IF "user_uid" \in F THEN value["user_uid"] ELSE 0
           act == IF "runtime_action" \in F THEN value["runtime_action"] ELSE 0
           u == IF "user_uid" \in F THEN 10 ELSE 0
           a == IF "runtime_action" \in F THEN 10 ELSE 0
           b == IF "process_sequence_bigram" \in F THEN 20 ELSE 0
           X == WeightedSum(value, F)
           Y == WeightedSum([f \in F |-> 1], F)
<1>1. uid \in Nat /\ act \in Nat /\ u \in {0, 10} /\ a \in {0, 10} /\ b \in {0, 20}
  OBVIOUS
<1>2. Y = 60 + u + a + b
  BY DEF WeightedSum, Weight
<1>3. X = 60 * Unit + 10 * uid + 10 * act + b * Unit
  BY DEF WeightedSum, Weight, Unit
<1> HIDE DEF uid, act, u, a, b, X, Y
<1>4. X \in Nat /\ Y \in 60..100 /\ X >= 7500 * Y
  BY <1>1, <1>2, <1>3 DEF Unit
<1>5. \A x \in Nat, y \in 60..100 : x >= 7500 * y => x \div y \in Nat /\ x \div y >= 7500
  OBVIOUS
<1>6. QED
  BY <1>4, <1>5 DEF WeightedAverage, X, Y

LEMMA PartialShares ==
  ASSUME FeaturesAssumption
  PROVE  Partial \union {0, Unit} \subseteq 0..Unit /\ 0..Unit \subseteq Nat
<1>1. Unit \in Nat \ {0}
  BY DEF Unit
<1>2. Partial \subseteq 1..(Unit - 1)
  BY DEF FeaturesAssumption
<1>3. QED
  BY <1>1, <1>2

NewPrograms(B, O) ==
  \A e \in Processes(O), d \in Processes(B) :
    EventOf[e].program # EventOf[d].program /\ EventOf[e].name # EventOf[d].name

LEMMA NewTokens ==
  ASSUME NEW B, NEW O, NewPrograms(B, O),
         NEW f \in {"process_name", "executable", "parent_child", "process_sequence_bigram"}
  PROVE  Tokens(f, B) \intersect Tokens(f, O) = {}
<1>1. SUFFICES ASSUME NEW p \in Occurrences(f, O), NEW q \in Occurrences(f, B),
                      Token(f, p) = Token(f, q)
               PROVE  FALSE
  BY DEF Tokens
<1>2. CASE f # "process_sequence_bigram"
  <2>1. p \in Processes(O) /\ q \in Processes(B)
    BY <1>2 DEF Occurrences, ProcessFamilies
  <2>2. EventOf[p].program # EventOf[q].program /\ EventOf[p].name # EventOf[q].name
    BY <2>1 DEF NewPrograms
  <2>3. QED
    BY <1>1, <1>2, <2>2 DEF Token
<1>3. CASE f = "process_sequence_bigram"
  <2>1. p \in Bigrams(O) /\ q \in Bigrams(B)
    BY <1>3 DEF Occurrences, ProcessFamilies
  <2>2. p[1] \in Processes(O) /\ q[1] \in Processes(B)
    BY <2>1 DEF Bigrams
  <2>3. EventOf[p[1]].program # EventOf[q[1]].program
    BY <2>2 DEF NewPrograms
  <2>4. QED
    BY <1>1, <1>3, <2>3 DEF Token
<1>4. QED
  BY <1>2, <1>3

LEMMA NewTotals ==
  ASSUME FeaturesAssumption, NEW B, NEW O \in SUBSET Events, Processes(O) # {},
         NewPrograms(B, O), NEW t \in TotalScores(B, O)
  PROVE  t \in Nat /\ t >= 6000
<1> DEFINE F == Observed(O)
           average == WeightedAverage([f \in F |-> Novelty(f, B, O)], F)
           Fresh == {"process_name", "executable", "parent_child", "process_sequence_bigram"}
<1>1. /\ F \subseteq Families
      /\ \A f \in Fresh \ {"process_sequence_bigram"} : f \in F
  BY DEF Observed, Occurrences, Families, ProcessFamilies
<1>2. \A f \in Fresh : Tokens(f, B) \intersect Tokens(f, O) = {}
  BY NewTokens
<1>3. average \in Nat /\ average >= 7500
  <2> DEFINE value == [f \in F |-> Novelty(f, B, O)]
  <2>1. \A f \in F : value[f] \in Nat /\ (f \in Fresh => value[f] = Unit)
    BY <1>2, NoveltyBounds
  <2> HIDE DEF F, value
  <2>2. WeightedAverage(value, F) \in Nat /\ WeightedAverage(value, F) >= 7500
    BY <1>1, <2>1, NewWeight
  <2>3. QED
    BY <2>2 DEF value
<1>4. ASSUME NEW c \in CategoricalScores(B, O) PROVE c \in Nat /\ c >= 7500
  <2>1. PICK v \in [F -> Partial \union {0, Unit}] :
          /\ \A f \in F : v[f] \in Distances(f, B, O)
          /\ c = WeightedAverage(v, F)
    BY DEF CategoricalScores
  <2>2. \A f \in F : v[f] \in Nat
    <3>1. Partial \union {0, Unit} \subseteq Nat
      BY PartialShares
    <3>2. QED
      BY <2>1, <3>1
  <2>3. \A f \in Fresh : Distances(f, B, O) = {Unit}
    <3>1. ASSUME NEW f \in Fresh, f \in F
          PROVE  Tokens(f, O) # {}
      BY <3>1 DEF Observed, Tokens
    <3>2. QED
      BY <1>2 DEF Distances
  <2>4. \A f \in F : f \in Fresh => v[f] = Unit
    BY <2>1, <2>3
  <2> HIDE DEF F
  <2>5. QED
    BY <1>1, <2>1, <2>2, <2>4, NewWeight
<1>5. F # {}
  BY <1>1
<1>6. PICK c \in CategoricalScores(B, O), deviation \in {0, Unit} :
        t = (50 * c + 30 * average + 20 * deviation) \div 100
  BY <1>5 DEF TotalScores
<1>7. deviation \in Nat
  BY DEF Unit
<1> HIDE DEF average
<1>8. \A x, y, z \in Nat : x >= 7500 /\ y >= 7500 =>
        /\ (50 * x + 30 * y + 20 * z) \div 100 \in Nat
        /\ (50 * x + 30 * y + 20 * z) \div 100 >= 6000
  OBVIOUS
<1>9. QED
  BY <1>3, <1>4, <1>6, <1>7, <1>8

(* Every scored row has a band of the distance between its events and those *)
(* of its profile.                                                          *)
BandsAreComputed ==
  \A s \in scores :
    s.status = "scored" => s.score_band \in Bands(TrainedOn[s.profile], s.evidence)

LEMMA BandsStep ==
  ASSUME BandsAreComputed, [ScoringNext]_scoringVars
  PROVE  BandsAreComputed'
<1>1. ASSUME NEW c \in Scorers, CommitScore(c) PROVE BandsAreComputed'
  <2> DEFINE r == requests[c]
  <2>1. PICK outcome \in Outcomes(r) : scores' \subseteq scores \union {Score(r, outcome)}
    BY <1>1 DEF CommitScore
  <2> DEFINE z == Score(r, outcome)
  <2>2. /\ z.profile = r.profile /\ z.evidence = r.evidence
        /\ z.status = outcome.status /\ z.score_band = outcome.score_band
    BY DEF Score
  <2>3. outcome.status = "scored" =>
          outcome.score_band \in Bands(TrainedOn[r.profile], r.evidence)
    BY DEF Outcomes
  <2> HIDE DEF z
  <2>4. \A s \in scores' :
          s.status = "scored" => s.score_band \in Bands(TrainedOn[s.profile], s.evidence)
    BY <2>1, <2>2, <2>3 DEF BandsAreComputed, z
  <2> DEFINE band(s) == Bands(TrainedOn[s.profile], s.evidence)
  <2>5. \A s \in scores' : s.status = "scored" => s.score_band \in band(s)
    BY <2>4
  <2>6. QED
    BY <2>4 DEF BandsAreComputed
<1>2. CASE UNCHANGED scores
  BY <1>2 DEF BandsAreComputed
<1>3. QED
  BY <1>1, <1>2
  DEF ScoringNext, Arrive, Expire, Build, Activate, Proceed, CountEvents, ListEvents, LockKey,
      Restart, scoringVars

(* A window of programs the profile has never seen scores at least "high",  *)
(* whatever else was or was not observed in it.                             *)
THEOREM NewProgramsScoreHigh == ScoringSpec => []NewProgramsAreHigh
<1>1. ScoringInit => ScoresSound /\ BandsAreComputed
  BY DEF ScoringInit, Init, ScoresSound, ProfilesSound, Present, AbsentProfile, BandsAreComputed
<1>2. Inductive /\ ScoresSound /\ [ScoringNext]_scoringVars => ScoresSound'
  BY ScoringAssumption, FeaturesAssumption, ScoresSoundStep
<1>3. BandsAreComputed /\ [ScoringNext]_scoringVars => BandsAreComputed'
  BY BandsStep
<1>4. ScoresSound /\ BandsAreComputed => NewProgramsAreHigh
  <2> SUFFICES ASSUME ScoresSound, BandsAreComputed, NEW s \in scores,
                      s.status = "scored", Processes(s.evidence) # {},
                      NewPrograms(TrainedOn[s.profile], s.evidence)
               PROVE  s.score_band \in {"high", "extreme"}
    BY DEF NewProgramsAreHigh, NewPrograms
  <2>1. s.evidence \in SUBSET Events
    BY DEF ScoresSound, Asked
  <2>2. PICK t \in TotalScores(TrainedOn[s.profile], s.evidence) : s.score_band = score_band(t)
    BY DEF BandsAreComputed, Bands
  <2>3. t \in Nat /\ t >= 6000
    BY <2>1, <2>2, NewTotals, FeaturesAssumption
  <2>4. QED
    BY <2>2, <2>3 DEF score_band
<1>5. QED
  BY <1>1, <1>2, <1>3, <1>4, InductiveInvariant, ScoringImplementsProfiles, PTL DEF ScoringSpec

-------------------------------------------------------------------------------
(* Types of the scores. *)

LEMMA QuotientBounded ==
  ASSUME NEW u \in Nat, NEW y \in Nat \ {0}, NEW x \in Nat, x <= u * y
  PROVE  x \div y \in 0..u
<1>1. PICK q \in Nat, r \in Nat : q = x \div y /\ x = y * q + r
  <2>1. x \div y \in Nat /\ x % y \in Nat /\ x = y * (x \div y) + (x % y)
    OBVIOUS
  <2>2. QED
    BY <2>1
<1>2. ASSUME q > u PROVE FALSE
  <2>1. PICK j \in Nat : q = u + 1 + j
    <3>1. q - (u + 1) \in Nat /\ q = u + 1 + (q - (u + 1))
      BY <1>2
    <3>2. QED
      BY <3>1
  <2>2. y * j \in Nat /\ u * y \in Nat
    OBVIOUS
  <2>3. y * q = u * y + y + y * j
    BY <2>1
  <2>4. QED
    BY <1>1, <2>2, <2>3
<1>3. QED
  BY <1>1, <1>2

(* Weighing shares of a whole gives a share of it.                          *)
LEMMA AverageIsShare ==
  ASSUME NEW F \in SUBSET Families, F # {}, NEW value, \A f \in F : value[f] \in 0..Unit
  PROVE  WeightedAverage(value, F) \in 0..Unit
<1> DEFINE v(f) == IF f \in F THEN value[f] ELSE 0
           u(f) == IF f \in F THEN 1 ELSE 0
           X == WeightedSum(value, F)
           Y == WeightedSum([f \in F |-> 1], F)
<1>0. Unit \in Nat \ {0}
  BY DEF Unit
<1>1. \A f \in Families : v(f) \in Nat /\ u(f) \in Nat /\ v(f) <= Unit * u(f)
  <2>1. ASSUME NEW f \in Families, f \in F PROVE v(f) \in Nat /\ u(f) = 1 /\ v(f) <= Unit
    BY <1>0, <2>1
  <2>2. ASSUME NEW f \in Families, f \notin F PROVE v(f) = 0 /\ u(f) = 0
    BY <2>2
  <2> HIDE DEF v, u
  <2>3. \A n \in Nat : Unit * 1 = Unit /\ Unit * 0 = 0
    BY <1>0
  <2>4. QED
    BY <1>0, <2>1, <2>2, <2>3
<1>2. X = 15 * v("process_name") + 25 * v("executable") + 20 * v("parent_child")
            + 10 * v("user_uid") + 10 * v("runtime_action") + 20 * v("process_sequence_bigram")
  BY DEF WeightedSum, Weight
<1>3. Y = 15 * u("process_name") + 25 * u("executable") + 20 * u("parent_child")
            + 10 * u("user_uid") + 10 * u("runtime_action") + 20 * u("process_sequence_bigram")
  BY DEF WeightedSum, Weight
<1>4. PICK g \in Families : u(g) = 1
  OBVIOUS
<1>5. Families = {"process_name", "executable", "parent_child", "user_uid", "runtime_action",
                  "process_sequence_bigram"}
  BY DEF Families, ProcessFamilies
<1> HIDE DEF v, u, X, Y
<1>6. X \in Nat /\ Y \in Nat /\ Y > 0 /\ X <= Unit * Y
  <2>1. /\ v("process_name") <= Unit * u("process_name")
        /\ v("executable") <= Unit * u("executable")
        /\ v("parent_child") <= Unit * u("parent_child")
        /\ v("user_uid") <= Unit * u("user_uid")
        /\ v("runtime_action") <= Unit * u("runtime_action")
        /\ v("process_sequence_bigram") <= Unit * u("process_sequence_bigram")
        /\ v("process_name") \in Nat /\ u("process_name") \in Nat
        /\ v("executable") \in Nat /\ u("executable") \in Nat
        /\ v("parent_child") \in Nat /\ u("parent_child") \in Nat
        /\ v("user_uid") \in Nat /\ u("user_uid") \in Nat
        /\ v("runtime_action") \in Nat /\ u("runtime_action") \in Nat
        /\ v("process_sequence_bigram") \in Nat /\ u("process_sequence_bigram") \in Nat
    BY <1>1, <1>5
  <2>2. PICK a, b, c, d, e, f, i, j, k, l, m, n :
          /\ a = v("process_name") /\ b = v("executable") /\ c = v("parent_child")
          /\ d = v("user_uid") /\ e = v("runtime_action") /\ f = v("process_sequence_bigram")
          /\ i = u("process_name") /\ j = u("executable") /\ k = u("parent_child")
          /\ l = u("user_uid") /\ m = u("runtime_action") /\ n = u("process_sequence_bigram")
    OBVIOUS
  <2>3. /\ X <= Unit * Y
        /\ X \in Nat
        /\ Y \in Nat
    <3>1. /\ a \in Nat /\ b \in Nat /\ c \in Nat /\ d \in Nat /\ e \in Nat /\ f \in Nat
          /\ i \in Nat /\ j \in Nat /\ k \in Nat /\ l \in Nat /\ m \in Nat /\ n \in Nat
      BY <2>1, <2>2
    <3>2. /\ a <= Unit * i /\ b <= Unit * j /\ c <= Unit * k
          /\ d <= Unit * l /\ e <= Unit * m /\ f <= Unit * n
      BY <2>1, <2>2
    <3>3. /\ X = 15 * a + 25 * b + 20 * c + 10 * d + 10 * e + 20 * f
          /\ Y = 15 * i + 25 * j + 20 * k + 10 * l + 10 * m + 20 * n
      BY <1>2, <1>3, <2>2
    <3>4. X \in Nat /\ Y \in Nat
      BY <3>1, <3>3
    <3>5. 15 * a + 25 * b + 20 * c + 10 * d + 10 * e + 20 * f
            <= Unit * (15 * i + 25 * j + 20 * k + 10 * l + 10 * m + 20 * n)
      BY <3>1, <3>2 DEF Unit
    <3>6. QED
      BY <3>3, <3>4, <3>5
  <2>4. Y > 0
    <3>1. \/ u("process_name") = 1 \/ u("executable") = 1 \/ u("parent_child") = 1
          \/ u("user_uid") = 1 \/ u("runtime_action") = 1 \/ u("process_sequence_bigram") = 1
      BY <1>4, <1>5
    <3>2. QED
      BY <1>3, <2>1, <3>1
  <2>5. QED
    BY <2>3, <2>4
<1>7. X <= Unit * Y /\ Unit \in Nat /\ Y \in Nat \ {0}
  BY <1>0, <1>6
<1>8. X \div Y \in 0..Unit
  BY <1>6, <1>7, QuotientBounded
<1>9. QED
  BY <1>8 DEF WeightedAverage, X, Y

LEMMA NoveltyIsShare ==
  ASSUME FeaturesAssumption, NEW B, NEW O \in SUBSET Events, NEW f \in Observed(O)
  PROVE  Novelty(f, B, O) \in 0..Unit
<1> DEFINE all == Occurrences(f, O)
           new == {o \in all : Token(f, o) \notin Tokens(f, B)}
<1>1. f \in Families /\ all # {}
  BY DEF Observed
<1>2. IsFiniteSet(all) /\ IsFiniteSet(new) /\ Cardinality(new) <= Cardinality(all)
  BY <1>1, OccurrencesFinite, FS_Subset
<1>3. Cardinality(all) \in Nat \ {0} /\ Cardinality(new) \in Nat
  BY <1>1, <1>2, Positive, FS_CardinalityType
<1>4. Novelty(f, B, O) = (Unit * Cardinality(new)) \div Cardinality(all)
  BY DEF Novelty, Total
<1> HIDE DEF all, new
<1>5. \A k \in Nat \ {0}, n \in Nat : n <= k => Unit * n \in Nat /\ Unit * n <= Unit * k
  BY DEF Unit
<1>6. Unit \in Nat
  BY DEF Unit
<1>7. QED
  BY <1>2, <1>3, <1>4, <1>5, <1>6, QuotientBounded

(* Total scores lie between 0 and 1.                                        *)
LEMMA TotalsAreShares ==
  ASSUME FeaturesAssumption, NEW B, NEW O \in SUBSET Events, NEW t \in TotalScores(B, O)
  PROVE  t \in 0..Unit
<1> DEFINE F == Observed(O)
           value == [f \in F |-> Novelty(f, B, O)]
           average == WeightedAverage(value, F)
<1>1. CASE F = {}
  BY <1>1 DEF TotalScores, Unit
<1>2. CASE F # {}
  <2>1. F \in SUBSET Families
    BY DEF Observed
  <2>2. average \in 0..Unit
    <3>1. \A f \in F : value[f] \in 0..Unit
      BY NoveltyIsShare
    <3> HIDE DEF F, value
    <3>2. QED
      BY <1>2, <2>1, <3>1, AverageIsShare
  <2>3. ASSUME NEW c \in CategoricalScores(B, O) PROVE c \in 0..Unit
    <3>1. PICK v \in [F -> Partial \union {0, Unit}] : c = WeightedAverage(v, F)
      BY DEF CategoricalScores
    <3>2. Partial \union {0, Unit} \subseteq 0..Unit
      BY PartialShares
    <3>3. \A f \in F : v[f] \in 0..Unit
      BY <3>1, <3>2
    <3> HIDE DEF F
    <3>4. QED
      BY <1>2, <2>1, <3>1, <3>3, AverageIsShare
  <2>4. PICK c \in CategoricalScores(B, O), deviation \in {0, Unit} :
          t = (50 * c + 30 * average + 20 * deviation) \div 100
    BY <1>2 DEF TotalScores
  <2>5. deviation \in 0..Unit
    BY DEF Unit
  <2> HIDE DEF average
  <2>6. \A x, y, z \in 0..Unit : (50 * x + 30 * y + 20 * z) \div 100 \in 0..Unit
    <3>1. Unit \in Nat
      BY DEF Unit
    <3>2. ASSUME NEW x \in 0..Unit, NEW y \in 0..Unit, NEW z \in 0..Unit
          PROVE  /\ 50 * x + 30 * y + 20 * z \in Nat
                 /\ 50 * x + 30 * y + 20 * z <= Unit * 100
      BY <3>1
    <3>3. QED
      BY <3>1, <3>2, QuotientBounded
  <2>7. QED
    BY <2>2, <2>3, <2>4, <2>5, <2>6
<1>3. QED
  BY <1>1, <1>2

LEMMA OutcomeKinds ==
  ASSUME NEW r \in Request, r.evidence \in SUBSET Events, r.profile \in Profiles,
         NEW outcome \in Outcomes(r)
  PROVE  /\ outcome.status \in {"scored", "insufficient_data"}
         /\ outcome.score_band \in Bandings
         /\ outcome.status = "insufficient_data" <=> outcome.score_band = "insufficient_data"
<1>1. CASE r.process_count < anomaly_min_process_events
  BY <1>1 DEF Outcomes, Bandings
<1>2. CASE ~(r.process_count < anomaly_min_process_events)
  <2>1. PICK b \in Bands(TrainedOn[r.profile], r.evidence) :
          outcome = [status |-> "scored", score_band |-> b]
    BY <1>2 DEF Outcomes
  <2>2. PICK t \in TotalScores(TrainedOn[r.profile], r.evidence) : b = score_band(t)
    BY DEF Bands
  <2>3. t \in 0..Unit
    BY <2>2, FeaturesAssumption, TotalsAreShares
  <2>4. b \in {"baseline_like", "elevated", "high", "extreme"}
    BY <2>2, <2>3 DEF score_band
  <2>5. QED
    BY <2>1, <2>4 DEF Bandings
<1>3. QED
  BY <1>1, <1>2

LEMMA ScoringTypeStep ==
  ASSUME ScoringAssumption, FeaturesAssumption, ScoresSound, ScoringTypeOK,
         [ScoringNext]_scoringVars, requests' \in [Scorers -> Request \union {NoRequest}]
  PROVE  ScoringTypeOK'
<1>1. events' \in [Events -> {"expected", "stored", "deleted"}]
  <2>1. ASSUME NEW e \in Events, Arrive(e)
        PROVE  events' \in [Events -> {"expected", "stored", "deleted"}]
    BY <2>1 DEF Arrive, ScoringTypeOK
  <2>2. ASSUME NEW cutoff, Expire(cutoff)
        PROVE  events' \in [Events -> {"expected", "stored", "deleted"}]
    BY <2>2 DEF Expire, ScoringTypeOK
  <2>3. CASE UNCHANGED events
    BY <2>3 DEF ScoringTypeOK
  <2>4. QED
    BY <2>1, <2>2, <2>3
    DEF ScoringNext, Build, Activate, Proceed, CountEvents, ListEvents, LockKey, CommitScore,
        Restart, scoringVars
<1> DEFINE Fits(s) == s \in ScoreRow /\ (s.status = "insufficient_data"
                                           <=> s.score_band = "insufficient_data")
<1>2. \A s \in scores : Fits(s)
  BY DEF ScoringTypeOK
<1>3. ASSUME NEW c \in Scorers, CommitScore(c) PROVE \A s \in scores' : Fits(s)
  <2> DEFINE r == requests[c]
  <2>1. r \in Request /\ r # NoRequest
    BY <1>3, RequestKinds DEF CommitScore, ScoringTypeOK
  <2>2. r.profile \in Profiles /\ r.start \in Windows /\ r.evidence \in SUBSET Events
    BY <2>1 DEF Request
  <2>3. PICK outcome \in Outcomes(r) : scores' \subseteq scores \union {Score(r, outcome)}
    BY <1>3 DEF CommitScore
  <2> HIDE DEF r
  <2>4. /\ outcome.status \in {"scored", "insufficient_data"}
        /\ outcome.score_band \in Bandings
        /\ outcome.status = "insufficient_data" <=> outcome.score_band = "insufficient_data"
    BY <2>1, <2>2, OutcomeKinds
  <2>5. Fits(Score(r, outcome))
    BY <2>2, <2>4 DEF Score, ScoreRow
  <2>6. QED
    BY <1>2, <2>3, <2>5
<1>4. ASSUME UNCHANGED scores PROVE \A s \in scores' : Fits(s)
  BY <1>2, <1>4
<1> HIDE DEF Fits
<1>5. \A s \in scores' : Fits(s)
  BY <1>3, <1>4
  DEF ScoringNext, Arrive, Expire, Build, Activate, Proceed, CountEvents, ListEvents, LockKey,
      Restart, scoringVars
<1>6. QED
  BY <1>1, <1>5 DEF Fits, ScoringTypeOK

(* Events, scores and requests keep their types: a score has a band exactly *)
(* if its window had enough processes.                                      *)
THEOREM ScoringTypeCorrect == ScoringSpec => []ScoringTypeOK
<1>1. ScoringInit => ScoresSound /\ ScoringTypeOK
  BY DEF ScoringInit, Init, ScoresSound, ProfilesSound, Present, AbsentProfile, ScoringTypeOK
<1>2. Inductive /\ ScoresSound /\ [ScoringNext]_scoringVars => ScoresSound'
  BY ScoringAssumption, FeaturesAssumption, ScoresSoundStep
<1>3. ScoresSound /\ ScoresSound' /\ ScoringTypeOK /\ [ScoringNext]_scoringVars => ScoringTypeOK'
  BY ScoringAssumption, FeaturesAssumption, ScoringTypeStep DEF ScoresSound
<1>4. QED
  BY <1>1, <1>2, <1>3, InductiveInvariant, ScoringImplementsProfiles, PTL DEF ScoringSpec

===============================================================================
