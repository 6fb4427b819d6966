------------------------------ MODULE Credentials ------------------------------
(****************************************************************************)
(* The operator token in the console's browser tab: the session store of    *)
(* dashboard/src/credentials.js with its idle expiry, and the in-memory     *)
(* mirror of dashboard/app.js that requests are sent with. Time is counted  *)
(* in periods of the console's expiry timer, which fires when the browser   *)
(* lets it: init() installs it after two requests, and a hidden, frozen or  *)
(* suspended tab holds it back.                                             *)
(****************************************************************************)
EXTENDS Integers

CONSTANTS
  Tokens,      \* operator tokens
  IdleLimit,   \* OPERATOR_TOKEN_TTL_MS, in periods of the expiry timer
  MaxOverdue,  \* bound on how long the browser holds the timer back
  NoToken

ASSUME CredentialsAssumption ==
  IdleLimit \in Nat \ {0} /\ MaxOverdue \in Nat /\ NoToken \notin Tokens

VARIABLES
  tab,     \* is the console's tab open
  stored,  \* the token in sessionStorage
  mirror,  \* _operatorToken
  idle,    \* periods since the mirrored or stored token was entered or used
  overdue, \* periods since the expiry timer last fired
  legacy,  \* the copy an older console left in localStorage
  calls    \* tokens that requests under way carry

credentialVars == <<tab, stored, mirror, idle, overdue, legacy, calls>>

MaybeToken == Tokens \union {NoToken}

CredentialsInit ==
  /\ tab = FALSE /\ stored = NoToken /\ mirror = NoToken
  /\ idle = 0 /\ overdue = 0 /\ calls = {}
  /\ legacy \in MaybeToken

Expired == idle >= IdleLimit

(* get(): reading an expired entry removes it.                              *)
get == IF Expired THEN NoToken ELSE stored

Load ==
  /\ LET token == IF get = NoToken THEN legacy ELSE get
     IN /\ stored' = token /\ mirror' = token
        /\ idle' = IF token # NoToken /\ get = NoToken THEN 0 ELSE idle
  /\ legacy' = NoToken
  /\ tab' = TRUE /\ calls' = {} /\ UNCHANGED overdue

CloseTab ==
  /\ tab /\ tab' = FALSE
  /\ stored' = NoToken /\ mirror' = NoToken /\ idle' = 0 /\ overdue' = 0 /\ calls' = {}
  /\ UNCHANGED legacy

(* The setter of operatorToken: the store, then the mirror.                 *)
Set(token) ==
  /\ stored' = token /\ mirror' = token
  /\ idle' = 0

Enter(token) ==
  /\ tab /\ mirror = NoToken
  /\ Set(token)
  /\ UNCHANGED <<tab, overdue, legacy, calls>>

ClearToken ==
  /\ tab /\ mirror # NoToken
  /\ Set(NoToken)
  /\ UNCHANGED <<tab, overdue, legacy, calls>>

(* A request to an operator route is sent with the mirrored token, and      *)
(* slides the stored one forward, or removes it when it has expired.        *)
Send ==
  /\ tab /\ mirror # NoToken
  /\ calls' = calls \union {mirror}
  /\ stored' = get
  /\ idle' = IF get = NoToken THEN idle ELSE 0
  /\ UNCHANGED <<tab, mirror, overdue, legacy>>

Answered(token) ==
  /\ calls' = calls \ {token}
  /\ UNCHANGED <<tab, stored, mirror, idle, overdue, legacy>>

(* A 401 clears whatever token is set by then.                              *)
Rejected(token) ==
  /\ calls' = calls \ {token}
  /\ Set(NoToken)
  /\ UNCHANGED <<tab, overdue, legacy>>

(* Mutant: the timer looks at the entry without asking whether it expired.  *)
EnforceOnRemoval ==
  /\ tab /\ overdue > 0 /\ overdue' = 0
  /\ mirror' = IF stored = NoToken THEN NoToken ELSE mirror
  /\ UNCHANGED <<tab, stored, idle, legacy, calls>>

EnforceCredentialExpiry ==
  /\ tab /\ overdue > 0 /\ overdue' = 0
  /\ mirror' = IF get = NoToken THEN NoToken ELSE mirror
  /\ stored' = get
  /\ UNCHANGED <<tab, idle, legacy, calls>>

(* Time goes on whether or not the timer fired.                             *)
CredentialsTick ==
  /\ tab /\ overdue < MaxOverdue /\ overdue' = overdue + 1
  /\ idle' = IF mirror = NoToken THEN idle ELSE idle + 1
  /\ UNCHANGED <<tab, stored, mirror, legacy, calls>>

CredentialsNext ==
  \/ Load \/ CloseTab \/ Send \/ ClearToken \/ EnforceCredentialExpiry \/ CredentialsTick
  \/ \E t \in Tokens : Enter(t)
  \/ \E t \in calls : Answered(t) \/ Rejected(t)

CredentialsSpec == CredentialsInit /\ [][CredentialsNext]_credentialVars

-------------------------------------------------------------------------------
CredentialsTypeOK ==
  /\ tab \in BOOLEAN /\ overdue \in 0..MaxOverdue /\ idle \in Nat
  /\ stored \in MaybeToken /\ mirror \in MaybeToken /\ legacy \in MaybeToken
  /\ calls \subseteq Tokens

(* An idle console locks however late its timer is. A token past its        *)
(* lifetime stays in the mirror only while the timer has not fired since    *)
(* it expired; until it expires store and mirror agree, so that no reload,  *)
(* migration, refused or late request shows a token that is gone from the   *)
(* store, or leaves one in the store that the console has let go.           *)
IdleTokenIsLocked ==
  /\ mirror # NoToken => idle < IdleLimit + overdue
  /\ ~Expired => mirror = stored

(* What the comments of credentials.js and app.js say: no request carries   *)
(* a token idle for longer than its lifetime. The code does not keep this:  *)
(* requests are sent with the mirror, without a look at the entry's age.    *)
IdleTokenIsNotSent ==
  [][\A t \in calls' \ calls : idle =< IdleLimit]_credentialVars

===============================================================================
