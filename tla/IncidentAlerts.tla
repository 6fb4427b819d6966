---------------------------- MODULE IncidentAlerts ----------------------------
(****************************************************************************)
(* The alert script scripts/incident_alerts.py: a check reads the ids of    *)
(* the notified incidents from the disk, mails every listed open incident   *)
(* that is not among them, and writes the ids back when all were mailed.    *)
(* Several checks may run at once (the watch and a cron job).               *)
(****************************************************************************)
EXTENDS Naturals, FiniteSets, Sequences, SequencesExt

CONSTANTS
  Incidents,    \* ids, all at or above the severity threshold
  Checks,       \* processes of the script
  ListLimit,    \* the limit of fetch_open_incidents
  AlertFaults,  \* bound on the crashes, failed fetches and unconfirmed emails
  Torn          \* the content of a state file whose writing was cut off

ASSUME AlertsAssumption == ListLimit \in Nat \ {0} /\ AlertFaults \in Nat

VARIABLES
  opened,     \* the incidents, in the order in which they were created
  handled,    \* those whose status is not "open" any more
  stateFile,  \* notified_incident_ids on the disk
  check,      \* per process, the check under way
  mailed,     \* the incidents whose email the relay accepted
  faults

alertVars == <<opened, handled, stateFile, check, mailed, faults>>

Sleeping == [step |-> "sleep", notified |-> {}, todo |-> <<>>]
CheckState ==
  [step : {"sleep", "fetch", "send", "write"}, notified : SUBSET Incidents,
   todo : SeqOf(Incidents, ListLimit)]

AlertsInit ==
  /\ opened = <<>> /\ handled = {}
  /\ stateFile = {}
  /\ check = [p \in Checks |-> Sleeping]
  /\ mailed = {} /\ faults = 0

Opens(i) ==
  /\ i \notin ToSet(opened)
  /\ opened' = Append(opened, i)
  /\ UNCHANGED <<handled, stateFile, check, mailed, faults>>

Handle(i) ==
  /\ i \in ToSet(opened) \ handled
  /\ handled' = handled \union {i}
  /\ UNCHANGED <<opened, stateFile, check, mailed, faults>>

At(p, step) == check[p].step = step
Goes(p, record) == check' = [check EXCEPT ![p] = record]

(* A state file that cannot be parsed ends the check.                       *)
LoadState(p) ==
  /\ At(p, "sleep") /\ stateFile # Torn
  /\ Goes(p, [Sleeping EXCEPT !.step = "fetch", !.notified = stateFile])
  /\ UNCHANGED <<opened, handled, stateFile, mailed, faults>>

(* The newest incidents, the newest first.                                  *)
Listed == SubSeq(Reverse(opened), 1, IF Len(opened) < ListLimit THEN Len(opened) ELSE ListLimit)

FetchOpenIncidents(p) ==
  /\ At(p, "fetch")
  /\ Goes(p, [check[p] EXCEPT !.step = "send",
               !.todo = SelectSeq(Listed, LAMBDA i : i \notin handled \union check[p].notified)])
  /\ UNCHANGED <<opened, handled, stateFile, mailed, faults>>

SendEmail(p) ==
  /\ At(p, "send") /\ check[p].todo # <<>>
  /\ mailed' = mailed \union {Head(check[p].todo)}
  /\ Goes(p, [check[p] EXCEPT !.todo = Tail(@), !.notified = @ \union {Head(check[p].todo)}])
  /\ UNCHANGED <<opened, handled, stateFile, faults>>

(* Mutant: an email that fails is logged, and the check goes on.            *)
SendFailsSilently(p) ==
  /\ At(p, "send") /\ check[p].todo # <<>> /\ faults < AlertFaults
  /\ Goes(p, [check[p] EXCEPT !.todo = Tail(@), !.notified = @ \union {Head(check[p].todo)}])
  /\ faults' = faults + 1
  /\ UNCHANGED <<opened, handled, stateFile, mailed>>

(* An error ends the check, and what it has sent is not written down: the   *)
(* email may have been accepted all the same.                               *)
SendFails(p) ==
  /\ At(p, "send") /\ check[p].todo # <<>> /\ faults < AlertFaults
  /\ \E accepted \in {{}, {Head(check[p].todo)}} : mailed' = mailed \union accepted
  /\ Goes(p, Sleeping)
  /\ faults' = faults + 1
  /\ UNCHANGED <<opened, handled, stateFile>>

AllSent(p) ==
  /\ At(p, "send") /\ check[p].todo = <<>>
  /\ Goes(p, [check[p] EXCEPT !.step = "write"])
  /\ UNCHANGED <<opened, handled, stateFile, mailed, faults>>

SaveState(p) ==
  /\ At(p, "write")
  /\ stateFile' = check[p].notified
  /\ Goes(p, Sleeping)
  /\ UNCHANGED <<opened, handled, mailed, faults>>

(* The fetch fails, or the script is killed: the file it was writing may    *)
(* be cut off.                                                              *)
CheckFails(p) ==
  /\ ~At(p, "sleep") /\ faults < AlertFaults
  /\ Goes(p, Sleeping)
  /\ \/ At(p, "write") /\ stateFile' = Torn
     \/ UNCHANGED stateFile
  /\ faults' = faults + 1
  /\ UNCHANGED <<opened, handled, mailed>>

CheckStep(p) ==
  LoadState(p) \/ FetchOpenIncidents(p) \/ SendEmail(p) \/ AllSent(p) \/ SaveState(p)

AlertsNext ==
  \/ \E i \in Incidents : Opens(i) \/ Handle(i)
  \/ \E p \in Checks : CheckStep(p) \/ SendFails(p) \/ CheckFails(p)

AlertsSpec == AlertsInit /\ [][AlertsNext]_alertVars

-------------------------------------------------------------------------------
AlertsTypeOK ==
  /\ opened \in SeqOf(Incidents, Cardinality(Incidents)) /\ handled \subseteq Incidents
  /\ (stateFile = Torn \/ stateFile \subseteq Incidents)
  /\ check \in [Checks -> CheckState]
  /\ mailed \subseteq Incidents /\ faults \in 0..AlertFaults

(* No crash, refused email or concurrent check silently drops an alert: an  *)
(* incident that is written down as notified has been mailed.               *)
NotifiedWasMailed == stateFile # Torn => stateFile \subseteq mailed

===============================================================================
