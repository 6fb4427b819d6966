--------------------------------- MODULE Poller ---------------------------------
(****************************************************************************)
(* The polling scheduler of the operator console (dashboard/src/poller.js)  *)
(* with the fetchers it runs (dashboard/app.js): each task is a chain of    *)
(* runs and timers, the page may be hidden, a run may be aborted, and one   *)
(* of the panels is also fetched outside the scheduler, after an approval.  *)
(* Delays are abstracted: a timer that is set may fire at any time.         *)
(****************************************************************************)
EXTENDS Integers, FiniteSets

CONSTANTS
  Tasks,          \* the tasks of the scheduler
  Direct,         \* the tasks whose fetcher is also called without it
  Clearing,       \* the tasks whose fetcher empties its panel when it fails
  DegradedAfter,  \* failures in a row of a task that make the console degraded
  OfflineAfter,   \* failures in a row of all tasks that make it offline
  MaxVersion,     \* bound on the changes of what the backend answers
  None, Failed

ASSUME PollerAssumption ==
  /\ Direct \subseteq Tasks /\ Clearing \subseteq Tasks
  /\ DegradedAfter \in Nat \ {0} /\ OfflineAfter \in Nat \ {0}
  /\ MaxVersion \in Nat
  /\ None \notin Nat /\ Failed \notin Nat \union {None}

VARIABLES
  running,  \* start() was called, and stop() was not
  hidden,   \* document.hidden
  health,   \* what the poller last reported
  streak,   \* failed runs in a row, over all tasks
  entry,    \* the scheduler's record of each task
  runs,     \* the fetches under way
  shown,    \* the version of the answer each panel shows
  version   \* the version of the data the backend would answer

pollerVars == <<running, hidden, health, streak, entry, runs, shown, version>>

Versions == 0..MaxVersion
Answers == Versions \union {Failed}
Entries == [failures : 0..DegradedAfter, timer : BOOLEAN, inFlight : BOOLEAN]
(* A fetch, by the scheduler or direct.                                     *)
Runs == [task : Tasks, scheduled : BOOLEAN, aborted : BOOLEAN,
         answer : Answers \union {None}]

PollerInit ==
  /\ running = FALSE /\ hidden = FALSE
  /\ health = "healthy" /\ streak = 0
  /\ entry = [t \in Tasks |-> [failures |-> 0, timer |-> FALSE, inFlight |-> FALSE]]
  /\ runs = {}
  /\ shown = [t \in Tasks |-> None]
  /\ version = 0

(* Counters are only compared with their thresholds: they stop there.       *)
Counted(n, limit) == IF n < limit THEN n + 1 ELSE n

healthFor(failures, failed) ==
  IF failed >= OfflineAfter THEN "offline"
  ELSE IF \E t \in Tasks : failures[t] >= DegradedAfter THEN "degraded" ELSE "healthy"

(* Mutant: a run is started beside the one under way.                       *)
ExecutableTwice(e) == running' /\ ~hidden'

Executable(e) == running' /\ ~e.inFlight /\ ~hidden'

(* schedule(), and execute() of a task whose timer is cleared.              *)
Scheduled(e) == [e EXCEPT !.timer = running' /\ ~hidden']
Executed(e) == [e EXCEPT !.timer = FALSE, !.inFlight = e.inFlight \/ Executable(e)]

NewRun(t, scheduled) ==
  [task |-> t, scheduled |-> scheduled, aborted |-> FALSE, answer |-> None]

(* Some tasks are executed: those of them that are idle start a run.        *)
Execute(S) ==
  /\ entry' = [t \in Tasks |-> IF t \in S THEN Executed(entry[t]) ELSE entry[t]]
  /\ runs' = runs \union {NewRun(t, TRUE) : t \in {u \in S : Executable(entry[u])}}

RunAll == Execute(Tasks)

Start(immediately) ==
  /\ ~running /\ running' = TRUE
  /\ UNCHANGED <<hidden, health, streak, shown, version>>
  /\ \/ immediately /\ RunAll
     \/ ~immediately /\ entry' = [t \in Tasks |-> Scheduled(entry[t])] /\ UNCHANGED runs

ClearTimers == entry' = [t \in Tasks |-> [entry[t] EXCEPT !.timer = FALSE]] /\ UNCHANGED runs

Stop ==
  /\ running /\ running' = FALSE
  /\ ClearTimers
  /\ UNCHANGED <<hidden, health, streak, shown, version>>

VisibilityChange ==
  /\ hidden' = ~hidden
  /\ UNCHANGED <<running, health, streak, shown, version>>
  /\ \/ ~running /\ UNCHANGED <<entry, runs>>
     \/ running /\ hidden' /\ ClearTimers
     \/ running /\ ~hidden' /\ RunAll

Refresh ==
  /\ UNCHANGED <<running, hidden, health, streak, shown, version>>
  /\ RunAll

TimerFires(t) ==
  /\ entry[t].timer
  /\ UNCHANGED <<running, hidden, health, streak, shown, version>>
  /\ Execute({t})

(* An approval refreshes a panel itself.                                    *)
FetchDirectly(t) ==
  /\ t \in Direct /\ \A r \in runs : r.task = t => r.scheduled
  /\ runs' = runs \union {NewRun(t, FALSE)}
  /\ UNCHANGED <<running, hidden, health, streak, entry, shown, version>>

Replace(r, s) == runs' = (runs \ {r}) \union {s}

BackendAnswers(r) ==
  /\ r.answer = None /\ ~r.aborted
  /\ \E a \in {version, Failed} : Replace(r, [r EXCEPT !.answer = a])
  /\ UNCHANGED <<running, hidden, health, streak, entry, shown, version>>

(* Mutant: a hanging fetch is not aborted.                                  *)
TimeoutNever(r) == FALSE /\ UNCHANGED pollerVars

(* Only the scheduler's fetches have a timeout.                             *)
TimeoutFires(r) ==
  /\ r.scheduled /\ ~r.aborted /\ r.answer = None
  /\ Replace(r, [r EXCEPT !.aborted = TRUE])
  /\ UNCHANGED <<running, hidden, health, streak, entry, shown, version>>

Succeeded(r) == ~r.aborted /\ r.answer \in Versions

(* What the fetcher does with the answer.                                   *)
Panel(r) ==
  CASE Succeeded(r) -> r.answer
    [] ~Succeeded(r) /\ r.task \in Clearing -> None
    [] OTHER -> shown[r.task]

(* A success while offline ends the outage and refreshes everything.        *)
Recover(r) ==
  /\ Succeeded(r) /\ health = "offline"
  /\ streak' = 0
  /\ LET cleared == [t \in Tasks |-> [entry[t] EXCEPT !.failures = 0,
                                        !.inFlight = @ /\ t # r.task]]
         others == {t \in Tasks \ {r.task} : Executable(cleared[t])}
     IN /\ health' = healthFor([t \in Tasks |-> cleared[t].failures], 0)
        /\ entry' = [t \in Tasks |-> IF t = r.task THEN Scheduled(cleared[t])
                                     ELSE Executed(cleared[t])]
        /\ runs' = (runs \ {r}) \union {NewRun(t, TRUE) : t \in others}

Count(r) ==
  /\ ~(Succeeded(r) /\ health = "offline")
  /\ streak' = IF Succeeded(r) THEN 0 ELSE Counted(streak, OfflineAfter)
  /\ LET settled == [entry[r.task] EXCEPT !.inFlight = FALSE,
                       !.failures = IF Succeeded(r) THEN 0 ELSE Counted(@, DegradedAfter)]
     IN /\ entry' = [entry EXCEPT ![r.task] = Scheduled(settled)]
        /\ health' = healthFor([t \in Tasks |-> entry'[t].failures], streak')
  /\ runs' = runs \ {r}

Settle(r) ==
  /\ r.answer # None \/ r.aborted
  /\ shown' = [shown EXCEPT ![r.task] = Panel(r)]
  /\ UNCHANGED <<running, hidden, version>>
  /\ \/ r.scheduled /\ (Recover(r) \/ Count(r))
     \/ ~r.scheduled /\ runs' = runs \ {r} /\ UNCHANGED <<health, streak, entry>>

BackendChanges ==
  /\ version < MaxVersion /\ version' = version + 1
  /\ UNCHANGED <<running, hidden, health, streak, entry, runs, shown>>

RunStep(r) == BackendAnswers(r) \/ TimeoutFires(r) \/ Settle(r)

PollerNext ==
  \/ \E b \in BOOLEAN : Start(b)
  \/ Stop \/ VisibilityChange \/ Refresh \/ BackendChanges
  \/ \E t \in Tasks : TimerFires(t) \/ FetchDirectly(t)
  \/ \E r \in runs : RunStep(r)

(* Timers fire, and a fetch that was aborted or answered settles.           *)
TaskStep(t) ==
  \/ TimerFires(t)
  \/ \E r \in runs : r.task = t /\ r.scheduled /\ (TimeoutFires(r) \/ Settle(r))

PollerSpec == PollerInit /\ [][PollerNext]_pollerVars

-------------------------------------------------------------------------------
(* The scheduler's records, the fetches and the panels have their types.    *)
PollerTypeOK ==
  /\ running \in BOOLEAN /\ hidden \in BOOLEAN
  /\ health \in {"healthy", "degraded", "offline"} /\ streak \in 0..OfflineAfter
  /\ entry \in [Tasks -> Entries]
  /\ runs \subseteq Runs
  /\ shown \in [Tasks -> Versions \union {None}] /\ version \in Versions

(* What the console shows never goes back.  A panel that only the scheduler *)
(* fetches keeps its newest answer: a task does not overlap itself, so      *)
(* answers cannot land out of order.  And the first success after an outage *)
(* ends it: no endpoint is reported as failing on account of an outage that *)
(* is over.  (poller.js, execute and settle.)                               *)
ConsoleNeverGoesBack ==
  [][/\ \A t \in Tasks \ Direct :
          shown[t] # None /\ shown'[t] # None => shown[t] =< shown'[t]
     /\ health = "offline" => health' # "degraded"]_pollerVars

(* While the console runs and is shown every task is fetched again and      *)
(* again, whatever fails or hangs.                                          *)
TasksKeepRunning ==
  \A t \in Tasks :
    <>[](running /\ ~hidden) => []<>(entry[t].inFlight) /\ []<>(entry[t].timer)
===============================================================================
