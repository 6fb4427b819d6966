# Porygon: specification and proofs

TLA+ specifications of Porygon, a container-behaviour monitor with human-approved
response. They are translated from the source; every definition that models
code is listed with its lines in `PROJECT.json` (`map`).

## 1. The system

| Part | Where | State | Operations | Correct if |
| --- | --- | --- | --- | --- |
| Collector | `collector/` | SQLite outbox, event-time cursor, container cache | read Docker event windows, enqueue, deliver batches, acknowledge or back off | what lies behind the cursor was captured; what was captured is stored, once |
| Telemetry adapter | `telemetry/` | SQLite outbox, (inode, offset) cursor, dead letters | tail the Falco file, normalise, enqueue or dead-letter, deliver, prune | no line is skipped; every event is stored, once; every dead letter is kept or counted |
| Ingestion and identities | `main.py` 264-620 | event rows, image and container identities | store a batch once, upsert identities, correlate process with container and parent | identities follow the latest event; links and digests are true; workers do not deadlock |
| Retention | `retention.py` | the two event tables | delete a bounded batch of old rows | none of the above is disturbed |
| Baselines | `baseline.py`, `main.py` 847-1046 | profiles (draft, active, retired) | build a version, activate it | what is decided under the lock holds at the commit; one active profile |
| Scoring | `scoring.py`, `main.py` 1393-1600 | anomaly scores by observation key | score one window | no score rests on training data; unknown programs score high |
| Calibrated models | `calibrated_*.py`, `run_calibration.py`, `main.py` 1117-1392 | models with their runs and blocks, scores | create a model, rate a run | one row per key; conservative p-values |
| Detection | `detection.py`, `rule_expression.py`, `main.py` 1724-2205 | runs, incidents, allowlists, custom rules | detect once per key, manage lists and rules | the answer is for the rules in force; allowlists only calm; a rule means what its text says |
| Incident workflow | `main.py` 2291-2356 | incident status | open, acknowledged, resolved, dismissed | - |
| Response policy | `response.py` | none | allowed and recommended actions | closed under milder actions |
| Response engine API | `main.py` 2662-3290 | recommendations, executions, audit events | generate, approve, reject, claim, complete, roll back, retry | nothing happens without an approval for exactly that; the audit trail explains every status |
| Responder | `responder/` | none that survives | claim, inspect, act on Docker, verify, report | the record says what Docker shows; nothing is stranded; what is approved is decided |
| Image-scan queue | `main.py` 3324-3720 | scans, artifacts, findings, intelligence | create, claim, renew, complete, fail | an ended scan has what its status promises; every scan ends |
| Scanner | `scanner/` | none that survives | claim, renew in the background, scan, report | an outage of a feed erases nothing |
| AI auditor | `ai_auditor.py`, `main.py` 2395-2560 | none | ask a provider, fall back, clamp the answer | a failed audit reports nothing |
| Heartbeats | `main.py` 232-262, the `heartbeat_loop` of each service | one row per service | post, merge | who says "ready" was heard of |
| Operator console | `dashboard/` | poller, panels, token store | poll, recover, refresh, expire | panels never go back, polling goes on, an idle console locks |
| Alert script | `scripts/incident_alerts.py` | state file | check, mail, save | what is noted as notified was mailed |
| Gateway, other scripts, experiments | several | - | - | not modelled, section 8 |

(`main.py` stands for `backend/src/porygon_api/main.py`.)

How they interact: the two sensors push batches to the backend over HTTP and delete
what was acknowledged. Operators drive baselines, scoring, detection and response
through the backend's API, by the console or by scripts. The responder and the scanner
poll the backend for leased work. All shared state is in PostgreSQL; the backend keeps
none. Handlers are synchronous functions that FastAPI runs in a thread pool, one session
per request.

What is hard here: handlers read rows without locking them and write them later
(READ COMMITTED, no version column, SQLAlchemy writes changed columns only); leases
expire by wall clock while their holder still works; calls are given up by their client
and handled later all the same; Docker changes under the responder's hands; every process
may restart at any point; events arrive late, twice and in any order.

## 2. Modules

| Module | Models | Extends |
| --- | --- | --- |
| `ResponsePolicy` | allowed actions by thresholds, recommended action | - |
| `ResponseApi` | the tables and every endpoint of the response engine that changes them | `ResponsePolicy` |
| `ResponseLifecycle` | abstract: the life a recommendation is promised | - |
| `ResponseEngine` | `ResponseApi` + the responders' loop + Docker | `ResponseApi` |
| `ScanQueue` | the image-scan tables and handlers, the scanners' scan and renewal loops | - |
| `ScanLifecycle` | abstract: what is promised for the scan of one key | - |
| `ImageReport` | what a completed scan writes into intelligence and findings, from two feeds | - |
| `EventDelivery` | abstract: an event is owed until it is stored, and stored once | - |
| `Outbox` | the spool of a sensor, its delivery loop and the table at the other end | - |
| `FalcoTail`, `DockerCapture` | the two sources that fill an outbox | `Outbox` |
| `DeadLetters` | the adapter's dead-letter table | - |
| `Identities` | container and image identities, the snapshots events carry | - |
| `Ingestion` | process events: correlation, insertion by concurrent workers; retention | `Identities` |
| `BehaviorProfiles` | versions and activation of profiles under the advisory lock | - |
| `BehaviorFeatures` | features, quality gates, distances and score bands | - |
| `Scoring` | scoring requests beside builds, activations, events and retention | `BehaviorProfiles`, `BehaviorFeatures` |
| `Calibration` | calibrated rarity models and their scores | - |
| `Conditions` | condition trees of custom rules and what they say of an event | - |
| `DetectionRules` | built-in and custom rules, allowlists, severity, confidence | `Conditions` |
| `Detection` | detection requests beside operators, events and retention | `DetectionRules` |
| `RuleExpression` | conditions as trees and as text, and the rule editor | `Conditions` |
| `AiAudit`, `Heartbeats`, `Poller`, `Credentials`, `IncidentAlerts` | the parts around the core | - |
| `MC*` | instances for TLC | |
| `ResponseProofs` | theorems on the policy, the API and the engine | `ResponseEngine` |
| `ScanQueueProofs` | theorems on the scan queue | `ScanQueue` |
| `TelemetryProofs` | theorems on the outbox and the two sensors | `FalcoTail`, `DockerCapture` |
| `FiniteLemmas` | lemmas on finite sets, folds and rounded percentages | - |
| `IngestionProofs` | theorems on identities and ingestion | `Ingestion`, `FiniteLemmas` |
| `DetectionProofs` | theorems on detection runs and allowlists | `Detection`, `FiniteLemmas` |
| `ScoringProofs` | theorems on profiles, scoring and calibration | `Scoring`, `Calibration` |
| `SurroundingsProofs` | theorems on the parts around the core | those parts |

Compositions: the responder with Docker and the API (`ResponseEngine`); scanners with the
scan queue (`ScanQueue`); each source with its outbox and the backend's table
(`FalcoTail`, `DockerCapture`); the normaliser with both ingestion endpoints and retention
(`Ingestion`); profiles with scoring, events and retention (`Scoring`); rules with runs,
operators, events and retention (`Detection`). The remaining parts share only the database
server, so their modules are not composed.

### ResponseApi and the code

A recommendation is a (incident, target) pair, because `recommendation_key` hashes those
two and the policy; an execution is identified by its recommendation, because
`recommendation_id` is unique in `response_executions`. Rows keep the columns control
depends on. `lease` is `none`, `running` or `expired` for a NULL, future or past
`lease_expires_at`; `aged` says whether `created_at` is beyond
`response_approval_max_age_seconds`. `audit[r]` is the set of event types recorded.

A handler is two steps of a worker: *Read* (`db.get` and the checks, with the row as seen
and as it shall be) and *Commit* (`Flush` writes the columns whose new value differs from
the value **seen** into whatever the row is **now**). That is what the SQLAlchemy unit of
work does at `db.commit()` (or at the autoflush just before it, inside the same
transaction: from then on the row lock makes concurrent writers wait, so flush and commit
are one step). A handler that reads two tables (approve: recommendation, execution,
incident) reads them in one step; between those SELECTs nothing of this transaction is
visible, and what another transaction commits between them can as well commit after all
of them, as the later unique constraint and the later commit decide: this merges
behaviours only where the outcome is the same as a Read placed before or after the other
commit. A refused request changes nothing and is no step. The claim handler holds a row
lock from its SELECT on (`FOR UPDATE SKIP LOCKED`) and is one step, together with the
requeue it starts with. It passes over rows a handler has flushed and not yet committed;
`Claimable` lets it pass over any row a handler has read (`MayBeLocked`), which covers both.
`IntegrityError` rolls back the whole transaction.

`complete` names the executor, not the attempt; `CompleteRead` therefore takes any
outstanding claim `c` and checks the row only for "claimed" and "same executor", as the
code does. `RestartBackend` abandons all transactions and may change the execution mode.

### ResponseEngine and the code

A responder goes through `claimed` -> (`Inspect`) `inspected` -> (`CallDocker`) `called`
-> (`Verify`) `done` -> (`SendReport`) `reporting` -> (`Answered`) idle. `Inspect` is
`_exact_container`, `_guard` and the preconditions of `_apply`; the command is chosen from
the state *seen* and carried out in the state the container *has by then*. Faults are:
a Docker error at any point (`DockerFails`), a call that takes effect but whose answer
times out (`DockerAnswerLost`: a requests timeout is no `DockerException`, so
`response_loop` reports `executor_internal_error`), a responder crash or a lost claim
response (`Crash`), a report lost on the way (`ReportLost`), a report whose answer the
responder stops waiting for after 15 s although the backend may still take it up
(`AnswerTimesOut`, enabled by `DelayedReports`), and backend restarts. A responder that
restarts keeps its `executor_instance_id` (it is configured), so crash and restart are one
step. `OutsideActors` are containers somebody else controls too.

The state has two history variables that no action reads. `crossed` are the recommendations
claimed while an attempt at the other operation was still under way (at a responder, in a
report, or in a handler that had read it), or beside what such a claim left behind.
`overtaken` are those completed by a handler that had read another `error_code` than the
row had when it wrote. Both last until the next claim.

Docker itself is external: `Accepted` and `After` give the states pause, unpause, stop and
start are accepted in and lead to.

### ScanQueue and the code

A scan is identified by its key (`uq_image_scans_key`); what a completion stores for it is
represented by the attempt that produced it and by the CVE ids of its report. Handlers that load
their row with `db.get` (create, renew, complete, fail) are a Read and a Commit as in
`ResponseApi`; `claim` locks its row and is one step. A row that another handler is committing
is locked and skipped by `SKIP LOCKED`: `IsNext` lets a claim pass over a row some transaction
is open on (`MayBeLocked`), which covers both a handler that has flushed and one that has not.
`Conflict` is every unique constraint a completion can run into: the artifacts of the scan, and
the rows of new CVEs, which it looked up one by one and inserts; a conflict rolls everything
back and is answered with an error.

A scanner is `polling`, `scanning`, `completing` or `failing`; `call` is the handler it
waits for, and an answer reaches it only while it still waits for that handler, so a call
that was given up on runs on in the backend. `AfterError` is the nest of `except` clauses
of `scan_loop`: any error of the scan or of the completion call leads to a failure report,
any error of that report to polling. `RenewRead` may happen at any time while the loop
works, as `renew_scan_lease` runs beside it; its errors are ignored. A lease runs out
freely when nobody renews it; losing it in spite of renewal is a fault. `Oversized` are
the scans whose results the backend refuses with 413 or 422. Scanner processes may share
an instance id (two replicas, or a process and its replacement).

### Outbox, FalcoTail, DockerCapture and the code

The two `spool.py` files are copies of one design, so both sources extend `Outbox`. An
SQLite block is one step. `rank` orders the rows by `enqueued_at`, `waiting` are those
whose `next_attempt_at` lies ahead, `unfit` those whose payload the API's schema refuses.
A delivery is `PostBatch`, then what becomes of the call: `Answer` (stored, answered),
`RefuseUnfit` (422), `Refuse` (503), or `TimeOut`, after which the loop puts the batch off
while the call may still run at the backend (`orphans`, `AnswerNobody`). An SQLite error
in the loop ends its thread or task (`LoopDies`), since only HTTP and value errors are
caught there. `Retain` is retention, as far as it matters here: `deleted` remembers what
was stored once.

`FalcoTail` has the reader's loop step by step: stat, open, read a line, put it into the
spool or the dead letters, advance the cursor. Rotation names a new file; the cursor
carries the inode of the *stat*, the lines are those of the file *opened*, and between
the two the file may be rotated. Files only grow, as Falco's own `file_output` makes them;
truncation and reuse of an inode are listed as hazards.

`DockerCapture` has the windows `[since, until]` with their overlap, the stream that ends
at `until`, events stamped before they are published (`Lag`), the two ways the cursor
moves (after an event, at the end of a window), and the repair of rows an older version
left. `begun` is a history variable: the start of the window that set the first cursor;
the code promises nothing about earlier events. `Lag <= Overlap` is the assumption the
overlap of the configuration stands for. What the normaliser writes is taken to fit the
schema of the API; only rows of an older version do not.

`DeadLetters` stands apart: `RecordDeadLetter` and `OpenStore` insert and prune in one
transaction; the clock may be set back.

### Identities, Ingestion and the code

An event carries a snapshot of its container, as `build_container_snapshot` or the
normaliser's cache have it; a snapshot is named by the event that took it, a digest by
the image it is the digest of. `IngestRuntime` merges a batch in one transaction:
`MergeContainer` and `MergeImage` are the conflict clauses of the two upserts, with
`NewerOrEqual` their `CASE` on `last_seen_at`. A process event is `Receive`d with its
batch sorted by time and id, then per event `Correlate`d (container by id prefix, digest,
parent within the lookback) and `Insert`ed, and the batch is committed or aborted. Other
workers see committed rows only, their own staged ones, and wait for a row another
transaction has inserted (`WaitsFor`).

### BehaviorProfiles and the code

A profile is identified by digest and model hash. What the build computes from events is
the choice of a profile. Both handlers are three steps: what is decided before the advisory lock,
the statements under it, and the commit, which releases it. The activation loads the
profile before the lock: at the commit it writes `active` over whatever the row is by
then, and the retirement of the others is what the `UPDATE` found under the lock.
The profile's content, the events it was built from and its quality are in `Scoring`:
`BehaviorProfiles` alone is about the lock.

### BehaviorFeatures, Scoring, Calibration and the code

`BehaviorFeatures` counts what `baseline.py` counts (families of tokens, bigrams within a
container, non-empty windows) and averages in integers, with proportions as fractions of
10000. Of the Jensen-Shannon distance it keeps what the properties need: 0 for equal
distributions, the maximum for disjoint ones, something of `Partial` in between; of the
numeric deviation only its range. `TotalScores` is therefore a set of possible scores.

`Scoring` has the request's four steps (count, list, lock, commit) beside the builds and
activations of `BehaviorProfiles`, the arrival of events and retention. A profile is named
by what it was built from (`TrainedOn`): `Build` is enabled when a selection finds exactly
these events. In `Calibration` rows are never updated, so a handler is one read and one
commit; a hash stands for what it covers, and `SortedAlike` says for which sets of runs
the database's collation and Python's order agree; `Minima` are the numbers of calibration
runs a request may ask for.

### DetectionRules, RuleExpression, Detection and the code

`DetectionRules` translates `detection.py` to operators on sets of events: which shells
and tools a profile has not seen, the cap on reports, sequences, custom conditions with
ancestors, exemptions and what they take along, severity and confidence in percents. The
doubts of the matches are multiplied in the order `_deduplicate` sorts them into; the code
multiplies floats and rounds once, the model has hundredths of a percent and rounds down at
each factor. Conditions are trees (`Conditions`), evaluated as a function on the nodes of
the tree, whose depth `validate_custom_condition` limits.
`Detection` has `run_detection` with its five reads and its commit, the run key, the
narrower unique constraint (`SameInputs`), changes of rules and allowlists by operators,
expiry, restarts with a new matcher revision, events and retention. A custom rule may raise
at some events (`raises`); the matches it made before the first of them stay.

`RuleExpression` has printing and parsing on sequences of tokens, and the editor that moves
between both forms. A text's length is the number of its tokens, a value is one token, a
list included. Values without a text (null, objects) are `Unwritable`: the rule then has no
`expression`, here the empty text. Values whose text is no value again (numbers written
with an exponent, lists nested too deeply) are `Unreadable`. A text longer than
`MAX_EXPRESSION_LENGTH` is refused. The module recurses over trees and texts, which is why
it has no theorems and why `Detection`, which has, does not use it.

### The surrounding parts and the code

- `Poller`: `execute`, `schedule` and `run` of `poller.js` with its timeouts and failure
  counts, and `app.js` where it fetches beside the scheduler. A timer that is set may fire
  at any time.
- `Credentials`: the session store and its in-memory mirror. The expiry timer fires at any
  time or not at all: it is installed after two requests were answered, and browsers hold
  timers of hidden tabs back. `overdue` counts the periods since it fired last.
- `Heartbeats`: one service, its loop, and the calls the backend handles, one statement a
  step, late ones included.
- `IncidentAlerts`: load, fetch, mail one by one, save; `Torn` is a state file whose
  writing was cut off.
- `AiAudit`: one audit, with Gemini's chain of models; numbers of an answer are classes, NaN
  among them. `calls` is the history of what came of each request to a provider.
- `ImageReport`: per scan fetch, read, commit; `Written` writes the columns that changed
  from what was *read*.

## 3. Runs

| Run | Instance | Checks |
| --- | --- | --- |
| `api_race` | 1 recommendation (observe or pause), 2 concurrent handlers, 2 executors, 2 attempts | `AuthorizedExecution`, `ClaimIsSound`, `AuditExplainsStatus`, `ApprovalIsBinding`, `NoDisruptionWhileDisabled`, `LifecycleSpec` |
| `engine` | fairness; 3 recommendations, on a container of its own, one others change too and a protected one; all 3 actions, 1 responder, 1 handler, 2 faults, late reports, 4 attempts | `OnlyApprovedEffects`, `ApprovedActionIsDecided`, `RequestedRollbackIsDecided` |
| `engine_race` | 1 recommendation, 2 responders, 2 handlers, 2 faults, late reports, 3 attempts | `UncrossedOutcomeIsTrue`, `ContainmentIsReleasable` |
| `scan_queue` | 2 scans with a CVE in common, 2 scanners, 2 handlers, 1 fault | `OutcomeHasEvidence`, `LifecycleSpec` |
| `scan_live` | fairness; 2 scans, one of them refused; 2 scanners with one instance id, 1 handler, 2 faults | `EveryScanEnds` |
| `falco` | fairness; 4 lines (2 events, malformed, foreign), 2 files, spool of 1, 2 faults | `NothingSkipped`, `DeliverySpec`, `EveryLineIsStored` |
| `capture` | fairness; 2 events and a legacy row, windows, overlap and lag of 1 s, spool of 2, 1 fault | `NothingMissed`, `EveryEventIsStored` |
| `ingestion` | 4 Docker events of 2 containers of 1 image, 2 execs, 2 workers, 1 abort | `LatestEventWins`, `ParentLinksAreRight`, `DigestWasReported`, `NobodyWaitsInACircle` |
| `scoring` | 2 profiles, 3 events, 2 windows, 2 workers, 2 scorers; 2 runs, 2 callers | `LockSerialises`, `ActiveProfileRemains`, `ScoresAreIndependent`, `NewProgramsAreHigh`, `PValueIsConservative` |
| `detection` | 3 events, 2 custom rules, 3 allowlists, 2 requests, 1 upgrade, 2 operator changes; the editor with conditions of 4 leaves (one value has no text, one has a text that is no value), up to depth 3 with 3 leaves, texts up to 17 tokens | `AnswerIsForTheseRules`, `AllowlistsOnlyCalm`, `RepresentationsAgree` |
| `surroundings` | fairness; 2 panels; 2 tokens; 1 service; 2 incidents, 2 checks; 3 models; 2 scans, 2 CVEs; 4 dead letters | `ConsoleNeverGoesBack`, `TasksKeepRunning`, `IdleTokenIsLocked`, `ReadyIsKnown`, `NotifiedWasMailed`, `ReportIsTheLastAnswer`, `OutageKeepsIntel`, `LettersAddUp` |
| `scan_final` | 1 scan, 1 scanner, 1 fault | **violated**: a completed scan stays completed |

Type invariants are in no run: nearly all are theorems (section 5), two document the state
(section 6).
Every checked property has a mutant of a mapped definition (`PROJECT.json`, `mutants`)
under which its run fails; the mutants are the definitions marked so in the modules.

### Disagreements between the code and its own words

*A completed scan is made a failed one* (`scan_final`): the completion call times out at the
scanner while the handler runs on; the failure report that follows reads the claimed row; the
completion commits; the failure report commits. The record is failed, its report is stored.

Four more statements of comments, messages or documents are definitions of the modules that the
code does not keep and no run lists. Put into the run named here, each is violated; the
properties the runs do list say how far it fails.

- *A report of one attempt is recorded as the outcome of another* (`RecordedOutcomeIsTrue`,
  `engine_race`): `complete` names the executor, not the attempt. The responder gives up on
  the report of a pause after 15 s, the lease runs out, it claims and pauses again, the
  operator asks for the rollback, the responder claims that; now the backend handles the
  first report and records `rolled_back` of a container that is still paused.
  `UncrossedOutcomeIsTrue` says that this, an attempt crossing one at the other operation, is
  the only way a record becomes untrue, and that the next claim that crosses nothing sets it
  right.
- *A rejected recommendation is executed* (`RejectedIsNotExecuted`, `api_race`): reject and
  approve both read `proposed`; approve commits, then reject overwrites `status`: the row
  says rejected, the execution is pending and will run. `LifecycleSpec` has this overlap as
  what it is, a request decided on one state and written over another (section 5).
- *A rule's text is refused* (`FormsCannotDrift`, `detection`): a valid condition whose text is
  longer than `MAX_EXPRESSION_LENGTH`, or that has a number written with an exponent, cannot
  be submitted as the text it is shown with.
  `RepresentationsAgree` says that length and values are all that can come in between. (A
  rule that compares with null or an object is shown without a text, which the code
  provides for.)
- *An idle token is sent* (`IdleTokenIsNotSent`, `surroundings`): requests take the token from
  the mirror, which only the timer clears; while a browser holds the timer back the console
  sends what its store would no longer return. `IdleTokenIsLocked` bounds this by the timer's
  delay.

The following are in the models too, as steps the code can take. No definition states their
contrary; the properties above hold beside them or exempt them, as noted there.

- With two responders, which the shipped composition does not run, the holder of an
  expired lease may act after another finished the execution and its rollback
  (`crossed`).
- A retry that was read before a completion and commits after it clears the error code of a
  failed execution, and nothing offers a retry or the rollback of its container any more
  (`overtaken`).
- An approval commits after its incident was closed; an incident's status follows the last
  commit. `generate` returns a proposal too old to be approved, although the refusal
  advises to generate a fresh one.
- `build_scan_key` leaves out the Docker host that the README puts into the identity. A
  failure report ends the claim of the scanner that took over.
- Two activations of a draft pass their status check; the first commits, a third one
  retires the profile, the second gets the lock and writes `active` over a retired one.
- After an upgrade of the matcher the request for an old score is refused for ever, because
  `uq_detection_runs_score_ruleset_allowlists` has no revision (`SameInputs`). A custom rule
  whose slug is too long for the evidence column fails the run it matches in.
- A calibrated artifact whose runs the database sorts otherwise than Python can never be used.
- The alert script may send a mail twice after an error in the middle of a check, although
  its docstring says a restart never does; `NotifiedWasMailed` is about the other direction.
- The AI audit of a container with a scored window reads a column that `AnomalyScore`
  does not have (`score_value`) and is answered 500 (`Refuse`).

### Bounds, and why they are enough

*Response.* `MaxAttempts` stops leases from expiring and failures from being retried at that
attempt number; claims are never blocked, so the bound removes no reachable hazard, only
repetitions. Two attempts are enough for every overlap of an old and a new claim, three for one
of each phase plus a retry. An attempt at the bound that is lost stays lost, which would refute
progress: with two faults and `MaxAttempts = 4` it does not come to that in `engine`. `MaxFaults
= 2` allows a fault during the recovery from a fault. Two handlers are enough for every pair of
conflicting ones; the theorems hold for any number. In `engine` one of the three incidents is
acted on in a behaviour (`LeftAlone`), so that each kind of container is gone through with every
action; faults strike attempts on the container nobody else changes (`FaultsOnlyThere`), since
on the others attempts fail without one, and `EffectsWereApproved` is proved for all of them
together. In `engine_race` there are two of everything that can be concurrent: an old claim
beside a new one, a completion beside a retry or a rollback; it has the one recommendation,
since several on one container are exempt from its properties (`Sole`) and others do not meet.
`Workers` and `Executors` are symmetric in `api_race` and `engine_race`: no operator
distinguishes them, and no liveness is checked there.

*Scans.* One worker serves renewals while another is inside a completion or a failure
report, or the two are two results of one scan: every pair of handlers on one row. Two
scans are enough for two inserts of one CVE and for the claim order. A fault is a crash, a
restart, a lost call or answer, or a lease lost in spite of renewal; `scan_live` has two,
so that one may interrupt the recovery from the other. Attempts are not bounded, but every
attempt after the first of a scan costs a fault.

*Sensors.* A spool of one row makes every second event meet a full one; two files are one
rotation, and `falco` has a line of every kind before and behind it. Two faults kill both
loops, or one twice; safety is proved for any number. In `capture` a lag as long as the
overlap is the worst the assumption allows; three seconds are two windows beyond the first, and
the spool holds one row less than there are events.

*Ingestion.* Two events of one container at one time and an earlier one, in any grouping
and repetition, are all cases of the conflict clauses; a second container shares the image
and the id prefix. Either all four events come without process events, or one of each
container with the shell and its child (`MCNext`): the correlation reads only what a
container's row says, and each of these events may say everything a row can.

*Scoring.* One profile trains on both training events, the other one on the second alone; one of
the two windows overlaps the training, one event arrives in the window after it. The
tables of `Calibration` share nothing with these and move while the others are empty.
`MaxOpen = 2` bounds the handlers of both kinds open together: a race is between two.

*Detection.* A shell, a tool it starts and a privileged container are the findings that
depend on each other; two rules of one slug, an expiring allowlist and one that repeats
it are the cases of the indices. Two changes allow a rule or allowlist to be created and
withdrawn around a request, or two to be created. The cap on reported tools is above the
number of unseen tools here; `AllowlistingOnlyCalms` is proved for every cap.

The editor works before any detection on conditions of its own. Depth 3 and three leaves are
every nesting of two joins and a negation, in every order. The longest text within these
limits is longer than 17 tokens, so the limit on the length is met, and nesting deeper than
the parser's limit is not, as the depth of valid trees is smaller in the code, too.

*Surroundings.* One part moves in a behaviour (`part`), the others rest. Two of each kind
(panels, checks, scans, heartbeats under way) are one race; the page of listed incidents
is shorter than there are incidents. A check therefore mails one incident and dead letters
stay below the byte limit one by one; `NoAlertIsDropped` and `LettersAreAccountedFor` are
proved for all numbers and sizes. `MaxOverdue = 4` lets the expiry timer be two lifetimes
late.

The runs without deadlock checking stop where everything has ended and no fault is left.

## 4. Fairness

`engine` assumes what the loops do: a responder keeps polling and finishes the
attempt it is in (weak fairness of `ResponderClaims` and `Attempt`); a handler that has
read commits; leases run out. A report waiting in the server's queue is handled although
operator requests keep occupying the worker: the thread pool serves requests in order, so
the report is taken up if the worker is free again and again (strong fairness). Nothing is
assumed of operators, retries, faults, other actors or the execution mode:
`ApprovedActionIsDecided` is conditional on the mode staying live from some point, since
`claim_response_execution` ignores disruptive actions otherwise.

`scan_live` assumes that a handler that has read commits, that time passes (a lease nobody
renews runs out) and that a scan loop goes on. Its calls compete with renewals for the
backend's threads; the thread pool serves them in order, so a call that can be taken up
again and again is (strong fairness of `ScanLoop`). Nothing is assumed of renewals,
requests or faults; `ServedBy` restricts `EveryScanEnds` to scans of a version some
scanner runs, because `claim_image_scan` gives a scanner no other.

`falco` and `capture` assume weak fairness of the reader or source, of the delivery loop
and of back-off times: both loops are `while` loops that nothing but a fault ends, and
faults are not fair. Falco, Docker, rotation and retention owe nothing. A loop that has
died is not restarted by fairness; the properties end there, as the process would stay up
without it. `surroundings` assumes that the console's timers fire and that an aborted or
answered fetch settles, as the browser's event loop does; not that the backend answers.

## 5. Proofs

`ResponseProofs` proves, for any sets of incidents, recommendations, executors and
workers and any bound, `TypeOK`, `AuthorizedExecution`, `ClaimIsSound` (from
`ClaimIsRecoverable` and `ClaimMatchesRow`), `AuditExplainsStatus`, `ApprovalIsBinding`
and `NoDisruptionWhileDisabled`.

None of these is inductive: a commit writes what a Read decided when the row was another
one. `Inductive` adds `TransactionSound(w)`: the columns an open transaction is going to
write are right whatever the row has become. An approval carries an allowed action; a
completion, rollback or retry never carries a claimed status, never changes the action,
and is explained by the audit trail together with its own event. `Flush` writes only
changed columns, so `FlushedExecution` shows that the committed row has either the new
status or the current one, and the current executor and lease unless it left the claimed
states. The other addition, `ApprovalHasExecution`, says that `approved_action` is set
only together with the execution. The assumptions are `ConstantsAssumption` (types of the
constants, NULL values outside their sets).

For any number of handlers the API implements `ResponseLifecycle` (`HandlersFollowLifecycle`).
The abstract state has, beside where a recommendation is, the moves requests have decided
on and not written yet: every state is the legal outcome of a request at the moment it was
read, and a request that nothing overtook is a legal move when it is written. An open
transaction maps to its move (`MoveOf`). The invariant is `Decisive`: the move was legal when
it was decided on (`Legal`), and a recommendation's status agrees with its decision. A commit
writes the target of its move, or, where the possibility of a retry was overtaken, its
other form (`Leads`). Claims and requeues lock their rows and map to moves of their own.

Of the engine the same module proves:

- `EngineTypeCorrect`, and that every behaviour of it is a behaviour of `ResponseApi`
  (`EngineImplementsApi`), so all theorems above hold with responders and Docker, too
  (`EngineFollowsLifecycle` is the last of them).
- `EffectsWereApproved` (`OnlyApprovedEffects`), for any number of responders and handlers and
  with late reports: a claim, once handed out, stays good, because neither the execution
  nor the request for its rollback is ever taken back (`HandedOut`), and a responder past
  its guards acts on an unprotected target (`MayAct`).
- `UncrossedOutcomesAreTrue` (`UncrossedOutcomeIsTrue`), for any number of responders and
  handlers and with reports handled at any time. `WritesSound`: what a completion writes is what
  its report said, of the operation the row was in. `OutcomesSound`: unless `r` is in `crossed`,
  all attempts at it that are under way are at one operation (`OneOperation`), and whatever
  success is on its way to the tables (at a responder, in a report, in an open transaction) is
  in effect (`SuccessIsTrue`).
- `ContainmentStaysReleasable` (`ContainmentIsReleasable`), just as general. `ContainedByAction`:
  only its action brings a container out of running. `FailuresTransient`: an attempt that
  leaves it there ends in a success or in a code that can be retried, unless `r` is in
  `overtaken`.

`ResponseProofs` also proves that the allowed actions are downward closed and that the
recommended action is the most disruptive allowed one.

`ScanQueueProofs` proves `TypeOK`, `OutcomeHasEvidence` and that the queue implements
`ScanLifecycle`. The strengthening is again about open transactions
(`TransactionSound`): whatever has happened to its row since, a handler that read it
claimed finds it claimed or ended, since nothing queues a scan again; a completion has
all CVE rows either stored or among those it inserts, since rows of intelligence are never
deleted; a failure report carries an error code, since a loop that is failing has one
(`FailingHasCode`). `UnfinishedIsClean` gives the rest: an unfinished scan has no error
code and no report. For the refinement each action maps to one abstract step or to a
stutter: the commit of a creation to `Request`, of a completion to `End` or
`LateReport`, of a failure to `End` or, on a scan that has ended, to nothing.

`ScoringProofs` has the profiles, the scores and the calibrated models.

- Profiles: `TypeOK`, `LockSerialises`, `OneActiveProfile` and `ActiveProfileRemains`.
  `LockSerialises` speaks of what one handler found and is broken by another handler's
  commit unless the lock excludes it: `LockIsExclusive` is the missing part, and the frame
  lemma `StillSoFrame` says that a commit on another digest does not matter. That the
  database would refuse two active profiles anyway is `ActivateConflict`; the theorem
  shows that the lock alone suffices.
- `ScoringImplementsProfiles`: scoring requests, events and retention leave the profiles as
  `BehaviorProfiles` has them, so its theorems hold there.
- `ScoresOfOtherWindows` (`ScoresAreIndependent`): `ProfilesSound` says that a profile was built
  from its training interval only and becomes active only if it passed; `Asked` that a
  request was checked to lie outside that interval. Both stay true while builds,
  activations and retention go on between the request's steps.
- `NewProgramsScoreHigh` (`NewProgramsAreHigh`): programs the profile has never seen share no
  token with it in three families that are always observed and weigh 60, nor in the
  bigrams; the two families that may be shared weigh 20. So the categorical distance and
  the novelty are at least 60/80, and their 50 and 30 parts of a hundred at least 60.
- `ScoringTypeOK`: a total score weighs shares of a whole, so it lies between 0 and 1 for any
  events and any families observed (`TotalsAreShares`), and has a band.
- Calibration: `CalibrationTypeOK` and `OneRowPerKey` for any number of callers, runs and rows.
  The strengthening `CallsAreChecked` says that what a request checked when it read is still
  true when it commits: models and their runs are never changed.
- `PValuesAreConservative` (`PValueIsConservative`): of the runs with a low rank take one with
  the least statistic; all the others of them are counted at it.

`TelemetryProofs` has the outbox and the two sensors. What both need of the outbox is
`OutboxInv`: the batch in hand is in the outbox, it is acknowledged only when stored, and
calls given up on are of events queued or stored. `Delivers` is what every step of the outbox
does: nothing queued or stored is lost, and the step is one of `EventDelivery`.

- The adapter, for every log, spool limit, batch size and number of files and faults:
  `TypeOK`, `NothingSkipped`, and that it implements `EventDelivery` (`ImplementsDelivery`).
  Beside `OutboxInv` it has `ReaderInv`: what the cursor and the reader claim of a file
  (`Prefix`) is true as long as the path names that file; the reader goes by the inode of its
  stat, and the file it opened is that one or a later one.
- The collector, for every number of events and faults, window, overlap and lag up to the
  overlap: `CaptureTypeOK` and `NothingMissed`. `DaemonInv`: the log is in the order of the
  stamps up to `Lag`. `CursorInv`: what lies more than the overlap behind the cursor is
  captured. `SourceInv`: so is what the stream has passed, and what was in the log already
  when the window was opened and is older than its start. The step to a new cursor is
  where `Lag <= Overlap` is used. It implements `EventDelivery` from a state in which the rows
  an older version left are owed (`CaptureDelivers`): neither their repair nor their refusal
  by the backend loses one. No run lists that property, `DeliveryFromOld`, since `falco` checks
  the same of the outbox; put into `capture` it holds there.

`IngestionProofs` proves `TypeOK`, `LatestEventWins`, `DigestWasReported`, `ParentLinksAreRight`
and `NobodyWaitsInACircle` for any events, containers, workers and limits. A batch is a fold, so
the proof first shows that the fold has a table for each place of the batch, each made of the
one before by one event (`BatchOfContainers`, `BatchOfImages`), and takes the least place where
something goes wrong. Per event, `RowFits` says of a row and the set of events merged so far
that the row spans them, that its digest and snapshot are of a latest one that has any, that its
digest was reported, and that a resolved row has one; a repeated event changes nothing of that.
For the workers, `TxnFits` says of a transaction that its queue is sorted, that all it has
staged comes before the queue's head, that each staged link names a committed or staged exec,
and that no sibling was missed, the row in hand included. What is staged comes before what is
waited for, hence no circle: (time, id) is a strict order (`BeforeIsOrder`), and every batch can
be sorted by it (`OrderedExists`).

`DetectionProofs` proves `DetectionTypeOK`, `AnswerIsForTheseRules` and `AllowlistsOnlyCalm` for
any events, scores, baselines, allowlists, rules, conditions and number of requests.

- `IInv` relates a stored run to what it was computed from. `RunsComputed`: the allowlists and
  the rules in its key are those recorded with it, and its incident is what the evaluation of
  its recorded score, evidence, allowlists and rules gives. `OneRunPerKey` is the unique index.
  `AnswersFit`: only an answered request has an answer, and that answer is for the score,
  allowlists and rules the request read. Between the reads of a request rules are disabled,
  allowlists expire, events are deleted and the backend restarts with another revision; none
  of this touches what a run has recorded.
- `AllowlistsOnlyCalm` then is about `evaluate_detection` alone (`AllowlistsCalm`): what is left
  under an allowlist is a subset of what there is without. The greatest severity, the bonus
  and its cap grow with the matches (`SeverityGrows`). For the confidence, one more match never
  leaves more doubt, wherever in the order it falls and although each factor is rounded
  (`FewerMatchesMoreDoubt`): a smallest set for which this failed would still fail
  without its latest match, as that is the latest of every subset that has it. A
  sequence is suppressed together with its shell, so one that is reported has its shell
  (`SequenceHasShell`).

`FiniteLemmas` has what these and other proofs need of finite sets: a smallest set among those
for which something fails, the least number, and that a fold over a set is a function
determined by its steps (`FoldsUnique`, `FolderFolds`), in place of induction.

`SurroundingsProofs` has the parts around the core.

- `HeartbeatsTypeOK`, `SeenIsOrdered`, `ReadyIsKnown` for every timeout, interval, skew and
  number of late calls. `AwaitedIsRecent` bounds how far a call that is still waited for
  lies back and that its commit came after its start; `SuccessIsCommitted` carries this to
  the last success; `LoadedIsOrdered` says that a row once loaded has kept its
  `first_seen_at`.
- `ReportIsTheLastAnswer` for every chain of models (`AuditInv`: an audit under way has no
  report, and all it asked so far did not know the model), `NotifiedWasMailed` for any number
  of checks (`AlertsInv`: what a check takes for notified has been mailed),
  `IdleTokenIsLocked` for every lifetime and any delay of the timer, and `CredentialsTypeOK`
  (`CredentialsInv`).
- `OutageKeepsIntel` with `ReportTypeOK`: `JobSound` says that a fetched score that is said
  to be returned is one and that a loaded row is still there; `WrittenColumns` that a write
  leaves each column the current or the merged one.
- `ConsoleNeverGoesBack` with `PollerTypeOK`: `RunsAreSingle`, a task does not overlap itself;
  `AnswersAreNewer`, the answer to a scheduled fetch is no older than what its panel shows.
- `LettersAddUp` with `LettersTypeOK`: the sums of sizes are folds over sets, about which
  the lemmas argue by a smallest set for which they fail.

Assumptions are those named in the modules: types of the constants, NULL values outside
the data, and the relations between constants the configuration or the code guarantees
(sets of events and rules are finite, event ids are unique and ordered, rule ids are ordered
and those of custom rules are not built-in ones, the rows an older version left are
within the spool's limit, `Lag <= Overlap`). TLC evaluates each of them in a run.

## 6. Only model-checked

- `RepresentationsAgree`: printing and parsing recurse over trees and texts, and what a
  recursion computes for every input is beyond the prover.
- Liveness, fairness and ENABLED are outside the prover: `ApprovedActionIsDecided`,
  `RequestedRollbackIsDecided`, `EveryScanEnds`, `EveryLineIsStored`, `EveryEventIsStored`,
  `TasksKeepRunning`.
- `AuditTypeOK` and `AlertsTypeOK`: lists of models and of incidents are filtered with
  `SelectSeq`, which is recursive and about which the prover knows nothing. They document the
  state; put in place of the properties of their run, both hold there.

## 7. Plan

Everything in section 1 that has concurrency, faults or a state of its own has a module. What is
left is a fresh event the backend refuses (`Outbox` has rows of an older version only), the row
locks of the identity upserts (section 8), the warming of the collector's container cache and
the counters of its heartbeat, and proofs about `RuleExpression` should the prover learn to use
induction.

## 8. Not modelled, and why

- Running Trivy, downloading feeds, parsing their documents and CycloneDX: I/O and formats. The
  models take their results, failures included.
- The query endpoints, dashboards' rendering, exports and statistics: they change nothing.
- Authentication: every request is taken as authenticated (`Credentials` is about the
  console's token store).
- The gateway only forwards; the console's requests are the operator actions of the other
  modules.
- The warming of the collector's container cache at a connection: it only makes snapshots
  available, and `Identities` lets each event have one or not.
- Truncation of Falco's file and reuse of inodes: what the code does then depends on byte
  offsets into other content; listed as a hazard.
- Waiting between batches of runtime events: `main.py` 453 upserts identities in the order of
  the batch, so two batches may wait in a circle and the database aborts one, which is sent
  again. `IngestRuntime` is one step; listed as a hazard.
- Logarithms and roots of the distances and the statistic of a run: see
  `BehaviorFeatures`; `StatisticOf` is a constant.
- Experiments, papers and the other scripts: offline and sequential, or callers of
  endpoints that are modelled.
- Migrations, configuration parsing, logging and redaction of texts.
