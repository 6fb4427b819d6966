------------------------------- MODULE Ingestion ------------------------------
(***************************************************************************)
(* ingest_process_events beside ingest_runtime_events: a worker thread of  *)
(* the API takes a batch of process events, finds for each the container    *)
(* it ran in and the exec event of its parent process, and stores it once.  *)
(* Several workers may hold the same events: a call the adapter has given   *)
(* up runs on while the batch is posted again.  Retention deletes old rows. *)
(***************************************************************************)
EXTENDS Identities

CONSTANTS
  Execs,          (* event_id values of process events                       *)
  ExecOf,         (* [Execs -> [pid, ppid, at, reports]]: what the adapter    *)
                  (* sent; "reports" are the containers whose id starts with *)
                  (* the reported one                                        *)
  IdOrder,        (* sequence of all Execs: the order of their event_ids     *)
  Workers,        (* threads of the API                                      *)
  ExecBatch,      (* delivery_batch_size of the adapter                      *)
  Lookback,       (* parent_correlation_lookback_seconds                     *)
  Cutoff,         (* rows older than this are past retention                 *)
  MaxDelete,      (* retention_max_delete_batch                              *)
  MaxAborts       (* bound: transactions that the database rolls back        *)

Rows ==
  [container : Containers \cup {None}, correlation : {"resolved", "unresolved", "ambiguous"},
   digest : Images \cup {None}, parent : Execs \cup {None}]

ASSUME IngestionAssumption ==
  /\ ExecOf \in [Execs -> [pid : Nat \ {0}, ppid : Nat, at : Nat,
                           reports : SUBSET Containers]]
  /\ None \notin Execs \cup Rows
  /\ IdOrder \in Seq(Execs) /\ Range(IdOrder) = Execs /\ IsInjective(IdOrder)
  /\ {ExecBatch, Lookback, Cutoff, MaxDelete, MaxAborts} \subseteq Nat

VARIABLES
  execRow,   (* process_exec_events: committed rows, None if absent          *)
  everRow,   (* history: ids of rows that were ever committed                *)
  txn,       (* [Workers -> the open transaction of that thread]             *)
  aborts     (* how many transactions may still be rolled back               *)

vars == <<identityVars, execRow, everRow, txn, aborts>>

Transactions ==
  [pc : {"idle", "next", "insert"}, todo : Seq(Execs), row : Rows \cup {None},
   staged : [Execs -> Rows \cup {None}]]

NothingStaged == [x \in Execs |-> None]

Idle == [pc |-> "idle", todo |-> <<>>, row |-> None, staged |-> NothingStaged]

TypeOK ==
  /\ IdentitiesTypeOK
  /\ execRow \in [Execs -> Rows \cup {None}]
  /\ everRow \in SUBSET Execs
  /\ txn \in [Workers -> Transactions]
  /\ aborts \in 0..MaxAborts

Init ==
  /\ IdentitiesInit
  /\ execRow = [x \in Execs |-> None]
  /\ everRow = {}
  /\ txn = [w \in Workers |-> Idle]
  /\ aborts = MaxAborts

-------------------------------------------------------------------------------
(* One batch of process events. *)

Before(x, y) ==
  \/ ExecOf[x].at < ExecOf[y].at
  \/ /\ ExecOf[x].at = ExecOf[y].at
     /\ SelectInSeq(IdOrder, LAMBDA z : z = x) < SelectInSeq(IdOrder, LAMBDA z : z = y)

(* sorted(payload.events, key = (time_nano, event_id)) *)
Ordered(batch) == CHOOSE s \in SetToSeqs(batch) :
  \A i, j \in DOMAIN s : i < j => Before(s[i], s[j])

(* Mutant: the batch is stored in the order it came in. *)
ReceiveUnsorted(w, batch) ==
  /\ txn[w].pc = "idle"
  /\ \E arrived \in SetToSeqs(batch) :
       txn' = [txn EXCEPT ![w] = [Idle EXCEPT !.pc = "next", !.todo = arrived]]
  /\ UNCHANGED <<identityVars, execRow, everRow, aborts>>

Receive(w, batch) ==
  /\ txn[w].pc = "idle"
  /\ txn' = [txn EXCEPT ![w] = [Idle EXCEPT !.pc = "next", !.todo = Ordered(batch)]]
  /\ UNCHANGED <<identityVars, execRow, everRow, aborts>>

(* _resolve_container_identity *)
Candidates(x) == {c \in ExecOf[x].reports : containerRow[c] # None}

Correlation(x) ==
  IF Cardinality(Candidates(x)) = 1 THEN "resolved"
  ELSE IF Candidates(x) = {} THEN "unresolved" ELSE "ambiguous"

Resolved(x) ==
  IF Correlation(x) = "resolved" THEN CHOOSE c \in Candidates(x) : TRUE ELSE None

(* The rows a statement of the worker's transaction sees. *)
Visible(w) == [x \in Execs |-> Coalesce(txn[w].staged[x], execRow[x])]

(* Mutant: the container is not part of the search. *)
ParentRowsOfHost(w, x) ==
  {p \in Execs :
     /\ Visible(w)[p] # None
     /\ ExecOf[p].pid = ExecOf[x].ppid
     /\ ExecOf[p].at <= ExecOf[x].at
     /\ ExecOf[p].at + Lookback >= ExecOf[x].at}

(* _find_parent_event_id: every event here is of one Docker host.           *)
ParentRows(w, x) ==
  {p \in Execs :
     /\ Visible(w)[p] # None
     /\ ExecOf[p].pid = ExecOf[x].ppid
     /\ ExecOf[p].at <= ExecOf[x].at
     /\ ExecOf[p].at + Lookback >= ExecOf[x].at
     /\ Resolved(x) # None => Visible(w)[p].container = Resolved(x)}

(* Process numbers are positive; of several rows the latest is the parent.  *)
Parents(w, x) ==
  LET found == ParentRows(w, x) IN
  IF ExecOf[x].ppid = 0 \/ found = {} THEN {None}
  ELSE {p \in found : \A q \in found : ExecOf[q].at <= ExecOf[p].at}

Correlate(w) ==
  /\ txn[w].pc = "next" /\ txn[w].todo # <<>>
  /\ LET x == Head(txn[w].todo) IN
     \E parent \in Parents(w, x) :
       txn' = [txn EXCEPT ![w].pc = "insert",
                          ![w].row = [container |-> Resolved(x),
                                      correlation |-> Correlation(x),
                                      digest |-> IF Resolved(x) = None THEN None
                                                 ELSE containerRow[Resolved(x)].digest,
                                      parent |-> parent]]
  /\ UNCHANGED <<identityVars, execRow, everRow, aborts>>

(* An insert of an id that another open transaction has inserted waits for  *)
(* that transaction to end.                                                 *)
WaitsFor(w, v) ==
  /\ v # w /\ txn[w].pc = "insert"
  /\ txn[v].staged[Head(txn[w].todo)] # None

(* on_conflict_do_nothing *)
Insert(w) ==
  /\ txn[w].pc = "insert"
  /\ ~ \E v \in Workers : WaitsFor(w, v)
  /\ LET x == Head(txn[w].todo) IN
     txn' = [txn EXCEPT ![w].pc = "next",
                        ![w].todo = Tail(@),
                        ![w].row = None,
                        ![w].staged[x] = IF Visible(w)[x] = None THEN txn[w].row ELSE @]
  /\ UNCHANGED <<identityVars, execRow, everRow, aborts>>

Commit(w) ==
  /\ txn[w].pc = "next" /\ txn[w].todo = <<>>
  /\ execRow' = Visible(w)
  /\ everRow' = everRow \cup {x \in Execs : txn[w].staged[x] # None}
  /\ txn' = [txn EXCEPT ![w] = Idle]
  /\ UNCHANGED <<identityVars, aborts>>

(* SQLAlchemyError, or the API stops: nothing of the batch stays.           *)
Abort(w) ==
  /\ txn[w].pc # "idle" /\ aborts > 0
  /\ aborts' = aborts - 1
  /\ txn' = [txn EXCEPT ![w] = Idle]
  /\ UNCHANGED <<identityVars, execRow, everRow>>

-------------------------------------------------------------------------------
(* apply_retention: the oldest rows of each table that are past the cutoff. *)

OldestPast(at, stored) ==
  LET past == {x \in stored : at[x] < Cutoff} IN
  {batch \in SUBSET past :
     /\ Cardinality(batch) = Min({Cardinality(past), MaxDelete})
     /\ \A x \in batch, y \in past \ batch : at[x] <= at[y]}

ExecAt == [x \in Execs |-> ExecOf[x].at]

Retain ==
  /\ \E gone \in OldestPast(ExecAt, {x \in Execs : execRow[x] # None}) :
       execRow' = [x \in Execs |-> IF x \in gone THEN None ELSE execRow[x]]
  /\ \E gone \in OldestPast(SeenAt, runtime) : runtime' = runtime \ gone
  /\ UNCHANGED <<payload, cache, delivered, containerRow, imageRow, everRow, txn, aborts>>

Next ==
  \/ IdentitiesNext /\ UNCHANGED <<execRow, everRow, txn, aborts>>
  \/ \E w \in Workers :
       \/ \E batch \in SUBSET Execs \ {{}} :
            Cardinality(batch) <= ExecBatch /\ Receive(w, batch)
       \/ Correlate(w) \/ Insert(w) \/ Commit(w) \/ Abort(w)
  \/ Retain

Spec == Init /\ [][Next]_vars

-------------------------------------------------------------------------------
(* Properties. *)

StagedRow(w, x) == txn[w].staged[x]

(* A process and its parent that arrive in one batch and are placed in the  *)
(* same container are linked, whatever order the adapter sent them in and   *)
(* whatever other workers commit meanwhile; the link goes to the latest     *)
(* such exec that came before the child, and never to one of another        *)
(* container.                                                               *)
SiblingsAreLinked ==
  \A w \in Workers, c, p \in Execs :
    /\ StagedRow(w, c) # None /\ StagedRow(w, p) # None /\ Before(p, c)
    /\ StagedRow(w, c).container # None
    => /\ /\ StagedRow(w, p).container = StagedRow(w, c).container
          /\ ExecOf[p].pid = ExecOf[c].ppid
          /\ ExecOf[p].at + Lookback >= ExecOf[c].at
          => StagedRow(w, c).parent # None
               /\ ExecOf[StagedRow(w, c).parent].at >= ExecOf[p].at
       /\ StagedRow(w, c).parent = p =>
            StagedRow(w, p).container = StagedRow(w, c).container

(* A stored link was true when it was stored: it names an exec that was     *)
(* committed, with the parent's process number and not after the child --   *)
(* never a row of a batch that was rolled back.                             *)
ParentWasStored ==
  \A c \in Execs : execRow[c] # None /\ execRow[c].parent # None =>
    LET p == execRow[c].parent IN
    /\ p \in everRow
    /\ ExecOf[p].pid = ExecOf[c].ppid /\ ExecOf[p].at <= ExecOf[c].at

(* Parent links are sound and complete, as far as one batch goes.           *)
(* (main.py, _find_parent_event_id and ingest_process_events.)              *)
ParentLinksAreRight == ParentWasStored /\ SiblingsAreLinked

(* The digest a process event is stored with, and the one its container and *)
(* its image are listed with, is one that an event of that very container   *)
(* or image has reported.  (main.py, _resolve_container_identity and the    *)
(* identity upserts.)                                                       *)
DigestWasReported ==
  ResolvedHasDigest /\
  \A x \in Execs : execRow[x] # None /\ execRow[x].digest # None =>
    \E e \in delivered : ContainerOf[e] = execRow[x].container /\ Digest(e) = execRow[x].digest

(* Two workers that hold the same events never wait for each other: both    *)
(* insert in one order.                                                     *)
NobodyWaitsInACircle ==
  \A v, w \in Workers : ~(WaitsFor(v, w) /\ WaitsFor(w, v))
===============================================================================
