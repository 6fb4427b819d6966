------------------------------ MODULE Identities ------------------------------
(***************************************************************************)
(* What the backend knows of containers and images: the collector looks at *)
(* a container when it normalises one of its events, the event carries what *)
(* it saw, and ingest_runtime_events merges it into one row per container   *)
(* and one per image.  Batches are delivered at least once and in any      *)
(* order, so the merge must not let an old event undo a newer one.         *)
(***************************************************************************)
EXTENDS Naturals, Sequences, SequencesExt, FiniteSets, FiniteSetsExt

CONSTANTS
  RuntimeEvents,   (* event_id values of Docker events about a container     *)
  Containers,
  Images,
  None,            (* NULL                                                   *)
  Empty,           (* container_snapshot {}: nothing is known of the container *)
  ContainerOf,     (* [RuntimeEvents -> Containers]                          *)
  ImageOf,         (* [Containers -> Images]                                 *)
  SeenAt,          (* [RuntimeEvents -> Nat]: occurred_at                    *)
  RuntimeBatch     (* delivery_batch_size of the collector                   *)

(* A digest is a member of Images: the image it is the digest of.           *)
DigestStatus == {"resolved", "unavailable", "inspection_failed"}

(* A snapshot is named by the event that took it. *)
Snapshots ==
  [taken : RuntimeEvents, digest : Images \cup {None}, status : DigestStatus]

ContainerRows ==
  [snapshot : Snapshots \cup {None}, image : Images \cup {None},
   digest : Images \cup {None}, status : DigestStatus, first : Nat, last : Nat]

ImageRows ==
  [metadata : Snapshots, os : BOOLEAN, digest : Images \cup {None},
   status : DigestStatus, first : Nat, last : Nat]

ASSUME IdentitiesAssumption ==
  /\ ContainerOf \in [RuntimeEvents -> Containers]
  /\ ImageOf \in [Containers -> Images]
  /\ SeenAt \in [RuntimeEvents -> Nat]
  /\ None \notin Images \cup Snapshots \cup ContainerRows \cup ImageRows \cup {Empty}
  /\ None \notin Containers /\ Empty \notin Snapshots
  /\ RuntimeBatch \in Nat \ {0}

VARIABLES
  payload,      (* what the spooled event carries; None: not yet normalised  *)
  cache,        (* container_cache: the last snapshot of a container, or None *)
  runtime,      (* event_ids in runtime_events                               *)
  delivered,    (* history: event_ids that were ever ingested                *)
  containerRow, (* container_identities                                      *)
  imageRow      (* image_identities                                          *)

identityVars == <<payload, cache, runtime, delivered, containerRow, imageRow>>

IdentitiesTypeOK ==
  /\ payload \in [RuntimeEvents -> Snapshots \cup {None, Empty}]
  /\ cache \in [Containers -> Snapshots \cup {None}]
  /\ runtime \in SUBSET RuntimeEvents
  /\ delivered \in SUBSET RuntimeEvents
  /\ containerRow \in [Containers -> ContainerRows \cup {None}]
  /\ imageRow \in [Images -> ImageRows \cup {None}]

IdentitiesInit ==
  /\ payload = [e \in RuntimeEvents |-> None]
  /\ cache = [c \in Containers |-> None]
  /\ runtime = {}
  /\ delivered = {}
  /\ containerRow = [c \in Containers |-> None]
  /\ imageRow = [i \in Images |-> None]

-------------------------------------------------------------------------------
(* The collector's normalizer. *)

Captured == {e \in RuntimeEvents : payload[e] # None}

(* build_container_snapshot: the image may have a digest, have none, or not *)
(* be found any more.                                                       *)
Seen(e) ==
  LET image == ImageOf[ContainerOf[e]] IN
  {[taken |-> e, digest |-> image, status |-> "resolved"],
   [taken |-> e, digest |-> None,  status |-> "unavailable"],
   [taken |-> e, digest |-> None,  status |-> "inspection_failed"]}

Inspected(e) ==
  /\ payload[e] = None
  /\ \E snapshot \in Seen(e) :
       /\ payload' = [payload EXCEPT ![e] = snapshot]
       /\ cache' = [cache EXCEPT ![ContainerOf[e]] = snapshot]
  /\ UNCHANGED <<runtime, delivered, containerRow, imageRow>>

(* The container is gone: the event carries what the cache still has.       *)
NotInspected(e) ==
  /\ payload[e] = None
  /\ LET known == cache[ContainerOf[e]] IN
     payload' = [payload EXCEPT ![e] = IF known = None THEN Empty ELSE known]
  /\ UNCHANGED <<cache, runtime, delivered, containerRow, imageRow>>

-------------------------------------------------------------------------------
(* The fields of an ingested event. *)

Snapshot(e) == IF payload[e] = Empty THEN None ELSE payload[e]
Image(e)    == IF Snapshot(e) = None THEN None ELSE ImageOf[ContainerOf[e]]
Digest(e)   == IF Snapshot(e) = None THEN None ELSE Snapshot(e).digest
Status(e)   == IF Snapshot(e) = None THEN "inspection_failed" ELSE Snapshot(e).status

Coalesce(new, old) == IF new # None THEN new ELSE old

(* func.least and func.greatest on the two timestamps. *)
Span(row, e) ==
  [row EXCEPT !.first = Min({@, SeenAt[e]}), !.last = Max({@, SeenAt[e]})]

(* Mutant: a batch that arrives late wins over what is known. *)
ArrivesLater(e, row) == TRUE

(* The conflict clause: equal times count as newer. *)
NewerOrEqual(e, row) == SeenAt[e] >= row.last

(* Mutant: the image's id stands in for a digest it does not have. *)
ImageForDigest(e) ==
  [snapshot |-> Snapshot(e), image |-> Image(e), digest |-> Image(e),
   status |-> Status(e), first |-> SeenAt[e], last |-> SeenAt[e]]

FirstContainerRow(e) ==
  [snapshot |-> Snapshot(e), image |-> Image(e), digest |-> Digest(e),
   status |-> Status(e), first |-> SeenAt[e], last |-> SeenAt[e]]

MergeContainer(row, e) ==
  [row EXCEPT
     !.snapshot = Coalesce(Snapshot(e), @),
     !.image    = Coalesce(Image(e), @),
     !.digest   = Coalesce(Digest(e), @),
     !.status   = IF Status(e) = "inspection_failed" THEN @ ELSE Status(e)]

UpsertContainer(rows, e) ==
  LET c == ContainerOf[e]
      row == rows[c] IN
  [rows EXCEPT ![c] =
     IF row = None THEN FirstContainerRow(e)
     ELSE Span(IF NewerOrEqual(e, row) THEN MergeContainer(row, e) ELSE row, e)]

FirstImageRow(e) ==
  [metadata |-> Snapshot(e), os |-> Status(e) # "inspection_failed",
   digest |-> Digest(e), status |-> Status(e),
   first |-> SeenAt[e], last |-> SeenAt[e]]

(* has_fresh_image_metadata; "os" alone is not protected by it.             *)
MergeImage(row, e) ==
  LET fresh == Status(e) # "inspection_failed" IN
  [row EXCEPT
     !.metadata = IF fresh THEN Snapshot(e) ELSE @,
     !.os       = fresh,
     !.digest   = Coalesce(Digest(e), @),
     !.status   = IF fresh THEN Status(e) ELSE @]

UpsertImage(rows, e) ==
  IF Image(e) = None THEN rows
  ELSE LET row == rows[Image(e)] IN
       [rows EXCEPT ![Image(e)] =
          IF row = None THEN FirstImageRow(e)
          ELSE Span(IF NewerOrEqual(e, row) THEN MergeImage(row, e) ELSE row, e)]

(* A batch is one transaction; every event of it is merged, also one that   *)
(* was ingested before.  A failed batch leaves nothing (503) and a lost     *)
(* answer changes nothing here, so neither is a step.                       *)
IngestRuntime(batch) ==
  /\ \A i \in DOMAIN batch : batch[i] \in Captured
  /\ runtime' = runtime \cup Range(batch)
  /\ delivered' = delivered \cup Range(batch)
  /\ imageRow' = FoldLeft(UpsertImage, imageRow, batch)
  /\ containerRow' = FoldLeft(UpsertContainer, containerRow, batch)
  /\ UNCHANGED <<payload, cache>>

RuntimeBatches == {b \in SeqOf(RuntimeEvents, RuntimeBatch) : b # <<>> /\ IsInjective(b)}

IdentitiesNext ==
  \/ \E e \in RuntimeEvents : Inspected(e) \/ NotInspected(e)
  \/ \E batch \in RuntimeBatches : IngestRuntime(batch)

IdentitiesSpec == IdentitiesInit /\ [][IdentitiesNext]_identityVars

-------------------------------------------------------------------------------
(* Properties. *)

EventsOf(c) == {e \in delivered : ContainerOf[e] = c}

Latest(events) == {e \in events : \A f \in events : SeenAt[e] >= SeenAt[f]}

(* Whatever the order and the repetition of the batches, a container's row  *)
(* spans the times of all its events and shows what the latest of them saw: *)
(* a late or repeated batch never puts an older digest or snapshot back.    *)
LatestEventWins ==
  \A c \in Containers : EventsOf(c) # {} =>
    LET row == containerRow[c]
        latest == Latest(EventsOf(c))
        digests == {Digest(e) : e \in latest} \ {None}
        snapshots == {Snapshot(e) : e \in latest} \ {None} IN
    /\ row.last = Max({SeenAt[e] : e \in EventsOf(c)})
    /\ row.first = Min({SeenAt[e] : e \in EventsOf(c)})
    /\ digests # {} => row.digest \in digests
    /\ snapshots # {} => row.snapshot \in snapshots

(* A row that says its digest was resolved has one, and an event of that    *)
(* very container or image reported it; failed inspections in between, the  *)
(* container gone from Docker, and repeated batches included.               *)
ResolvedHasDigest ==
  /\ \A c \in Containers : containerRow[c] # None /\ containerRow[c].status = "resolved" =>
       containerRow[c].digest # None
         /\ \E e \in EventsOf(c) : Digest(e) = containerRow[c].digest
  /\ \A i \in Images : imageRow[i] # None /\ imageRow[i].status = "resolved" =>
       imageRow[i].digest = i

===============================================================================
