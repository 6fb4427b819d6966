------------------------------ MODULE DeadLetters ------------------------------
(****************************************************************************)
(* The dead letters of the telemetry adapter (spool.py): the lines of       *)
(* Falco's file that could not be parsed, kept as redacted excerpts within  *)
(* a number, a size and an age. Every change is one SQLite transaction.     *)
(* Times come from the host's clock, which may be set back.                 *)
(****************************************************************************)
EXTENDS Integers, FiniteSets, FiniteSetsExt

CONSTANTS
  MaxRecords,   \* dead_letter_max_records
  MaxBytes,     \* dead_letter_max_total_bytes
  ExcerptSizes, \* the sizes an excerpt may have, up to dead_letter_excerpt_bytes
  Retention,    \* dead_letter_retention_seconds
  MaxTime,      \* bound on the clock
  MaxInserted   \* bound on the lines recorded

ASSUME DeadLettersAssumption ==
  /\ {MaxRecords, MaxBytes, Retention, MaxTime, MaxInserted} \subseteq Nat
  /\ ExcerptSizes \subseteq Nat

VARIABLES
  time,      \* time.time()
  letters,   \* the table dead_letters
  inserted,  \* the counters in the table metadata
  evicted,
  before     \* letters an older version left, which no counter counts

letterVars == <<time, letters, inserted, evicted, before>>

(* raw: the whole line is kept, as older versions did.                      *)
Letters == [id : 1..MaxInserted + 1, recorded_at : 0..MaxTime, bytes : ExcerptSizes, raw : BOOLEAN]

LettersInit ==
  /\ time = 0
  /\ \/ letters = {} /\ before = 0
     \/ \E l \in Letters :
          l.id = 1 /\ l.recorded_at = 0 /\ l.raw /\ letters = {l} /\ before = 1
  /\ inserted = 0 /\ evicted = 0

(* ORDER BY recorded_at, id                                                 *)
Older(l, m) == l.recorded_at < m.recorded_at \/ (l.recorded_at = m.recorded_at /\ l.id < m.id)
NoOlder(l, table) == {m \in table : ~Older(m, l)}
Bytes(table) == MapThenSumSet(LAMBDA l : l.bytes, table)

Recent(table) == {l \in table : l.recorded_at >= time - Retention}

Newest(table) == {l \in table : Cardinality(NoOlder(l, table)) =< MaxRecords}
(* The oldest are deleted until the rest fits.                              *)
Fitting(table) == {l \in table : Bytes(NoOlder(l, table)) =< MaxBytes}

Pruned(table) == Fitting(Newest(Recent(table)))

(* Mutant: what opening the store or age evicts is not counted.             *)
PruneUncounted(table) ==
  /\ letters' = Pruned(table)
  /\ evicted' = evicted + Cardinality(Recent(table)) - Cardinality(Pruned(table))

Prune(table) ==
  /\ letters' = Pruned(table)
  /\ evicted' = evicted + Cardinality(table) - Cardinality(Pruned(table))

NextId == 1 + inserted + before

RecordDeadLetter(bytes) ==
  /\ \A l \in letters : ~l.raw   \* the store was opened
  /\ inserted < MaxInserted /\ inserted' = inserted + 1
  /\ Prune(letters \union {[id |-> NextId, recorded_at |-> time, bytes |-> bytes, raw |-> FALSE]})
  /\ UNCHANGED <<time, before>>

(* The store is opened: what an older version left is cut and redacted.     *)
OpenStore ==
  /\ Prune({[l EXCEPT !.raw = FALSE] : l \in letters})
  /\ UNCHANGED <<time, inserted, before>>

SetClock ==
  /\ time' \in 0..MaxTime
  /\ UNCHANGED <<letters, inserted, evicted, before>>

LettersNext == OpenStore \/ SetClock \/ \E b \in ExcerptSizes : RecordDeadLetter(b)

LettersSpec == LettersInit /\ [][LettersNext]_letterVars

-------------------------------------------------------------------------------
LettersTypeOK ==
  /\ time \in 0..MaxTime /\ letters \subseteq Letters
  /\ inserted \in 0..MaxInserted /\ evicted \in 0..MaxInserted + 1 /\ before \in {0, 1}

(* Malformed input can neither fill the disk nor vanish unseen: however the *)
(* clock moves and the store restarts, the counters account for every line  *)
(* (what was recorded is kept or counted as evicted), and the table stays   *)
(* within its number and size from the first opening of the store on.       *)
(* (spool.py, _prune_dead_letters.)                                         *)
LettersAddUp ==
  /\ inserted + before = evicted + Cardinality(letters)
  /\ (\A l \in letters : ~l.raw) =>
       Cardinality(letters) =< MaxRecords /\ Bytes(letters) =< MaxBytes

===============================================================================
