------------------------------- MODULE Spool -------------------------------
(***************************************************************************)
(* The durable SQLite spool of spool.py.                                   *)
(*                                                                         *)
(* Two tables share one database file: pending, the FIFO queue of events   *)
(* that QuestDB has not confirmed, and dead_letter, a bounded ring of      *)
(* events that were rejected for good.  A one-row table, spool_stats, is   *)
(* kept up to date by triggers; the capacity checks read that row and      *)
(* never count the tables.                                                 *)
(*                                                                         *)
(* Every public method runs in one BEGIN IMMEDIATE ... COMMIT transaction  *)
(* with synchronous=FULL, so a method is one action: either all of it      *)
(* happens or, when it raises, none of it.  That a transaction cut short   *)
(* by a crash leaves no trace is SQLite's promise and is assumed here.     *)
(*                                                                         *)
(* A table is a set of rows.  Its order is the order of its AUTOINCREMENT  *)
(* key (seq, and id for dead letters), as in the ORDER BY clauses.         *)
(***************************************************************************)
EXTENDS Integers, FiniteSets, FiniteSetsExt

CONSTANTS
    Events,        \* what a caller may enqueue: an event id with its content
    Ids,           \* the event_id column
    IdOf,          \* IdOf[e] is the id of e: two events may share an id and
                   \* differ in content
    SizeOf,        \* SizeOf[e] is the length of e's payload in bytes
    Limits,        \* the limits a configuration may open the spool with
    MaxSequence,   \* bound: rows a behaviour may insert
    MaxAttempts,   \* bound: attempts recorded for one row
    MaxBatch       \* bound: events in one enqueue_many call

LimitType == [pendingRows : Nat \ {0}, pendingBytes : Nat \ {0},
              eventBytes : Nat \ {0},
              deadRows : Nat \ {0}, deadBytes : Nat \ {0}]

ASSUME EventAssumption ==
    /\ IdOf \in [Events -> Ids]
    /\ SizeOf \in [Events -> Nat \ {0}]

\* SQLiteSpool.__init__ refuses other limits.
ASSUME LimitAssumption ==
    /\ Limits \subseteq LimitType
    /\ \A l \in Limits : l.eventBytes <= l.pendingBytes /\ l.eventBytes <= l.deadBytes

ASSUME BoundAssumption == {MaxSequence, MaxAttempts, MaxBatch} \subseteq Nat

VARIABLES
    pending,       \* rows of table pending
    deadLetter,    \* rows of table dead_letter
    stats,         \* the row of table spool_stats
    lastSequence,  \* AUTOINCREMENT counter of pending
    lastDeadId,    \* AUTOINCREMENT counter of dead_letter
    open,          \* an SQLiteSpool holds the connection
    limits         \* the limits it was opened with

spoolVars == <<pending, deadLetter, stats, lastSequence, lastDeadId, open, limits>>

PendingRow == [seq : Nat, event : Events, attempts : Nat, uncertain : BOOLEAN]

DeadRow == [id : Nat, seq : Nat, event : Events, attempts : Nat, uncertain : BOOLEAN]

StatsFields == {"pendingRows", "pendingBytes", "deadRows", "deadBytes"}

-----------------------------------------------------------------------------
Sequences(rows) == {r.seq : r \in rows}

EventsOf(rows) == {r.event : r \in rows}

\* SUM(length(payload)) over the rows.
Bytes(rows) == MapThenSumSet(LAMBDA r : SizeOf[r.event], rows)

\* The rows that mark_delivered and its siblings address by sequence number.
RowsAt(seqs) == {r \in pending : r.seq \in seqs}

\* _sequence_tuple passed and every DELETE/UPDATE hits exactly one row.
Known(seqs) == seqs \subseteq Sequences(pending)

\* Wrong variant: ORDER BY sequence DESC.
PeekBatch_Newest(n) ==
    {r \in pending : Cardinality({q \in pending : q.seq > r.seq}) < n}

\* peek_batch: the oldest n rows, in the order of their sequence.
PeekBatch(n) ==
    {r \in pending : Cardinality({q \in pending : q.seq < r.seq}) < n}

-----------------------------------------------------------------------------
(* The triggers: every row inserted or deleted moves the counters by one   *)
(* row and by the length of its payload.                                   *)

PendingInserted(rows, s) ==
    [s EXCEPT !.pendingRows = @ + Cardinality(rows), !.pendingBytes = @ + Bytes(rows)]

\* Wrong variant: the delete trigger is missing.
PendingDeleted_NoTrigger(rows, s) == s

PendingDeleted(rows, s) ==
    [s EXCEPT !.pendingRows = @ - Cardinality(rows), !.pendingBytes = @ - Bytes(rows)]

DeadInserted(row, s) ==
    [s EXCEPT !.deadRows = @ + 1, !.deadBytes = @ + SizeOf[row.event]]

\* Wrong variant: the delete trigger forgets the bytes.
DeadDeleted_RowsOnly(rows, s) == [s EXCEPT !.deadRows = @ - Cardinality(rows)]

DeadDeleted(rows, s) ==
    [s EXCEPT !.deadRows = @ - Cardinality(rows), !.deadBytes = @ - Bytes(rows)]

\* _reconcile_stats recounts both tables when a spool is opened.
Recount == [pendingRows |-> Cardinality(pending), pendingBytes |-> Bytes(pending),
            deadRows |-> Cardinality(deadLetter), deadBytes |-> Bytes(deadLetter)]

-----------------------------------------------------------------------------
\* The overlap check of _initialize_schema, which refuses to open the file.
Overlap ==
    \E p \in pending, d \in deadLetter :
        p.seq = d.seq \/ IdOf[p.event] = IdOf[d.event]

OpenSpool(l) ==
    /\ ~open
    /\ ~Overlap
    /\ open' = TRUE
    /\ limits' = l
    /\ stats' = Recount
    /\ UNCHANGED <<pending, deadLetter, lastSequence, lastDeadId>>

\* close(), and what a killed process leaves of the database: every
\* committed transaction and nothing of an open one.
CloseSpool ==
    /\ open
    /\ open' = FALSE
    /\ UNCHANGED <<pending, deadLetter, stats, lastSequence, lastDeadId, limits>>

-----------------------------------------------------------------------------
(* enqueue_many(batch), batch a sequence of events.                        *)

\* Wrong variant: an id that is only in dead_letter counts as new.
Stored_Pending(id) == \E e \in EventsOf(pending) : IdOf[e] = id

Stored(id) == \E e \in EventsOf(pending) \cup EventsOf(deadLetter) : IdOf[e] = id

\* The positions of the batch that insert a row: the first occurrence of an
\* id that neither table holds.
FreshPositions(batch) ==
    {i \in DOMAIN batch :
        /\ ~Stored(IdOf[batch[i]])
        /\ \A j \in DOMAIN batch : j < i => IdOf[batch[j]] # IdOf[batch[i]]}

\* Wrong variant: a plain rowid instead of AUTOINCREMENT.
NewRow_Rowid(batch, i) ==
    [seq |-> Max(Sequences(pending) \cup {0})
                + Cardinality({j \in FreshPositions(batch) : j <= i}),
     event |-> batch[i], attempts |-> 0, uncertain |-> FALSE]

NewRow(batch, i) ==
    [seq |-> lastSequence + Cardinality({j \in FreshPositions(batch) : j <= i}),
     event |-> batch[i], attempts |-> 0, uncertain |-> FALSE]

NewRows(batch) == {NewRow(batch, i) : i \in FreshPositions(batch)}

\* EventTooLargeError
TooLarge(batch) == \E i \in DOMAIN batch : SizeOf[batch[i]] > limits.eventBytes

\* SpoolStateError: an id that is known with another content.
Conflicting(batch) ==
    \E i \in DOMAIN batch :
        \E e \in EventsOf(pending) \cup EventsOf(deadLetter)
                 \cup {batch[j] : j \in DOMAIN batch} :
            IdOf[e] = IdOf[batch[i]] /\ e # batch[i]

\* Wrong variant: the limits are compared before the batch is added.
Full_Before(batch) ==
    \/ stats.pendingRows >= limits.pendingRows
    \/ stats.pendingBytes >= limits.pendingBytes

\* SpoolFullError: the row limit, then the byte limit.
Full(batch) ==
    \/ stats.pendingRows + Cardinality(FreshPositions(batch)) > limits.pendingRows
    \/ stats.pendingBytes + Bytes(NewRows(batch)) > limits.pendingBytes

EnqueueMany(batch) ==
    /\ open
    /\ ~TooLarge(batch)
    /\ ~Conflicting(batch)
    /\ ~Full(batch)
    /\ pending' = pending \cup NewRows(batch)
    /\ lastSequence' = lastSequence + Cardinality(FreshPositions(batch))
    /\ stats' = PendingInserted(NewRows(batch), stats)
    /\ UNCHANGED <<deadLetter, lastDeadId, open, limits>>

-----------------------------------------------------------------------------
MarkDelivered(seqs) ==
    /\ open
    /\ Known(seqs)
    /\ pending' = pending \ RowsAt(seqs)
    /\ stats' = PendingDeleted(RowsAt(seqs), stats)
    /\ UNCHANGED <<deadLetter, lastSequence, lastDeadId, open, limits>>

\* Wrong variant: the attempts are counted down.
Attempted_Down(row, uncertain) ==
    [seq |-> row.seq, event |-> row.event,
     attempts |-> row.attempts - 1, uncertain |-> row.uncertain \/ uncertain]

Attempted(row, uncertain) ==
    [seq |-> row.seq, event |-> row.event,
     attempts |-> row.attempts + 1, uncertain |-> row.uncertain \/ uncertain]

RecordAttempt(seqs, uncertain) ==
    /\ open
    /\ Known(seqs)
    /\ pending' = {IF r.seq \in seqs THEN Attempted(r, uncertain) ELSE r : r \in pending}
    /\ UNCHANGED <<deadLetter, stats, lastSequence, lastDeadId, open, limits>>

-----------------------------------------------------------------------------
(* move_to_dead_letter((seq,), ...): both call sites of the worker pass    *)
(* exactly one row.  The oldest dead letters are evicted one by one until  *)
(* the counters say that the row fits.                                     *)

Older(d) == {e \in deadLetter : e.id < d.id}

\* Wrong variant: the counters read before the loop are not brought down.
FitsWithout_Stale(evicted, row) ==
    /\ stats.deadRows + 1 <= limits.deadRows
    /\ stats.deadBytes + SizeOf[row.event] <= limits.deadBytes

\* The loop's condition, after the rows of evicted have been deleted.
FitsWithout(evicted, row) ==
    /\ stats.deadRows - Cardinality(evicted) + 1 <= limits.deadRows
    /\ stats.deadBytes - Bytes(evicted) + SizeOf[row.event] <= limits.deadBytes

\* Wrong variant: the loop evicts once more after the row already fits.
Survivors_OneLess(row) == {d \in deadLetter : \E e \in Older(d) : FitsWithout(Older(e), row)}

\* The rows that survive the loop: those it stops in front of.
Survivors(row) == {d \in deadLetter : FitsWithout(Older(d), row)}

\* DeadLetterFullError: the ring is empty and the row still does not fit.
DeadLetterFull(row) == Survivors(row) = {} /\ ~FitsWithout(deadLetter, row)

\* Wrong variant: the flag of an earlier attempt is dropped.
AsDeadRow_Clears(row, uncertain) ==
    [id |-> lastDeadId + 1, seq |-> row.seq, event |-> row.event,
     attempts |-> row.attempts + 1, uncertain |-> uncertain]

AsDeadRow(row, uncertain) ==
    [id |-> lastDeadId + 1, seq |-> row.seq, event |-> row.event,
     attempts |-> row.attempts + 1, uncertain |-> row.uncertain \/ uncertain]

MoveToDeadLetter(row, uncertain) ==
    LET dead == AsDeadRow(row, uncertain)
    IN  /\ open
        /\ row \in pending
        /\ ~DeadLetterFull(row)
        /\ deadLetter' = Survivors(row) \cup {dead}
        /\ pending' = pending \ {row}
        /\ stats' = PendingDeleted({row},
                        DeadInserted(dead, DeadDeleted(deadLetter \ Survivors(row), stats)))
        /\ lastDeadId' = lastDeadId + 1
        /\ UNCHANGED <<lastSequence, open, limits>>

DeleteDeadLetters(seqs) ==
    LET rows == {d \in deadLetter : d.seq \in seqs}
    IN  /\ open
        /\ seqs \subseteq Sequences(deadLetter)
        /\ deadLetter' = deadLetter \ rows
        /\ stats' = DeadDeleted(rows, stats)
        /\ UNCHANGED <<pending, lastSequence, lastDeadId, open, limits>>

-----------------------------------------------------------------------------
\* A new database file, not opened yet.
SpoolInit ==
    /\ pending = {}
    /\ deadLetter = {}
    /\ stats = [pendingRows |-> 0, pendingBytes |-> 0, deadRows |-> 0, deadBytes |-> 0]
    /\ lastSequence = 0
    /\ lastDeadId = 0
    /\ open = FALSE
    /\ limits \in Limits

Batches == UNION {[1 .. n -> Events] : n \in 1 .. MaxBatch}

Enqueue ==
    \E batch \in Batches :
        /\ lastSequence + Cardinality(FreshPositions(batch)) <= MaxSequence
        /\ EnqueueMany(batch)

Deliver == \E seqs \in (SUBSET Sequences(pending)) \ {{}} : MarkDelivered(seqs)

Attempt ==
    \E seqs \in (SUBSET Sequences(pending)) \ {{}}, uncertain \in BOOLEAN :
        /\ \A r \in RowsAt(seqs) : r.attempts < MaxAttempts
        /\ RecordAttempt(seqs, uncertain)

Bury == \E row \in pending, uncertain \in BOOLEAN : MoveToDeadLetter(row, uncertain)

Delete == \E seqs \in (SUBSET Sequences(deadLetter)) \ {{}} : DeleteDeadLetters(seqs)

Reopen == \E l \in Limits : OpenSpool(l)

SpoolNext == Enqueue \/ Deliver \/ Attempt \/ Bury \/ Delete \/ Reopen \/ CloseSpool

SpoolSpec == SpoolInit /\ [][SpoolNext]_spoolVars

-----------------------------------------------------------------------------
(* Properties.                                                             *)

\* Type correctness of the tables, the row counters and the open handle.
SpoolTypeOK ==
    /\ pending \in SUBSET PendingRow
    /\ deadLetter \in SUBSET DeadRow
    /\ DOMAIN stats = StatsFields
    /\ stats.pendingRows \in Int /\ stats.deadRows \in Int
    /\ lastSequence \in Nat
    /\ lastDeadId \in Nat
    /\ open \in BOOLEAN
    /\ limits \in Limits

\* The row counters that the triggers maintain, and that every capacity check
\* trusts, agree with the tables after any sequence of calls, reopenings and
\* evictions, whether or not the spool is open.
RowCountsExact ==
    /\ stats.pendingRows = Cardinality(pending)
    /\ stats.deadRows = Cardinality(deadLetter)

\* So do the byte counters.
ByteCountsExact ==
    /\ stats.pendingBytes = Bytes(pending)
    /\ stats.deadBytes = Bytes(deadLetter)

\* An event lives in one row of one table: no two rows of a table, and no row
\* of pending and row of dead_letter, share a sequence number or an event id.
\* The overlap check that refuses to open a spool can therefore never fire on
\* a file this code wrote, and no UNIQUE constraint can fail.
OneHome ==
    /\ \A p, q \in pending : p.seq = q.seq \/ IdOf[p.event] = IdOf[q.event] => p = q
    /\ \A d, e \in deadLetter :
           d.id = e.id \/ d.seq = e.seq \/ IdOf[d.event] = IdOf[e.event] => d = e
    /\ ~Overlap

\* A row that appears in pending carries a sequence number that no row ever
\* had before, not even a delivered one: a caller that still holds the
\* sequence numbers of a batch it read before an await can never address
\* another event with them.
SequencesNeverReissued ==
    [][/\ lastSequence <= lastSequence'
       /\ \A r \in pending' :
             \/ r.seq \in Sequences(pending)
             \/ lastSequence < r.seq /\ r.seq <= lastSequence']_spoolVars

\* A call that adds rows leaves its table within the configured limits by the
\* real row and byte counts, even when the spool was opened over a larger
\* table after the limits had been lowered.
CapacityRespected ==
    [][/\ ~(pending' \subseteq pending) /\ Sequences(pending') # Sequences(pending)
            => /\ Cardinality(pending') <= limits.pendingRows
               /\ Bytes(pending') <= limits.pendingBytes
       /\ ~(deadLetter' \subseteq deadLetter)
            => /\ Cardinality(deadLetter') <= limits.deadRows
               /\ Bytes(deadLetter') <= limits.deadBytes]_spoolVars

\* The uncertain-delivery mark of an event survives every later attempt and
\* the move to dead_letter, and its attempt count never falls.
UncertaintyKept ==
    [][\A r \in pending \cup deadLetter, s \in pending' \cup deadLetter' :
          r.seq = s.seq => /\ r.uncertain => s.uncertain
                           /\ r.attempts <= s.attempts]_spoolVars

\* Burying a row evicts from the old end of the ring only, and nothing that
\* could have stayed: with the youngest evicted row back, the ring would be
\* over one of its limits.
RingEvictsOnlyWhatItMust ==
    [][lastDeadId' # lastDeadId =>
          \A v \in deadLetter \ deadLetter' :
             LET kept == deadLetter' \cup {d \in deadLetter : d.id >= v.id}
             IN  /\ \A s \in deadLetter \cap deadLetter' : v.id < s.id
                 /\ \/ Cardinality(kept) > limits.deadRows
                    \/ Bytes(kept) > limits.deadBytes]_spoolVars

\* Eviction always makes room for a row that fits the ring at all, so
\* DeadLetterFullError is left to rows larger than a limit lowered later.
BurialPossible ==
    \A row \in pending : SizeOf[row.event] <= limits.deadBytes => ~DeadLetterFull(row)

=============================================================================
