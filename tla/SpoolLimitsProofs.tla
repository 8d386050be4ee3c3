------------------------- MODULE SpoolLimitsProofs --------------------------
(***************************************************************************)
(* The byte counters and the limits of the spool, for every set of events, *)
(* every choice of limits and every value of the bounds.                   *)
(*                                                                         *)
(* The byte limits are enforced against counters that the triggers move,   *)
(* so nothing about a limit is true before the counters are exact; with    *)
(* SpoolInv, ByteCountsExact is inductive.  The eviction loop of the       *)
(* dead-letter ring then follows from one fact about the order of the      *)
(* ring: the rows that survive are the rows from some id on.               *)
(***************************************************************************)
EXTENDS SpoolProofs, RowSums

LimitsInv == SpoolInv /\ ByteCountsExact

\* A set of rows of either table is finite and its events have sizes.
LEMMA TablesSized ==
  ASSUME SpoolInv
  PROVE  /\ \A rows \in SUBSET pending : Sized(SizeOf, rows)
         /\ \A rows \in SUBSET deadLetter : Sized(SizeOf, rows)
  <1>1. IsFiniteSet(pending) /\ IsFiniteSet(deadLetter)
    BY DEF SpoolInv, TablesFinite
  <1>2. \A r \in pending \cup deadLetter : SizeOf[r.event] \in Nat
    BY EventAssumption DEF SpoolInv, SpoolTypeOK, PendingRow, DeadRow
  <1> QED
    BY <1>1, <1>2, FS_Subset DEF Sized

\* Bytes is a row sum.
LEMMA BytesIsRowSum ==
  ASSUME NEW rows
  PROVE  Bytes(rows) = RowSum(SizeOf, rows)
  BY DEF Bytes, RowSum

\* The bytes that stay and the bytes that go.
LEMMA BytesSplit ==
  ASSUME SpoolInv, NEW T, T = pending \/ T = deadLetter, NEW D \in SUBSET T
  PROVE  /\ Bytes(T) = Bytes(T \ D) + Bytes(D)
         /\ Bytes(T) \in Nat /\ Bytes(T \ D) \in Nat /\ Bytes(D) \in Nat
  <1>1. Sized(SizeOf, T)
    BY TablesSized
  <1>2. /\ RowSum(SizeOf, T) = RowSum(SizeOf, T \ D) + RowSum(SizeOf, D)
        /\ RowSum(SizeOf, T) \in Nat /\ RowSum(SizeOf, T \ D) \in Nat
        /\ RowSum(SizeOf, D) \in Nat
    BY <1>1, RowSumDifference
  <1>3. \A rows : Bytes(rows) = RowSum(SizeOf, rows)
    BY BytesIsRowSum
  <1> QED
    BY <1>2, <1>3

-----------------------------------------------------------------------------
(* One lemma per operation that touches a table: the counters stay exact.  *)

\* A batch moves the byte counter by the bytes of the rows it inserts.
LEMMA EnqueueBytes ==
  ASSUME LimitsInv, NEW n \in Nat, NEW batch \in [1 .. n -> Events], EnqueueMany(batch)
  PROVE  /\ Bytes(pending') = Bytes(pending) + Bytes(NewRows(batch))
         /\ stats'.pendingBytes = stats.pendingBytes + Bytes(NewRows(batch))
         /\ stats'.deadBytes = stats.deadBytes
         /\ deadLetter' = deadLetter
  <1> DEFINE R == NewRows(batch)
  <1>1. SpoolInv /\ SpoolTypeOK
    BY DEF LimitsInv, SpoolInv
  <1>2. R \subseteq PendingRow /\ IsFiniteSet(R) /\ \A r \in R : r.seq > lastSequence
    BY <1>1, NewRowsFresh
  <1>3. pending' = pending \cup R /\ stats' = PendingInserted(R, stats)
         /\ deadLetter' = deadLetter
    BY DEF EnqueueMany
  <1> HIDE DEF R
  <1>4. pending \cap R = {}
    BY <1>1, <1>2 DEF SpoolInv, SpoolTypeOK, CountersAhead, PendingRow
  <1>5. Sized(SizeOf, pending) /\ Sized(SizeOf, R)
    <2>1. Sized(SizeOf, pending)
      BY <1>1, TablesSized
    <2>2. \A r \in R : SizeOf[r.event] \in Nat
      BY <1>2, EventAssumption DEF PendingRow
    <2> QED
      BY <1>2, <2>1, <2>2 DEF Sized
  <1>6. Bytes(pending \cup R) = Bytes(pending) + Bytes(R)
    BY <1>4, <1>5, RowSumUnion, BytesIsRowSum
  <1>7. stats'.pendingBytes = stats.pendingBytes + Bytes(R)
         /\ stats'.deadBytes = stats.deadBytes
    BY <1>1, <1>3 DEF SpoolTypeOK, PendingInserted, StatsFields
  <1> QED
    BY <1>3, <1>6, <1>7 DEF R

\* mark_delivered: the delete trigger takes the bytes of the deleted rows.
LEMMA DeliverBytes ==
  ASSUME LimitsInv, NEW seqs, MarkDelivered(seqs)
  PROVE  ByteCountsExact'
  <1> DEFINE D == RowsAt(seqs)
  <1>1. SpoolInv /\ SpoolTypeOK /\ ByteCountsExact
    BY DEF LimitsInv, SpoolInv
  <1>2. pending' = pending \ D /\ stats' = PendingDeleted(D, stats) /\ deadLetter' = deadLetter
    BY DEF MarkDelivered
  <1>3. D \in SUBSET pending
    BY DEF RowsAt
  <1> HIDE DEF D
  <1>4. /\ Bytes(pending) = Bytes(pending \ D) + Bytes(D)
        /\ Bytes(pending \ D) \in Nat /\ Bytes(D) \in Nat
    BY <1>1, <1>3, BytesSplit
  <1>5. stats'.pendingBytes = stats.pendingBytes - Bytes(D)
         /\ stats'.deadBytes = stats.deadBytes
    BY <1>1, <1>2 DEF SpoolTypeOK, PendingDeleted, StatsFields
  <1>6. Bytes(pending') = Bytes(pending \ D) /\ Bytes(deadLetter') = Bytes(deadLetter)
    BY <1>2
  <1> QED
    BY <1>1, <1>4, <1>5, <1>6 DEF ByteCountsExact

\* Recording an attempt rewrites rows one to one and leaves every payload.
LEMMA AttemptBytes ==
  ASSUME LimitsInv, NEW seqs, NEW uncertain \in BOOLEAN, RecordAttempt(seqs, uncertain)
  PROVE  ByteCountsExact'
  <1> DEFINE after(r) == IF r.seq \in seqs THEN Attempted(r, uncertain) ELSE r
             f == [r \in pending |-> after(r)]
  <1>1. SpoolInv /\ SpoolTypeOK /\ ByteCountsExact /\ OneHome
    BY DEF LimitsInv, SpoolInv
  <1>2. pending' = {after(r) : r \in pending} /\ stats' = stats /\ deadLetter' = deadLetter
    BY DEF RecordAttempt
  <1>3. \A r \in pending : after(r).seq = r.seq /\ after(r).event = r.event
    BY <1>1, AttemptedRow DEF SpoolTypeOK
  <1> HIDE DEF after
  <1>4. pending' = {f[r] : r \in pending}
    BY <1>2
  <1>5. /\ \A r \in pending : f[r].event = r.event
        /\ \A r, q \in pending : f[r] = f[q] => r = q
    BY <1>1, <1>3 DEF OneHome
  <1> HIDE DEF f
  <1>6. Sized(SizeOf, pending)
    BY <1>1, TablesSized
  <1>7. Bytes(pending') = Bytes(pending)
    BY <1>4, <1>5, <1>6, RowSumImage, BytesIsRowSum
  <1>8. Bytes(deadLetter') = Bytes(deadLetter)
    BY <1>2
  <1> QED
    BY <1>1, <1>2, <1>7, <1>8 DEF ByteCountsExact

\* What burying a row does to the counters and the bytes of both tables.
LEMMA BuryBytes ==
  ASSUME LimitsInv, NEW row \in pending, NEW uncertain \in BOOLEAN,
         MoveToDeadLetter(row, uncertain)
  PROVE  /\ ByteCountsExact'
         /\ Bytes(deadLetter') = Bytes(Survivors(row)) + SizeOf[row.event]
         /\ Cardinality(deadLetter') = Cardinality(Survivors(row)) + 1
  <1> DEFINE dead == AsDeadRow(row, uncertain)
             kept == Survivors(row)
             gone == deadLetter \ kept
  <1>1. SpoolInv /\ SpoolTypeOK /\ ByteCountsExact /\ CountersAhead /\ TablesFinite
    BY DEF LimitsInv, SpoolInv
  <1>2. /\ deadLetter' = kept \cup {dead} /\ pending' = pending \ {row}
        /\ stats' = PendingDeleted({row}, DeadInserted(dead, DeadDeleted(gone, stats)))
    BY DEF MoveToDeadLetter
  <1>3. kept \in SUBSET deadLetter
    BY DEF Survivors
  <1>4. dead.id = lastDeadId + 1 /\ dead.event = row.event
    BY DEF AsDeadRow
  <1>5. SizeOf[row.event] \in Nat
    BY <1>1, EventAssumption DEF SpoolTypeOK, PendingRow
  <1> HIDE DEF dead, kept
  <1>6. gone \in SUBSET deadLetter /\ kept = deadLetter \ gone
    BY <1>3
  <1> HIDE DEF gone
  <1>7. /\ Bytes(deadLetter) = Bytes(kept) + Bytes(gone)
        /\ Bytes(kept) \in Nat /\ Bytes(gone) \in Nat /\ Bytes(deadLetter) \in Nat
    BY <1>1, <1>6, BytesSplit
  <1>8. Bytes({row}) = SizeOf[row.event] /\ Bytes({dead}) = SizeOf[row.event]
         /\ Sized(SizeOf, {dead})
    BY <1>4, <1>5, RowSumSingle, BytesIsRowSum
  <1>9. /\ Bytes(pending) = Bytes(pending \ {row}) + Bytes({row})
        /\ Bytes(pending) \in Nat /\ Bytes(pending \ {row}) \in Nat
    BY <1>1, BytesSplit
  <1>10. dead \notin kept
    BY <1>1, <1>3, <1>4 DEF CountersAhead, SpoolTypeOK, DeadRow
  <1>11. Bytes(kept \cup {dead}) = Bytes(kept) + SizeOf[row.event]
    <2>1. Sized(SizeOf, kept) /\ kept \cap {dead} = {}
      BY <1>1, <1>3, <1>10, TablesSized
    <2> QED
      BY <1>8, <2>1, RowSumUnion, BytesIsRowSum
  <1>12. Cardinality(kept \cup {dead}) = Cardinality(kept) + 1
    BY <1>1, <1>3, <1>10, FS_Subset, FS_AddElement DEF TablesFinite
  <1>13. /\ stats'.pendingBytes = stats.pendingBytes - Bytes({row})
         /\ stats'.deadBytes = (stats.deadBytes - Bytes(gone)) + SizeOf[row.event]
    BY <1>1, <1>2, <1>4
       DEF SpoolTypeOK, StatsFields, PendingDeleted, DeadInserted, DeadDeleted
  <1>14. Bytes(deadLetter') = Bytes(kept) + SizeOf[row.event]
          /\ Bytes(pending') = Bytes(pending \ {row})
    BY <1>2, <1>11
  <1>15. ByteCountsExact'
    BY <1>1, <1>5, <1>7, <1>8, <1>9, <1>13, <1>14 DEF ByteCountsExact
  <1> QED
    BY <1>2, <1>12, <1>14, <1>15 DEF kept

\* delete_dead_letters: so does the one of the ring.
LEMMA DeleteBytes ==
  ASSUME LimitsInv, NEW seqs, DeleteDeadLetters(seqs)
  PROVE  ByteCountsExact'
  <1> DEFINE D == {d \in deadLetter : d.seq \in seqs}
  <1>1. SpoolInv /\ SpoolTypeOK /\ ByteCountsExact
    BY DEF LimitsInv, SpoolInv
  <1>2. deadLetter' = deadLetter \ D /\ stats' = DeadDeleted(D, stats) /\ pending' = pending
    BY DEF DeleteDeadLetters
  <1>3. D \in SUBSET deadLetter
    OBVIOUS
  <1> HIDE DEF D
  <1>4. /\ Bytes(deadLetter) = Bytes(deadLetter \ D) + Bytes(D)
        /\ Bytes(deadLetter \ D) \in Nat /\ Bytes(D) \in Nat
    BY <1>1, <1>3, BytesSplit
  <1>5. stats'.deadBytes = stats.deadBytes - Bytes(D)
         /\ stats'.pendingBytes = stats.pendingBytes
    BY <1>1, <1>2 DEF SpoolTypeOK, DeadDeleted, StatsFields
  <1>6. Bytes(deadLetter') = Bytes(deadLetter \ D) /\ Bytes(pending') = Bytes(pending)
    BY <1>2
  <1> QED
    BY <1>1, <1>4, <1>5, <1>6 DEF ByteCountsExact

-----------------------------------------------------------------------------
\* An empty file counts no bytes.
LEMMA InitSetsLimitsInv ==
  ASSUME SpoolInit
  PROVE  LimitsInv
  <1>1. SpoolInv
    BY InitSetsInv
  <1>2. Bytes({}) = 0
    BY RowSumEmpty, BytesIsRowSum
  <1>3. ByteCountsExact
    BY <1>2 DEF SpoolInit, ByteCountsExact
  <1> QED
    BY <1>1, <1>3 DEF LimitsInv

\* Every call, opening and closing keeps both kinds of counters exact.
LEMMA CallKeepsLimitsInv ==
  ASSUME LimitsInv, [SpoolCall]_spoolVars
  PROVE  LimitsInv'
  <1>1. SpoolInv' /\ SpoolInv /\ ByteCountsExact
    BY CallKeepsInv DEF LimitsInv
  <1>2. CASE EnqueueAny
    <2>1. PICK n \in Nat : \E batch \in [1 .. n -> Events] : EnqueueMany(batch)
      BY <1>2 DEF EnqueueAny
    <2>2. PICK batch \in [1 .. n -> Events] : EnqueueMany(batch)
      BY <2>1
    <2>3. ByteCountsExact'
      BY <1>1, <2>2, EnqueueBytes DEF ByteCountsExact
    <2> QED
      BY <1>1, <2>3 DEF LimitsInv
  <1>3. CASE DeliverAny
    BY <1>1, <1>3, DeliverBytes DEF DeliverAny, LimitsInv
  <1>4. CASE AttemptAny
    BY <1>1, <1>4, AttemptBytes DEF AttemptAny, LimitsInv
  <1>5. CASE Bury
    BY <1>1, <1>5, BuryBytes DEF Bury, LimitsInv
  <1>6. CASE DeleteAny
    BY <1>1, <1>6, DeleteBytes DEF DeleteAny, LimitsInv
  <1>7. CASE Reopen
    <2>1. ByteCountsExact'
      BY <1>7 DEF Reopen, OpenSpool, Recount, ByteCountsExact
    <2> QED
      BY <1>1, <2>1 DEF LimitsInv
  <1>8. CASE CloseSpool \/ UNCHANGED spoolVars
    BY <1>1, <1>8 DEF CloseSpool, spoolVars, ByteCountsExact, LimitsInv
  <1> QED
    BY <1>2, <1>3, <1>4, <1>5, <1>6, <1>7, <1>8 DEF SpoolCall

\* The counters of spool_stats, rows and bytes, are exact after any sequence of
\* calls (the triggers and _reconcile_stats).
LEMMA UseLimitsInvariant == SpoolUse => []LimitsInv
  <1>1. SpoolInit => LimitsInv
    BY InitSetsLimitsInv
  <1>2. LimitsInv /\ [SpoolCall]_spoolVars => LimitsInv'
    BY CallKeepsLimitsInv
  <1> QED
    BY <1>1, <1>2, PTL DEF SpoolUse

\* The byte counters of spool_stats equal the bytes of the payloads in the
\* tables after any sequence of calls (the triggers, _reconcile_stats).
THEOREM SpoolByteCounts == SpoolSpec => []ByteCountsExact
  <1>1. LimitsInv => ByteCountsExact
    BY DEF LimitsInv
  <1> QED
    BY <1>1, UseLimitsInvariant, SpecIsUse, PTL

\* With exact counters the eviction loop of move_to_dead_letter ends in front of
\* some row or with an empty ring that takes the row to bury.
LEMMA LoopMakesRoom ==
  ASSUME LimitsInv
  PROVE  BurialPossible
  <1>1. ASSUME LimitsInv, NEW row \in pending, SizeOf[row.event] <= limits.deadBytes
        PROVE  FitsWithout(deadLetter, row)
    <2>1. SpoolInv /\ SpoolTypeOK /\ RowCountsExact /\ ByteCountsExact
      BY <1>1 DEF LimitsInv, SpoolInv
    <2>2. limits.deadRows \in Nat \ {0} /\ limits.deadBytes \in Nat
      BY <2>1, LimitAssumption DEF SpoolTypeOK, LimitType
    <2>3. Bytes(deadLetter) \in Nat
      BY <2>1, BytesSplit
    <2>4. Cardinality(deadLetter) \in Nat
      BY <2>1, FS_CardinalityType DEF SpoolInv, TablesFinite
    <2>5. SizeOf[row.event] \in Nat
      BY <2>1, EventAssumption DEF SpoolTypeOK, PendingRow
    <2>6. stats.deadRows - Cardinality(deadLetter) = 0 /\ stats.deadBytes - Bytes(deadLetter) = 0
      BY <2>1, <2>3, <2>4 DEF RowCountsExact, ByteCountsExact
    <2> QED
      BY <1>1, <2>2, <2>5, <2>6 DEF FitsWithout
  <1> QED
    BY <1>1 DEF BurialPossible, DeadLetterFull

\* DeadLetterFullError is left to rows larger than the ring itself, at any time
\* and under any limits the spool was reopened with (move_to_dead_letter).
THEOREM SpoolBurialPossible == SpoolSpec => []BurialPossible
  BY LoopMakesRoom, UseLimitsInvariant, SpecIsUse, PTL

-----------------------------------------------------------------------------
(* The eviction loop.                                                      *)

\* What the loop's condition compares once the rows older than d are gone:
\* the rows from d on and the new row, by their real counts.
LEMMA FitsByCount ==
  ASSUME LimitsInv, NEW row \in pending, NEW gone \in SUBSET deadLetter
  PROVE  /\ FitsWithout(gone, row) <=>
              /\ Cardinality(deadLetter \ gone) + 1 <= limits.deadRows
              /\ Bytes(deadLetter \ gone) + SizeOf[row.event] <= limits.deadBytes
         /\ Cardinality(deadLetter \ gone) \in Nat /\ Bytes(deadLetter \ gone) \in Nat
         /\ SizeOf[row.event] \in Nat
         /\ limits.deadRows \in Nat /\ limits.deadBytes \in Nat
  <1>1. SpoolInv /\ SpoolTypeOK /\ RowCountsExact /\ ByteCountsExact
    BY DEF LimitsInv, SpoolInv
  <1>2. limits.deadRows \in Nat /\ limits.deadBytes \in Nat
    BY <1>1, LimitAssumption DEF SpoolTypeOK, LimitType
  <1>3. /\ Bytes(deadLetter) = Bytes(deadLetter \ gone) + Bytes(gone)
        /\ Bytes(deadLetter \ gone) \in Nat /\ Bytes(gone) \in Nat
    BY <1>1, BytesSplit
  <1>4. IsFiniteSet(deadLetter) /\ IsFiniteSet(deadLetter \ gone) /\ Cardinality(deadLetter) \in Nat
    BY <1>1, FS_CardinalityType, FS_Subset DEF SpoolInv, TablesFinite
  <1>5. /\ Cardinality(deadLetter \ gone) = Cardinality(deadLetter) - Cardinality(gone)
        /\ Cardinality(gone) \in Nat /\ Cardinality(deadLetter \ gone) \in Nat
    BY <1>4, DeletedRows, FS_CardinalityType
  <1>6. SizeOf[row.event] \in Nat
    BY <1>1, EventAssumption DEF SpoolTypeOK, PendingRow
  <1>7. /\ stats.deadRows - Cardinality(gone) = Cardinality(deadLetter \ gone)
        /\ stats.deadBytes - Bytes(gone) = Bytes(deadLetter \ gone)
    BY <1>1, <1>3, <1>4, <1>5 DEF RowCountsExact, ByteCountsExact
  <1> QED
    BY <1>2, <1>3, <1>5, <1>6, <1>7 DEF FitsWithout

\* Deleting more never makes the row fit less.
LEMMA FitsMonotone ==
  ASSUME LimitsInv, NEW row \in pending, NEW gone \in SUBSET deadLetter,
         NEW more \in SUBSET deadLetter, gone \subseteq more, FitsWithout(gone, row)
  PROVE  FitsWithout(more, row)
  <1> DEFINE A == deadLetter \ gone
             B == deadLetter \ more
  <1>1. B \subseteq A /\ A \in SUBSET deadLetter
    OBVIOUS
  <1>2. SpoolInv
    BY DEF LimitsInv
  <1>3. Sized(SizeOf, A) /\ IsFiniteSet(A)
    BY <1>1, <1>2, TablesSized DEF Sized
  <1>4. /\ FitsWithout(gone, row) <=> /\ Cardinality(A) + 1 <= limits.deadRows
                                      /\ Bytes(A) + SizeOf[row.event] <= limits.deadBytes
        /\ FitsWithout(more, row) <=> /\ Cardinality(B) + 1 <= limits.deadRows
                                      /\ Bytes(B) + SizeOf[row.event] <= limits.deadBytes
        /\ {Cardinality(A), Cardinality(B), Bytes(A), Bytes(B), SizeOf[row.event],
            limits.deadRows, limits.deadBytes} \subseteq Nat
    BY FitsByCount
  <1> HIDE DEF A, B
  <1>5. Bytes(B) <= Bytes(A) /\ Cardinality(B) <= Cardinality(A)
    BY <1>1, <1>3, RowSumMonotone, BytesIsRowSum, FS_Subset
  <1>6. Cardinality(A) + 1 <= limits.deadRows /\ Bytes(A) + SizeOf[row.event] <= limits.deadBytes
    BY <1>4
  <1>7. Cardinality(B) + 1 <= limits.deadRows /\ Bytes(B) + SizeOf[row.event] <= limits.deadBytes
    BY <1>4, <1>5, <1>6
  <1> QED
    BY <1>4, <1>7

\* The order of the ring: a row younger than a survivor survives.
LEMMA SurvivorsUpward ==
  ASSUME LimitsInv, NEW row \in pending, NEW d \in Survivors(row), NEW e \in deadLetter,
         d.id <= e.id
  PROVE  e \in Survivors(row)
  <1>1. \A r \in deadLetter : r.id \in Nat
    BY DEF LimitsInv, SpoolInv, SpoolTypeOK, DeadRow
  <1>2. d \in deadLetter /\ FitsWithout(Older(d), row)
    BY DEF Survivors
  <1>3. Older(d) \subseteq Older(e) /\ Older(d) \in SUBSET deadLetter
         /\ Older(e) \in SUBSET deadLetter
    BY <1>1, <1>2 DEF Older
  <1>4. FitsWithout(Older(e), row)
    BY <1>2, <1>3, FitsMonotone
  <1> QED
    BY <1>4 DEF Survivors

\* The survivors are the rows that the oldest of them leaves in the ring; if
\* none survives, the loop has emptied it.
LEMMA SurvivorsFit ==
  ASSUME LimitsInv, NEW row \in pending, ~DeadLetterFull(row)
  PROVE  /\ Cardinality(Survivors(row)) + 1 <= limits.deadRows
         /\ Bytes(Survivors(row)) + SizeOf[row.event] <= limits.deadBytes
  <1> DEFINE kept == Survivors(row)
  <1>1. kept \in SUBSET deadLetter
    BY DEF Survivors
  <1>2. CASE kept = {}
    <2>1. FitsWithout(deadLetter, row) /\ deadLetter \ deadLetter = kept
      BY <1>2 DEF DeadLetterFull
    <2> QED
      BY <2>1, FitsByCount
  <1>3. CASE kept # {}
    <2> DEFINE Tails == {Older(d) : d \in kept}
    <2>1. IsFiniteSet(deadLetter)
      BY DEF LimitsInv, SpoolInv, TablesFinite
    <2>2. Tails \in SUBSET (SUBSET deadLetter) /\ Tails # {}
      BY <1>3 DEF Older
    <2>3. PICK t \in Tails : \A u \in Tails : u \subseteq t => u = t
      <3> HIDE DEF Tails
      <3> QED
        BY <2>1, <2>2, SmallestSubset
    <2>4. PICK d \in kept : t = Older(d)
      BY <2>3
    <2>5. \A r \in deadLetter : r.id \in Nat
      BY DEF LimitsInv, SpoolInv, SpoolTypeOK, DeadRow
    <2>6. \A e \in kept : d.id <= e.id
      <3> SUFFICES ASSUME NEW e \in kept, e.id < d.id PROVE FALSE
        BY <1>1, <2>5
      <3>1. Older(e) \subseteq Older(d) /\ e \in Older(d) /\ e \notin Older(e)
        BY <1>1, <2>5 DEF Older
      <3>2. Older(e) \in Tails
        OBVIOUS
      <3> QED
        BY <2>3, <2>4, <3>1, <3>2
    <2>7. kept = deadLetter \ Older(d)
      <3>1. \A e \in deadLetter : d.id <= e.id => e \in kept
        BY SurvivorsUpward
      <3> QED
        BY <1>1, <2>5, <2>6, <3>1 DEF Older
    <2>8. FitsWithout(Older(d), row) /\ Older(d) \in SUBSET deadLetter
      BY DEF Survivors, Older
    <2> HIDE DEF kept
    <2>9. /\ Cardinality(kept) + 1 <= limits.deadRows
          /\ Bytes(kept) + SizeOf[row.event] <= limits.deadBytes
      BY <2>7, <2>8, FitsByCount
    <2> QED
      BY <2>9 DEF kept
  <1> QED
    BY <1>2, <1>3

\* A call that adds rows leaves its table within the limits it was opened
\* with, by the real counts (enqueue_many, move_to_dead_letter).
LEMMA UseCapacity == SpoolUse => CapacityRespected
  <1> DEFINE Within ==
        /\ ~(pending' \subseteq pending) /\ Sequences(pending') # Sequences(pending)
             => /\ Cardinality(pending') <= limits.pendingRows
                /\ Bytes(pending') <= limits.pendingBytes
        /\ ~(deadLetter' \subseteq deadLetter)
             => /\ Cardinality(deadLetter') <= limits.deadRows
                /\ Bytes(deadLetter') <= limits.deadBytes
  <1>1. ASSUME LimitsInv, SpoolCall
        PROVE  Within
    <2>1. SpoolInv /\ SpoolTypeOK /\ RowCountsExact /\ ByteCountsExact
      BY <1>1 DEF LimitsInv, SpoolInv
    <2>2. CASE EnqueueAny
      <3>1. PICK n \in Nat : \E batch \in [1 .. n -> Events] : EnqueueMany(batch)
        BY <2>2 DEF EnqueueAny
      <3>2. PICK batch \in [1 .. n -> Events] : EnqueueMany(batch)
        BY <3>1
      <3>3. /\ Bytes(pending') = Bytes(pending) + Bytes(NewRows(batch))
            /\ deadLetter' = deadLetter
        BY <1>1, <3>2, EnqueueBytes
      <3>4. ~Full(batch) /\ stats' = PendingInserted(NewRows(batch), stats)
        BY <3>2 DEF EnqueueMany
      <3>5. Cardinality(NewRows(batch)) = Cardinality(FreshPositions(batch))
        BY <2>1, NewRowsFresh
      <3>6. stats'.pendingRows = stats.pendingRows + Cardinality(NewRows(batch))
        BY <2>1, <3>4 DEF SpoolTypeOK, PendingInserted, StatsFields
      <3>7. SpoolInv'
        BY <2>1, <3>2, EnqueueKeepsInv
      <3>8. Cardinality(pending') = stats'.pendingRows
        BY <3>7 DEF SpoolInv, RowCountsExact
      <3>9. /\ Cardinality(pending') = stats.pendingRows + Cardinality(FreshPositions(batch))
             /\ Bytes(pending') = stats.pendingBytes + Bytes(NewRows(batch))
        BY <2>1, <3>3, <3>5, <3>6, <3>8 DEF ByteCountsExact
      <3>10. /\ Cardinality(pending') \in Nat
             /\ limits.pendingRows \in Nat /\ limits.pendingBytes \in Nat
        BY <2>1, <3>7, LimitAssumption, FS_CardinalityType
           DEF SpoolInv, TablesFinite, SpoolTypeOK, LimitType
      <3>11. Bytes(pending') \in Nat
        <4>1. Sized(SizeOf, pending')
          BY <3>7, EventAssumption DEF Sized, SpoolInv, SpoolTypeOK, TablesFinite, PendingRow
        <4> QED
          BY <4>1, RowSumType, BytesIsRowSum
      <3>12. /\ ~(Cardinality(pending') > limits.pendingRows)
             /\ ~(Bytes(pending') > limits.pendingBytes)
        BY <3>4, <3>9 DEF Full
      <3> QED
        BY <3>3, <3>10, <3>11, <3>12
    <2>3. CASE AttemptAny
      <3>1. PICK seqs \in SUBSET Sequences(pending), uncertain \in BOOLEAN :
               RecordAttempt(seqs, uncertain)
        BY <2>3 DEF AttemptAny
      <3>2. \A p \in pending : Attempted(p, uncertain).seq = p.seq
        BY <2>1, AttemptedRow DEF SpoolTypeOK
      <3>3. /\ pending' = {IF r.seq \in seqs THEN Attempted(r, uncertain) ELSE r : r \in pending}
            /\ deadLetter' = deadLetter
        BY <3>1 DEF RecordAttempt
      <3>4. Sequences(pending') = Sequences(pending)
        BY <3>2, <3>3 DEF Sequences
      <3> QED
        BY <3>3, <3>4
    <2>4. CASE Bury
      <3>1. PICK row \in pending, uncertain \in BOOLEAN : MoveToDeadLetter(row, uncertain)
        BY <2>4 DEF Bury
      <3>2. ~DeadLetterFull(row) /\ pending' \subseteq pending
        BY <3>1 DEF MoveToDeadLetter
      <3>3. /\ Bytes(deadLetter') = Bytes(Survivors(row)) + SizeOf[row.event]
            /\ Cardinality(deadLetter') = Cardinality(Survivors(row)) + 1
        BY <1>1, <3>1, BuryBytes
      <3>4. /\ Cardinality(Survivors(row)) + 1 <= limits.deadRows
            /\ Bytes(Survivors(row)) + SizeOf[row.event] <= limits.deadBytes
        BY <1>1, <3>2, SurvivorsFit
      <3> QED
        BY <3>2, <3>3, <3>4
    <2>5. CASE DeliverAny \/ DeleteAny \/ Reopen \/ CloseSpool
      BY <2>5 DEF DeliverAny, DeleteAny, Reopen, CloseSpool, MarkDelivered, DeleteDeadLetters,
                  OpenSpool
    <2> QED
      BY <1>1, <2>2, <2>3, <2>4, <2>5 DEF SpoolCall
  <1>2. LimitsInv /\ [SpoolCall]_spoolVars => [Within]_spoolVars
    BY <1>1
  <1> QED
    BY <1>2, UseLimitsInvariant, PTL DEF SpoolUse, CapacityRespected

\* So after any calls before it, and over tables that were filled under higher
\* limits (SQLiteSpool.__init__, enqueue_many, move_to_dead_letter).
THEOREM SpoolCapacity == SpoolSpec => CapacityRespected
  BY UseCapacity, SpecIsUse, PTL

\* move_to_dead_letter evicts from the old end of the ring only, and nothing
\* that could have stayed.
LEMMA UseRingEvicts == SpoolUse => RingEvictsOnlyWhatItMust
  <1> DEFINE Kept(v) == deadLetter' \cup {d \in deadLetter : d.id >= v.id}
             Needed(v) == /\ \A s \in deadLetter \cap deadLetter' : v.id < s.id
                          /\ \/ Cardinality(Kept(v)) > limits.deadRows
                             \/ Bytes(Kept(v)) > limits.deadBytes
             Sparing == lastDeadId' # lastDeadId =>
                           \A v \in deadLetter \ deadLetter' : Needed(v)
  <1>1. ASSUME LimitsInv, SpoolCall, lastDeadId' # lastDeadId,
               NEW v \in deadLetter \ deadLetter'
        PROVE  Needed(v)
    <2>1. Bury
      BY <1>1 DEF SpoolCall, EnqueueAny, EnqueueMany, DeliverAny, MarkDelivered,
                  AttemptAny, RecordAttempt, DeleteAny, DeleteDeadLetters, Reopen, OpenSpool,
                  CloseSpool
    <2>2. PICK row \in pending, uncertain \in BOOLEAN : MoveToDeadLetter(row, uncertain)
      BY <2>1 DEF Bury
    <2> DEFINE dead == AsDeadRow(row, uncertain)
               young == deadLetter \ Older(v)
    <2>3. deadLetter' = Survivors(row) \cup {dead}
      BY <2>2 DEF MoveToDeadLetter
    <2>4. SpoolInv /\ SpoolTypeOK /\ CountersAhead /\ IsFiniteSet(deadLetter)
      BY <1>1 DEF LimitsInv, SpoolInv, TablesFinite
    <2>5. \A r \in deadLetter : r.id \in Nat /\ r.id <= lastDeadId /\ lastDeadId \in Nat
      BY <2>4 DEF SpoolTypeOK, CountersAhead, DeadRow
    <2>6. dead.id = lastDeadId + 1 /\ dead.event = row.event
      BY DEF AsDeadRow
    <2> HIDE DEF dead
    <2>7. dead \notin deadLetter
      BY <2>5, <2>6
    <2>8. v \in deadLetter /\ v \notin Survivors(row) /\ Survivors(row) \subseteq deadLetter
      BY <2>3 DEF Survivors
    <2>9. \A s \in Survivors(row) : v.id < s.id
      BY <1>1, <2>5, <2>8, SurvivorsUpward
    <2>10. Survivors(row) \subseteq young
      BY <2>5, <2>8, <2>9 DEF Older
    <2>11. Kept(v) = young \cup {dead}
      <3>1. {d \in deadLetter : d.id >= v.id} = young
        BY <2>5, <2>8 DEF Older
      <3> QED
        BY <2>3, <2>10, <3>1
    <2>12. Older(v) \in SUBSET deadLetter /\ ~FitsWithout(Older(v), row)
      BY <2>8 DEF Older, Survivors
    <2>13. /\ ~(/\ Cardinality(young) + 1 <= limits.deadRows
                /\ Bytes(young) + SizeOf[row.event] <= limits.deadBytes)
           /\ Cardinality(young) \in Nat /\ Bytes(young) \in Nat /\ SizeOf[row.event] \in Nat
           /\ limits.deadRows \in Nat /\ limits.deadBytes \in Nat
      BY <1>1, <2>12, FitsByCount
    <2>14. young \in SUBSET deadLetter
      OBVIOUS
    <2> HIDE DEF young
    <2>15. Cardinality(young \cup {dead}) = Cardinality(young) + 1
      BY <2>4, <2>7, <2>14, FS_Subset, FS_AddElement
    <2>16. Bytes(young \cup {dead}) = Bytes(young) + SizeOf[row.event]
      <3>1. Sized(SizeOf, young) /\ young \cap {dead} = {}
        BY <2>4, <2>7, <2>14, TablesSized
      <3>2. Sized(SizeOf, {dead}) /\ RowSum(SizeOf, {dead}) = SizeOf[row.event]
        BY <2>6, <2>13, RowSumSingle
      <3> QED
        BY <3>1, <3>2, RowSumUnion, BytesIsRowSum
    <2>17. \A s \in deadLetter \cap deadLetter' : v.id < s.id
      BY <2>3, <2>7, <2>9
    <2>18. \/ Cardinality(young \cup {dead}) > limits.deadRows
           \/ Bytes(young \cup {dead}) > limits.deadBytes
      BY <2>13, <2>15, <2>16
    <2> HIDE DEF Kept
    <2>19. Cardinality(Kept(v)) > limits.deadRows \/ Bytes(Kept(v)) > limits.deadBytes
      BY <2>11, <2>18, Zenon
    <2> QED
      BY <2>17, <2>19
  <1>2. LimitsInv /\ [SpoolCall]_spoolVars => [Sparing]_spoolVars
    BY <1>1
  <1> QED
    BY <1>2, UseLimitsInvariant, PTL DEF SpoolUse, RingEvictsOnlyWhatItMust

\* So for every burial, whatever limits the ring was filled under
\* (move_to_dead_letter).
THEOREM SpoolRingEvicts == SpoolSpec => RingEvictsOnlyWhatItMust
  BY UseRingEvicts, SpecIsUse, PTL

=============================================================================
